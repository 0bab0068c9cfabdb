------------------------------ MODULE Rollout ------------------------------
(***************************************************************************)
(* One rollout: the row of autonomous_rollouts, its rollout_items, the     *)
(* items and child build runs behind them, and the requests that plan,     *)
(* start, complete, reset, halt, resume and cancel it.                     *)
(*                                                                         *)
(* As in RunLifecycle an action is the code between two awaits, except     *)
(* that reads which only guard a request are taken together, the last one  *)
(* deciding.  Every request may stop at any await (an exception, or the    *)
(* process ending), leaving what it wrote so far.                          *)
(*                                                                         *)
(* The manager that drives a rollout runs on a dispatch host, outside this *)
(* code: it is a caller of these requests, in any order it likes.          *)
(***************************************************************************)
EXTENDS Naturals, FiniteSets

CONSTANTS
  Item,      \* the items of the rollout
  Edges,     \* the plan's edges: <<p, i>> when p comes before i
  Blocks,    \* the edges that are blockers of the items themselves
  Caller,    \* concurrent complete, reset and item-update requests
  Sweep,     \* the caller that is resume's sweep of done items
  Ops,       \* which of "dispatch", "halt", "cancel", "resume", "reset", "user", "early"
             \* happen
  Overlap,   \* may requests overlap?
  MaxDeaths  \* bound: requests that stop half-way

ASSUME RolloutAssumption ==
  /\ Edges \subseteq Item \X Item /\ Blocks \subseteq Edges
  /\ Sweep \notin Caller
  /\ Overlap \in BOOLEAN /\ MaxDeaths \in Nat

VARIABLES
  rstatus, \* autonomous_rollouts.status, "none" before the INSERT
  istatus, \* [Item -> ItemStatus], rollout_items.status
  gtd,     \* [Item -> {"open", "done", "cancelled"}], items.status
  lock,    \* [Item -> BOOLEAN], items.locked_by_rollout_id is this rollout
  build,   \* [Item -> BuildStatus], the latest build run of the item
  dpc,     \* [Item -> DispatchPc], the create_run request of the item
  call,    \* [Caller \cup {Sweep} -> Call], the requests on one item
  lead,    \* [LeadOp -> LeadPc], the requests on the whole rollout
  target,  \* [Item -> ItemStatus \cup {"keep"}], what resume has yet to write
  relock,  \* SUBSET Item, non_terminal_items of resume
  sweep,   \* SUBSET Item, rows its sweep has yet to record
  owed,    \* [Item -> Outcome \cup {"none"}], a completion that stopped half-way
  deaths   \* how many requests stopped half-way

vars == <<rstatus, istatus, gtd, lock, build, dpc, call, lead, target, relock, sweep,
          owed, deaths>>

-----------------------------------------------------------------------------
Outcome     == {"completed", "halted", "skipped"} \* _TERMINAL_STATUSES
Finished    == {"completed", "skipped"}
Live        == {"pending", "ready", "dispatched"}
ItemStatus  == {"absent"} \cup Live \cup Outcome
Status      == {"none", "planning", "pending", "running", "halted", "cancelled",
                "failed", "completed"}
BuildActive == {"pending", "running"}
BuildStatus == {"none", "success", "failed", "cancelled"} \cup BuildActive
DispatchPc  == {"idle", "insert", "link", "active"}
CallPc      == {"write", "release", "heal", "done", "check", "autoclose", "reload",
                "unblock", "close", "reset"}
LeadOp      == {"plan", "start", "halt", "cancel", "resume"}
LeadPc      == {"idle", "derive", "write", "status", "items", "runs", "locks",
                "snapshot", "restore", "sweep"}
Callers     == Caller \cup {Sweep}

\* Only a reset and a user's update have no outcome to record.
Call == {k \in [pc : CallPc, item : Item, out : Outcome \cup {"none"}, seen : ItemStatus,
                todo : SUBSET Item, close : BOOLEAN] :
           k.out = "none" => k.pc \in {"check", "autoclose", "reset"}}
NoCall == [pc |-> "idle"]

\* A request on item i at pc, which has seen no more than the status of the item.
NewCall(pc, i, out) ==
  [pc |-> pc, item |-> i, out |-> out, seen |-> istatus[i], todo |-> {}, close |-> FALSE]

\* A completion that found its outcome recorded repeats an earlier one.
Repeats(k) == k.seen = k.out

Preds(i) == {p \in Item : <<p, i>> \in Edges}

TypeOK ==
  /\ rstatus \in Status
  /\ istatus \in [Item -> ItemStatus]
  /\ gtd \in [Item -> {"open", "done", "cancelled"}]
  /\ lock \in [Item -> BOOLEAN]
  /\ build \in [Item -> BuildStatus]
  /\ dpc \in [Item -> DispatchPc]
  /\ call \in [Callers -> Call \cup {NoCall}]
  /\ lead \in [LeadOp -> LeadPc]
  /\ target \in [Item -> ItemStatus \cup {"keep"}]
  /\ relock \subseteq Item
  /\ sweep \subseteq Item
  /\ owed \in [Item -> Outcome \cup {"none"}]
  /\ deaths \in 0..MaxDeaths

Init ==
  /\ rstatus = "none"
  /\ istatus = [i \in Item |-> "absent"]
  /\ gtd = [i \in Item |-> "open"]
  /\ lock = [i \in Item |-> FALSE]
  /\ build = [i \in Item |-> "none"]
  /\ dpc = [i \in Item |-> "idle"]
  /\ call = [c \in Callers |-> NoCall]
  /\ lead = [o \in LeadOp |-> "idle"]
  /\ target = [i \in Item |-> "keep"]
  /\ relock = {} /\ sweep = {}
  /\ owed = [i \in Item |-> "none"]
  /\ deaths = 0

-----------------------------------------------------------------------------
(* Helpers *)

\* No request is being served; without Overlap each starts from such a state.
Quiet ==
  /\ \A i \in Item : dpc[i] = "idle"
  /\ \A c \in Callers : call[c].pc = "idle"
  /\ \A o \in LeadOp : lead[o] = "idle"
Begin == Overlap \/ Quiet

\* The lead plans and starts a rollout between completions of its items, not
\* during one.
Early == "early" \in Ops
Known == Early \/ (lead["plan"] = "idle" /\ lead["start"] = "idle")

\* A request on the whole rollout moves from one await to the next.
Step(o, from, to) == lead[o] = from /\ lead' = [lead EXCEPT ![o] = to]

\* So does one on an item, which ends as NoCall.
Goto(c, pc) ==
  call' = [call EXCEPT ![c] = IF pc = "idle" THEN NoCall ELSE [@ EXCEPT !.pc = pc]]

\* Of the rows there are: a plan that stopped half-way has not inserted them all.
AllFinished(s) == \A i \in Item : s[i] \in Finished \cup {"absent"}
GtdTerminal == \A i \in Item : istatus[i] # "absent" => gtd[i] \in {"done", "cancelled"}

\* get_unresolved_blockers
Unresolved(i) == {p \in Item : <<p, i>> \in Blocks /\ gtd[p] = "open"}

-----------------------------------------------------------------------------
(* plan_rollout and start_rollout *)

PlanFrame == UNCHANGED <<gtd, lock, build, dpc, call, target, relock, sweep, owed, deaths>>

\* The legality contract holds (its items are ready), the row is inserted.
PlanBegin ==
  /\ Begin /\ rstatus = "none" /\ \A i \in Item : gtd[i] = "open"
  /\ rstatus' = "planning"
  /\ Step("plan", "idle", "derive")
  /\ UNCHANGED istatus /\ PlanFrame

\* derive_edges finds a cycle.
PlanFails ==
  /\ \A i \in Item : istatus[i] = "absent"
  /\ rstatus' = "failed"
  /\ Step("plan", "derive", "idle")
  /\ UNCHANGED istatus /\ PlanFrame

\* One INSERT per item, in any order: ready when its in-degree is 0.
PlanItem(i) ==
  /\ lead["plan"] = "derive" /\ istatus[i] = "absent"
  /\ istatus' = [istatus EXCEPT ![i] = IF Preds(i) = {} THEN "ready" ELSE "pending"]
  /\ UNCHANGED <<rstatus, lead>> /\ PlanFrame

PlanDone ==
  /\ \A i \in Item : istatus[i] # "absent"
  /\ rstatus' = "pending"
  /\ Step("plan", "derive", "idle")
  /\ UNCHANGED istatus /\ PlanFrame

StartRead ==
  /\ Begin /\ rstatus = "pending" /\ (Early \/ \A c \in Callers : call[c].pc = "idle")
  /\ Step("start", "idle", "write")
  /\ UNCHANGED <<rstatus, istatus>> /\ PlanFrame

\* UPDATE ... WHERE id = $3, whatever the status is by now.
StartWrite ==
  /\ rstatus' = "running"
  /\ Step("start", "write", "idle")
  /\ UNCHANGED istatus /\ PlanFrame

-----------------------------------------------------------------------------
(* create_run for a child build, and the run it creates *)

DispatchFrame == UNCHANGED <<rstatus, lock, call, lead, target, relock, sweep, owed, deaths>>

\* The done-item guard, the lock, the active runs, the unresolved blockers
\* and, last, the status of the rollout.
DispatchCheck(i) ==
  /\ Begin /\ "dispatch" \in Ops /\ dpc[i] = "idle"
  /\ gtd[i] # "done" /\ ~lock[i] /\ build[i] \notin BuildActive
  /\ Unresolved(i) = {}
  /\ rstatus = "running"
  /\ dpc' = [dpc EXCEPT ![i] = "insert"]
  /\ UNCHANGED <<istatus, gtd, build>> /\ DispatchFrame

DispatchInsert(i) ==
  /\ dpc[i] = "insert"
  /\ build' = [build EXCEPT ![i] = "pending"]
  /\ dpc' = [dpc EXCEPT ![i] = "link"]
  /\ UNCHANGED <<istatus, gtd>> /\ DispatchFrame

MutantDispatchLink(i) ==
  /\ dpc[i] = "link"
  /\ istatus' = [istatus EXCEPT ![i] = "dispatched"]
  /\ dpc' = [dpc EXCEPT ![i] = "active"]
  /\ UNCHANGED <<gtd, build>> /\ DispatchFrame

\* UPDATE rollout_items ... AND status = 'ready'
DispatchLink(i) ==
  /\ dpc[i] = "link"
  /\ istatus' = [istatus EXCEPT ![i] = IF @ = "ready" THEN "dispatched" ELSE @]
  /\ dpc' = [dpc EXCEPT ![i] = "active"]
  /\ UNCHANGED <<gtd, build>> /\ DispatchFrame

\* update_item(status="active"), best effort: refused while a blocker is open.
DispatchActive(i) ==
  /\ dpc[i] = "active"
  /\ gtd' \in {gtd} \cup IF Unresolved(i) = {} THEN {[gtd EXCEPT ![i] = "open"]} ELSE {}
  /\ dpc' = [dpc EXCEPT ![i] = "idle"]
  /\ UNCHANGED <<istatus, build>> /\ DispatchFrame

\* The run, which RunLifecycle models: routed once create_run has returned,
\* and ended by whatever ends it.
BuildMoves(i) ==
  /\ \/ build[i] = "pending" /\ dpc[i] = "idle" /\ build' = [build EXCEPT ![i] = "running"]
     \/ build[i] = "pending" /\ dpc[i] = "idle" /\ build' = [build EXCEPT ![i] = "failed"]
     \/ build[i] = "running" /\ \E s \in {"success", "failed"} :
                                  build' = [build EXCEPT ![i] = s]
  /\ UNCHANGED <<istatus, gtd, dpc>> /\ DispatchFrame

-----------------------------------------------------------------------------
(* complete_item_in_rollout *)

CallFrame == UNCHANGED <<build, dpc, lead, target, relock, sweep, deaths>>

MutantAccepted(i, out) == IF istatus[i] = out THEN "heal" ELSE "write"

\* What the statuses read allow: an idempotent repeat heals; a ready or
\* dispatched item, or a halted one by the override, is written.
Accepted(i, out) ==
  CASE istatus[i] = out -> "heal"
    [] istatus[i] \in {"ready", "dispatched"} -> "write"
    [] istatus[i] = "halted" /\ out \in Finished /\ rstatus \in {"halted", "running"} -> "write"
    [] OTHER -> "idle"

\* The rollout and the item are read.  The caller may be repeating a
\* completion that stopped half-way.
BeginComplete(c, i, out) ==
  /\ call[c] = NoCall /\ Accepted(i, out) # "idle"
  /\ call' = [call EXCEPT ![c] = NewCall(Accepted(i, out), i, out)]
  /\ owed' = [owed EXCEPT ![i] = IF @ = out THEN "none" ELSE @]

CompleteRead(c, i, out) ==
  /\ Begin /\ Known /\ c # Sweep
  /\ BeginComplete(c, i, out)
  /\ UNCHANGED <<rstatus, istatus, gtd, lock>> /\ CallFrame

\* UPDATE rollout_items SET status = outcome, unguarded.
CompleteWrite(c) ==
  /\ call[c].pc = "write"
  /\ istatus' = [istatus EXCEPT ![call[c].item] = call[c].out]
  /\ Goto(c, "release")
  /\ UNCHANGED <<rstatus, gtd, lock, owed>> /\ CallFrame

\* release_rollout_item
CompleteRelease(c) ==
  /\ call[c].pc = "release"
  /\ lock' = [lock EXCEPT ![call[c].item] = FALSE]
  /\ Goto(c, IF call[c].out = "completed" THEN "done" ELSE "reload")
  /\ UNCHANGED <<rstatus, istatus, gtd, owed>> /\ CallFrame

\* _heal_repeat_completion (1): is the item itself still to be done?
CompleteHeal(c) ==
  /\ call[c].pc = "heal"
  /\ Goto(c, IF call[c].out = "completed" /\ gtd[call[c].item] # "done" THEN "done"
             ELSE "reload")
  /\ UNCHANGED <<rstatus, istatus, gtd, lock, owed>> /\ CallFrame

\* complete_item: the item is done, and halted rollouts may now close.
CompleteDone(c) ==
  /\ call[c].pc = "done"
  /\ gtd' = [gtd EXCEPT ![call[c].item] = "done"]
  /\ Goto(c, "check")
  /\ UNCHANGED <<rstatus, istatus, lock, owed>> /\ CallFrame

\* A user marks the item done or cancelled: the same check follows.
UserCloses(c, i, s) ==
  /\ Begin /\ "user" \in Ops /\ c # Sweep /\ call[c] = NoCall /\ gtd[i] # s
  /\ gtd' = [gtd EXCEPT ![i] = s]
  /\ call' = [call EXCEPT ![c] = NewCall("check", i, "none")]
  /\ UNCHANGED <<rstatus, istatus, lock, owed>> /\ CallFrame

\* check_halted_rollout_completion, then back into the caller.
AfterCheck(c) == IF call[c].out = "none" THEN "idle" ELSE "reload"
AutoCheck(c) ==
  /\ call[c].pc = "check"
  /\ Goto(c, IF rstatus = "halted" /\ istatus[call[c].item] # "absent" /\ GtdTerminal
             THEN "autoclose" ELSE AfterCheck(c))
  /\ UNCHANGED <<rstatus, istatus, gtd, lock, owed>> /\ CallFrame

\* UPDATE ... AND status = 'halted'
AutoClose(c) ==
  /\ call[c].pc = "autoclose"
  /\ rstatus' = IF rstatus = "halted" THEN "completed" ELSE rstatus
  /\ Goto(c, AfterCheck(c))
  /\ UNCHANGED <<istatus, gtd, lock, owed>> /\ CallFrame

MutantUnblocked(s, i) ==
  {d \in Item : /\ <<i, d>> \in Edges /\ s[d] = "pending"
                /\ \A p \in Preds(d) : s[p] \in Finished}

\* _unblock_successors on the statuses s: which successors of i become ready.
Unblocked(s, i) ==
  {d \in Item : /\ <<i, d>> \in Edges /\ s[d] = "pending"
                /\ \A p \in Preds(d) : s[p] \in Outcome}

\* _load_item_statuses.  A fresh completion trusts its own write over the row.
Reloaded(c) ==
  IF Repeats(call[c]) THEN istatus ELSE [istatus EXCEPT ![call[c].item] = call[c].out]

MutantCompleteReload(c) ==
  /\ call[c].pc = "reload"
  /\ call' = [call EXCEPT ![c] =
       [@ EXCEPT !.pc = "unblock", !.todo = Unblocked(Reloaded(c), call[c].item),
                 !.close = \A i \in Item : Reloaded(c)[i] \in Outcome]]
  /\ UNCHANGED <<rstatus, istatus, gtd, lock, owed>> /\ CallFrame

\* What the completion does next is decided on these statuses.
CompleteReload(c) ==
  /\ call[c].pc = "reload"
  /\ call' = [call EXCEPT ![c] =
       [@ EXCEPT !.pc = "unblock", !.todo = Unblocked(Reloaded(c), call[c].item),
                 !.close = AllFinished(Reloaded(c))]]
  /\ UNCHANGED <<rstatus, istatus, gtd, lock, owed>> /\ CallFrame

\* UPDATE rollout_items SET status = 'ready' ... AND status = 'pending'
CompleteUnblock(c, d) ==
  /\ call[c].pc = "unblock" /\ d \in call[c].todo
  /\ istatus' = [istatus EXCEPT ![d] = IF @ = "pending" THEN "ready" ELSE @]
  /\ call' = [call EXCEPT ![c].todo = @ \ {d}]
  /\ UNCHANGED <<rstatus, gtd, lock, owed>> /\ CallFrame

MutantCompleteFinish(c) ==
  /\ call[c].pc = "unblock" /\ call[c].todo = {}
  /\ Goto(c, IF call[c].close /\ ~Repeats(call[c]) THEN "close" ELSE "idle")
  /\ UNCHANGED <<rstatus, istatus, gtd, lock, owed>> /\ CallFrame

\* Close the rollout?  A repeat reads its status first.
CompleteFinish(c) ==
  /\ call[c].pc = "unblock" /\ call[c].todo = {}
  /\ Goto(c, IF call[c].close /\ ~(Repeats(call[c]) /\ rstatus = "completed") THEN "close"
             ELSE "idle")
  /\ UNCHANGED <<rstatus, istatus, gtd, lock, owed>> /\ CallFrame

\* _close_rollout, unguarded.
CompleteClose(c) ==
  /\ call[c].pc = "close"
  /\ rstatus' = "completed"
  /\ Goto(c, "idle")
  /\ UNCHANGED <<istatus, gtd, lock, owed>> /\ CallFrame

-----------------------------------------------------------------------------
(* reset_rollout_item *)

ResetRead(c, i) ==
  /\ Begin /\ "reset" \in Ops /\ c # Sweep /\ call[c] = NoCall
  /\ rstatus = "running" /\ istatus[i] = "dispatched"
  /\ call' = [call EXCEPT ![c] = NewCall("reset", i, "none")]
  /\ UNCHANGED <<rstatus, istatus, gtd, lock, owed>> /\ CallFrame

\* UPDATE ... AND status = 'dispatched'
ResetWrite(c) ==
  /\ call[c].pc = "reset"
  /\ istatus' = [istatus EXCEPT ![call[c].item] = IF @ = "dispatched" THEN "ready" ELSE @]
  /\ Goto(c, "idle")
  /\ UNCHANGED <<rstatus, gtd, lock, owed>> /\ CallFrame

-----------------------------------------------------------------------------
(* halt_rollout and cancel_rollout *)

StopFrame == UNCHANGED <<gtd, dpc, call, target, relock, sweep, owed, deaths>>

HaltRead ==
  /\ Begin /\ "halt" \in Ops /\ rstatus \in {"running", "pending"}
  /\ Step("halt", "idle", "status")
  /\ UNCHANGED <<rstatus, istatus, lock, build>> /\ StopFrame

CancelRead ==
  /\ Begin /\ "cancel" \in Ops
  /\ rstatus \in {"pending", "planning", "running", "halted", "failed"}
  /\ Step("cancel", "idle", "status")
  /\ UNCHANGED <<rstatus, istatus, lock, build>> /\ StopFrame

\* UPDATE autonomous_rollouts ... WHERE id = $n, unguarded in both.
StopStatus(o) ==
  /\ Step(o, "status", "items")
  /\ rstatus' = IF o = "halt" THEN "halted" ELSE "cancelled"
  /\ UNCHANGED <<istatus, lock, build>> /\ StopFrame

HaltItems ==
  /\ Step("halt", "items", "runs")
  /\ istatus' = [i \in Item |-> IF istatus[i] \in Live THEN "halted" ELSE istatus[i]]
  /\ UNCHANGED <<rstatus, lock, build>> /\ StopFrame

MutantCancelItems ==
  /\ Step("cancel", "items", "runs")
  /\ istatus' = [i \in Item |-> IF istatus[i] \in {"ready", "dispatched", "halted"}
                                THEN "skipped" ELSE istatus[i]]
  /\ UNCHANGED <<rstatus, lock, build>> /\ StopFrame

CancelItems ==
  /\ Step("cancel", "items", "runs")
  /\ istatus' = [i \in Item |-> IF istatus[i] \in Live \cup {"halted"}
                                THEN "skipped" ELSE istatus[i]]
  /\ UNCHANGED <<rstatus, lock, build>> /\ StopFrame

\* _fetch_active_child_runs and _cancel_child_runs, taken as one step: a halt
\* spares the runs a host already has, a cancel does not.
StopRuns(o) ==
  /\ Step(o, "runs", "locks")
  /\ LET hit == IF o = "halt" THEN {"pending"} ELSE BuildActive
     IN build' = [i \in Item |-> IF build[i] \in hit THEN "cancelled" ELSE build[i]]
  /\ UNCHANGED <<rstatus, istatus, lock>> /\ StopFrame

\* release_rollout_locks
StopLocks(o) ==
  /\ Step(o, "locks", "idle")
  /\ lock' = [i \in Item |-> FALSE]
  /\ UNCHANGED <<rstatus, istatus, build>> /\ StopFrame

-----------------------------------------------------------------------------
(* resume_rollout.  Relaunching the loop creates a manage run: not modelled. *)

ResumeFrame == UNCHANGED <<gtd, build, dpc, deaths>>

\* A running rollout is only swept.
ResumeRead ==
  /\ Begin /\ "resume" \in Ops /\ rstatus \in {"halted", "running"}
  /\ Step("resume", "idle", IF rstatus = "halted" THEN "snapshot" ELSE "sweep")
  /\ UNCHANGED <<rstatus, istatus, lock, call, target, relock, sweep, owed>> /\ ResumeFrame

\* Where a halted item goes, by the statuses and builds as read.
ResumeTarget(i) ==
  CASE istatus[i] # "halted" -> "keep"
    [] istatus[i] = "halted" /\ build[i] \in BuildActive \cup {"success"} -> "dispatched"
    [] istatus[i] = "halted" /\ build[i] \notin BuildActive \cup {"success"} ->
         IF \A p \in Preds(i) : istatus[p] \in Outcome THEN "ready" ELSE "pending"

ResumeSnapshot ==
  /\ Step("resume", "snapshot", "restore")
  /\ target' = [i \in Item |-> ResumeTarget(i)]
  /\ relock' = {i \in Item : istatus[i] \in Live}
  /\ UNCHANGED <<rstatus, istatus, lock, call, sweep, owed>> /\ ResumeFrame

\* One UPDATE per halted item, unguarded, in any order.
ResumeItem(i) ==
  /\ lead["resume"] = "restore" /\ target[i] # "keep"
  /\ istatus' = [istatus EXCEPT ![i] = target[i]]
  /\ target' = [target EXCEPT ![i] = "keep"]
  /\ UNCHANGED <<rstatus, lock, call, lead, relock, sweep, owed>> /\ ResumeFrame

\* lock_items_for_rollout, of the items that were live before.
ResumeLock ==
  /\ \A i \in Item : target[i] = "keep"
  /\ Step("resume", "restore", "status")
  /\ lock' = [i \in Item |-> lock[i] \/ i \in relock]
  /\ relock' = {}
  /\ UNCHANGED <<rstatus, istatus, call, target, sweep, owed>> /\ ResumeFrame

ResumeStatus ==
  /\ Step("resume", "status", "sweep")
  /\ rstatus' = "running"
  /\ UNCHANGED <<istatus, lock, call, target, relock, sweep, owed>> /\ ResumeFrame

\* _sweep_done_items: the rows to record; with none left resume is over.
ToSweep == {i \in Item : istatus[i] \in {"ready", "dispatched"} /\ gtd[i] = "done"}

SweepSelect ==
  /\ sweep = {} /\ call[Sweep] = NoCall
  /\ Step("resume", "sweep", IF ToSweep = {} THEN "idle" ELSE "sweep")
  /\ sweep' = ToSweep
  /\ UNCHANGED <<rstatus, istatus, lock, call, target, relock, owed>> /\ ResumeFrame

\* Each is completed by a call of its own; a refusal ends the resume.
SweepCall(i) ==
  /\ lead["resume"] = "sweep" /\ i \in sweep /\ call[Sweep] = NoCall
  /\ \/ /\ BeginComplete(Sweep, i, "completed")
        /\ sweep' = sweep \ {i} /\ UNCHANGED lead
     \/ /\ Accepted(i, "completed") = "idle"
        /\ sweep' = {} /\ Step("resume", "sweep", "idle")
        /\ UNCHANGED <<call, owed>>
  /\ UNCHANGED <<rstatus, istatus, lock, target, relock>> /\ ResumeFrame

-----------------------------------------------------------------------------
(* Requests that stop half-way *)

Death == deaths < MaxDeaths /\ deaths' = deaths + 1
Written == {"release", "done", "check", "autoclose", "reload", "unblock", "close", "heal"}

EndResume ==
  /\ target' = [i \in Item |-> "keep"]
  /\ relock' = {} /\ sweep' = {}

\* The caller knows that its completion failed.  The sweep takes resume along.
CallDies(c) ==
  /\ Death /\ call[c] # NoCall
  /\ Goto(c, "idle")
  /\ owed' = IF call[c].pc \in Written /\ call[c].out # "none"
             THEN [owed EXCEPT ![call[c].item] = call[c].out] ELSE owed
  /\ IF c = Sweep THEN EndResume /\ lead' = [lead EXCEPT !["resume"] = "idle"]
                  ELSE UNCHANGED <<target, relock, sweep, lead>>
  /\ UNCHANGED <<rstatus, istatus, gtd, lock, build, dpc>>

\* update_item only logs a failure of the check.
CheckFails(c) ==
  /\ Death /\ call[c].pc \in {"check", "autoclose"}
  /\ Goto(c, AfterCheck(c))
  /\ UNCHANGED <<rstatus, istatus, gtd, lock, build, dpc, lead, target, relock, sweep, owed>>

LeadDies(o) ==
  /\ Death /\ lead[o] # "idle" /\ (o = "resume" => call[Sweep] = NoCall)
  /\ lead' = [lead EXCEPT ![o] = "idle"]
  /\ IF o = "resume" THEN EndResume ELSE UNCHANGED <<target, relock, sweep>>
  /\ UNCHANGED <<rstatus, istatus, gtd, lock, build, dpc, call, owed>>

\* After the INSERT the exception handler marks the run failed, if it runs.
DispatchDies(i) ==
  /\ Death /\ dpc[i] # "idle"
  /\ dpc' = [dpc EXCEPT ![i] = "idle"]
  /\ build' \in {build} \cup
       (IF dpc[i] \in {"link", "active"} /\ build[i] = "pending"
        THEN {[build EXCEPT ![i] = "failed"]} ELSE {})
  /\ UNCHANGED <<rstatus, istatus, gtd, lock, call, lead, target, relock, sweep, owed>>

-----------------------------------------------------------------------------
(* The specification *)

PlanStep     == PlanFails \/ PlanDone \/ \E i \in Item : PlanItem(i)
DispatchStep(i) == DispatchInsert(i) \/ DispatchLink(i) \/ DispatchActive(i)
CallStep(c) ==
  \/ CompleteWrite(c) \/ CompleteRelease(c) \/ CompleteHeal(c) \/ CompleteDone(c)
  \/ AutoCheck(c) \/ AutoClose(c) \/ CompleteReload(c)
  \/ \E d \in Item : CompleteUnblock(c, d)
  \/ CompleteFinish(c) \/ CompleteClose(c) \/ ResetWrite(c)
StopStep == \E o \in {"halt", "cancel"} :
              \/ StopStatus(o) \/ StopRuns(o) \/ StopLocks(o)
              \/ o = "halt" /\ HaltItems
              \/ o = "cancel" /\ CancelItems
ResumeStep ==
  \/ ResumeSnapshot \/ ResumeLock \/ ResumeStatus \/ SweepSelect
  \/ \E i \in Item : ResumeItem(i) \/ SweepCall(i)
Requests ==
  \/ PlanBegin \/ StartRead \/ HaltRead \/ CancelRead \/ ResumeRead
  \/ \E i \in Item : DispatchCheck(i)
  \/ \E c \in Caller, i \in Item :
       \/ ResetRead(c, i)
       \/ \E out \in Outcome : CompleteRead(c, i, out)
       \/ \E s \in {"done", "cancelled"} : UserCloses(c, i, s)
Deaths ==
  \/ \E c \in Callers : CallDies(c) \/ CheckFails(c)
  \/ \E o \in LeadOp : LeadDies(o)
  \/ \E i \in Item : DispatchDies(i)

Next ==
  \/ Requests
  \/ PlanStep \/ StartWrite \/ StopStep \/ ResumeStep
  \/ \E i \in Item : DispatchStep(i) \/ BuildMoves(i)
  \/ \E c \in Callers : CallStep(c)
  \/ Deaths

\* advance_rollout: the items the manager may dispatch next.
NextReady ==
  {i \in Item : istatus[i] \in {"pending", "ready"} /\ \A p \in Preds(i) : istatus[p] \in Outcome}

\* Requests go on, builds end, and the manager does its rounds while the
\* rollout runs: it dispatches what advance offers, completes what was built,
\* and repeats a completion that failed.
Fairness ==
  /\ WF_vars(PlanStep) /\ WF_vars(StartWrite) /\ WF_vars(StopStep) /\ WF_vars(ResumeStep)
  /\ \A c \in Callers : WF_vars(CallStep(c))
  /\ \A i \in Item :
       /\ WF_vars(DispatchStep(i)) /\ WF_vars(BuildMoves(i))
       /\ SF_vars(i \in NextReady /\ DispatchCheck(i))
       /\ SF_vars(/\ istatus[i] = "dispatched"
                  /\ \E c \in Caller, out \in Outcome : CompleteRead(c, i, out))
       /\ SF_vars(/\ istatus[i] = owed[i]
                  /\ \E c \in Caller : CompleteRead(c, i, owed[i]))

Spec == Init /\ [][Next]_vars
FairSpec == Spec /\ Fairness

-----------------------------------------------------------------------------
(* Safety *)

\* An item is ready, dispatched or completed only when every item before it is
\* completed, halted or skipped, whatever requests overlap or stop half-way,
\* as long as no halted rollout is resumed: builds start in the order of the plan.
OrderKept ==
  \A p, i \in Item :
    <<p, i>> \in Edges /\ istatus[i] \in {"ready", "dispatched", "completed"}
    => istatus[p] \in Outcome

\* Once the requests are over, a rollout that was halted, cancelled or completed
\* has no item left that a manager would work on, however they overlapped.
StoppedIsQuiet ==
  Quiet /\ rstatus \in {"halted", "cancelled", "completed"}
  => \A i \in Item : istatus[i] \notin Live

\* A rollout is completed only if every item is completed or skipped, or the
\* items themselves are all done or cancelled by hand.
ClosedIsDone == Quiet /\ rstatus = "completed" => AllFinished(istatus) \/ GtdTerminal

\* Completions that overlap lose nothing between them: when the requests are over
\* in a running rollout, every item still pending waits for one that is not
\* terminal, and some item is not finished.
NoneWaitsInVain ==
  Quiet /\ rstatus = "running" =>
    /\ \A i \in Item : istatus[i] = "pending" => \E p \in Preds(i) : istatus[p] \notin Outcome
    /\ ~AllFinished(istatus)

\* The inductive invariant behind OrderKept.  Once plan_rollout has returned all
\* items are there, so a halt closes them together; a halted item may still be
\* completed, so what comes before it must be closed as well; and a completion
\* that was accepted, or found a successor to unblock, found it in order.
PredsClosed(i) == \A p \in Preds(i) : istatus[p] \in Outcome
Planted ==
  \/ rstatus \in {"pending", "running", "halted"}
  \/ lead["start"] = "write" \/ lead["halt"] \in {"status", "items"}
  => \A i \in Item : istatus[i] # "absent"
InOrder ==
  \A i \in Item : istatus[i] \in {"ready", "dispatched", "completed", "halted"} => PredsClosed(i)
CallInOrder(c) ==
  /\ call[c].pc = "write" => PredsClosed(call[c].item)
  /\ (/\ call[c].pc \in {"release", "heal", "done", "check", "autoclose", "reload"}
      /\ call[c].out # "none")
     => istatus[call[c].item] \in Outcome
  /\ call[c].pc = "unblock" => \A d \in call[c].todo : PredsClosed(d)
OrderInv ==
  /\ Planted /\ InOrder
  /\ \A c \in Callers : CallInOrder(c)
  /\ lead["resume"] = "idle"

(* Action properties *)

\* A completed or skipped item loses its outcome only to what was decided before it
\* had one: a completion that found it unfinished, or a resume that found it halted.
\* Both write without a guard; nothing else does, whatever overlaps or stops half-way.
LateWrite(c, i) ==
  call[c].pc = "write" /\ call[c].item = i /\ call[c].seen \notin Finished
  /\ istatus'[i] = call[c].out
LateRestore(i) == target[i] # "keep" /\ istatus'[i] = target[i]
OutcomeYieldsToStale ==
  [][\A i \in Item : istatus[i] \in Finished /\ istatus'[i] # istatus[i] =>
       (\E c \in Callers : LateWrite(c, i)) \/ LateRestore(i)]_vars

\* A repeat of a completion repairs what an earlier one left undone when it
\* stopped: the item is done, no successor waits in vain, the rollout is closed.
Repaired(i) ==
  /\ istatus[i] = "completed" => gtd[i] = "done"
  /\ Unblocked(istatus, i) = {}
  /\ AllFinished(istatus) => rstatus = "completed"
HealRepairs ==
  [][\A c \in Callers, i \in Item :
       /\ call[c] # NoCall /\ call[c].item = i /\ call[c].out # "none"
       /\ call'[c] = NoCall /\ deaths' = deaths
       => Repaired(i)']_vars

(* Liveness *)

\* A running rollout whose manager keeps at it comes to a state in which every
\* item has an outcome, and it is closed when none of them was halted, although
\* dispatches and completions stop half-way.
RolloutSettles ==
  rstatus = "running" ~> /\ \A i \in Item : istatus[i] \in Outcome
                         /\ AllFinished(istatus) => rstatus = "completed"

-----------------------------------------------------------------------------
(* The contract *)

Stage(i) == CASE istatus[i] \in {"absent", "pending"}    -> "waiting"
              [] istatus[i] \in {"ready", "dispatched"}  -> "open"
              [] istatus[i] \in Outcome                  -> "closed"

Contract == INSTANCE RolloutContract WITH stage <- [i \in Item |-> Stage(i)]

\* Without resume, items are opened in order and closed for good.
ImplementsContract == Contract!Spec

=============================================================================
