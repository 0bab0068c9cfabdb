------------------------ MODULE RunLifecycle_proofs -------------------------
(***************************************************************************)
(* Proofs about RunLifecycle, for every set of runs, items and hosts and   *)
(* every value of the switches.                                            *)
(***************************************************************************)
EXTENDS RunLifecycle, TLAPS

-----------------------------------------------------------------------------
(* Types *)

\* What the conversions return.
LEMMA FromRemoteType ==
  ASSUME NEW e \in RemoteEnd
  PROVE  /\ FromRemote(e) \in Outcome
         /\ FromRemote(e) = "success" <=> e = "succeeded"
BY DEF FromRemote, RemoteEnd, Outcome

\* and what is written once the gate has been passed.
LEMMA GatedWrites ==
  ASSUME NEW r \in Run, NEW s \in Outcome, WriteGated(r, s)
  PROVE  /\ \E w \in Outcome : WriteStatus(r, w) /\ (w = "success" => s = "success")
         /\ unread' \subseteq unread \cup {r}
<1>1. PICK readable \in BOOLEAN :
        /\ WriteStatus(r, Gated(r, s, readable))
        /\ unread' = IF readable THEN unread ELSE unread \cup {r}
  BY DEF WriteGated
<1>2. Gated(r, s, readable) \in {s, "failed"}
  BY DEF Gated
<1> QED BY <1>1, <1>2 DEF Outcome

\* A step that writes an outcome of run r and ends its task.
Ends(r, s) ==
  WriteStatus(r, s) /\ EndTask(r) /\ UNCHANGED <<handle, age>> /\ OthersFrame

LEMMA ResultEnds ==
  ASSUME NEW r \in Run, result[r] \in RemoteEnd \cup {"none"}, WriteResult(r)
  PROVE  \E w \in Outcome : Ends(r, w) /\ (w = "success" => result[r] = "succeeded")
<1>1. result[r] \in RemoteEnd
  BY DEF WriteResult
<1>2. FromRemote(result[r]) \in Outcome
  BY <1>1, FromRemoteType
<1>3. PICK w \in Outcome :
        WriteStatus(r, w) /\ (w = "success" => FromRemote(result[r]) = "success")
  BY <1>2, GatedWrites DEF WriteResult
<1>4. w = "success" => result[r] = "succeeded"
  BY <1>1, <1>3, FromRemoteType
<1> QED BY <1>3, <1>4 DEF Ends, WriteResult

LEMMA AdoptWrites ==
  ASSUME NEW r \in Run, ReconcileAdopt(r)
  PROVE  \E w \in Outcome :
           WriteStatus(r, w) /\ (w = "success" => remote[r] = "succeeded")
<1>1. remote[r] \in RemoteEnd
  BY DEF ReconcileAdopt
<1>2. FromRemote(remote[r]) \in Outcome
  BY <1>1, FromRemoteType
<1>3. PICK w \in Outcome :
        WriteStatus(r, w) /\ (w = "success" => FromRemote(remote[r]) = "success")
  BY <1>2, GatedWrites DEF ReconcileAdopt
<1>4. w = "success" => remote[r] = "succeeded"
  BY <1>1, <1>3, FromRemoteType
<1> QED BY <1>3, <1>4

LEMMA CancelledOnType ==
  ASSUME NEW r \in Run, NEW h, NEW m \in {remote, CancelledOn(r, h)},
         remote \in [Run -> RemoteEnd \cup {"none", "active"}]
  PROVE  /\ m \in [Run -> RemoteEnd \cup {"none", "active"}]
         /\ \A q \in Run : m[q] = remote[q] \/ (remote[q] = "active" /\ m[q] = "cancelled")
BY DEF CancelledOn, RemoteEnd

LEMMA ReaperDecisionType ==
  ASSUME TypeOK, NEW r \in Run
  PROVE  ReaperDecision(r) \in Outcome \cup {"none"}
BY FromRemoteType DEF ReaperDecision, TypeOK, Outcome

\* The type invariant is preserved by the requests that create a run,
LEMMA CreatorTypes ==
  ASSUME TypeOK, NEW r \in Run,
         CreateCheck(r) \/ CreateManageInsert(r) \/ CreatorStep(r)
  PROVE  TypeOK'
<1> USE DEF rowVars, creatorVars, workerVars, cancelVars, reaperVars, procVars,
            historyVars, remoteVars, CreatorPc, Status, Active, WriteStatus
<1>1. CASE CreateCheck(r)
  BY <1>1 DEF CreateCheck, TypeOK, ActiveRunsOf
<1>2. CASE CreateManageInsert(r) \/ CreateInsert(r)
  BY <1>2 DEF CreateManageInsert, CreateInsert, InsertPending, Overtakes, TypeOK
<1>3. CASE CreateRefused(r) \/ NeverEnqueued(r)
  BY <1>3 DEF CreateRefused, NeverEnqueued, TypeOK
<1>4. CASE CreateSetupFails(r)
  BY <1>4 DEF CreateSetupFails, TypeOK, Outcome
<1>5. CASE Enqueue(r)
  BY <1>5 DEF Enqueue, TypeOK, Goto, WorkerPc, Unlaunched
<1>6. ASSUME NEW q \in Run, CreateReap(r, q)
      PROVE  TypeOK'
  BY <1>6 DEF CreateReap, TypeOK, Outcome
<1> QED
  BY <1>1, <1>2, <1>3, <1>4, <1>5, <1>6 DEF CreatorStep

\* by the task of a run,
LEMMA WorkerTypes ==
  ASSUME TypeOK, NEW r \in Run, WorkerStep(r) \/ TaskDies(r)
  PROVE  TypeOK'
<1> USE DEF rowVars, creatorVars, workerVars, cancelVars, reaperVars, procVars,
            historyVars, remoteVars, TaskFrame, OthersFrame, Goto, SomeHost
<1>1. ASSUME NEW s \in Outcome, Ends(r, s), unread' \subseteq Run, raced' = raced
      PROVE  TypeOK'
  BY <1>1 DEF Ends, EndTask, WriteStatus, TypeOK, Status, WorkerPc
<1>2. CASE EndTask(r) /\ UNCHANGED rowVars /\ TaskFrame
  BY <1>2 DEF EndTask, TypeOK, WorkerPc
<1>3. CASE LookupFails(r) \/ TaskDies(r)
  BY <1>2, <1>3 DEF LookupFails, TaskDies
<1>4. CASE ProcessRun(r)
  <2>1. CASE status[r] = "pending"
    BY <1>4, <2>1 DEF ProcessRun, TypeOK, WorkerPc, Unlaunched
  <2> QED BY <1>2, <1>4, <2>1 DEF ProcessRun
<1>5. CASE CheckBeforeRouting(r)
  <2>1. CASE status[r] = "pending"
    BY <1>5, <2>1 DEF CheckBeforeRouting, TypeOK, WorkerPc, Unlaunched
  <2> QED BY <1>2, <1>5, <2>1 DEF CheckBeforeRouting
<1>6. CASE EngineUnresolved(r) \/ RouteRefused(r) \/ PostConflict(r)
           \/ PostRefused(r) \/ PostReplyLost(r)
  BY <1>1, <1>6
     DEF EngineUnresolved, RouteRefused, PostConflict, PostRefused, PostReplyLost, Outcome,
         EndWith, Ends, TypeOK
<1>7. CASE PickHost(r)
  BY <1>7 DEF PickHost, TypeOK, WorkerPc, Unlaunched
<1>8. CASE PostFull(r)
  BY <1>8 DEF PostFull, TypeOK, WorkerPc, Unlaunched
<1>9. CASE PostAccepted(r)
  BY <1>9 DEF PostAccepted, TypeOK, WorkerPc
<1>10. CASE CheckAfterPost(r)
  BY <1>10 DEF CheckAfterPost, TypeOK, WorkerPc
<1>11. CASE UndoLaunch(r)
  BY <1>11, CancelledOnType DEF UndoLaunch, TypeOK, WorkerPc
<1>12. CASE RecordUndone(r)
  BY <1>12 DEF RecordUndone, EndTask, TypeOK, WorkerPc
<1>13. CASE MarkRunning(r)
  BY <1>13 DEF MarkRunning, WriteStatus, TypeOK, WorkerPc, Status, Active
<1>14. CASE PollTerminal(r)
  BY <1>14 DEF PollTerminal, TypeOK
<1>15. CASE WriteResult(r)
  <2>1. PICK s \in Outcome : Ends(r, s)
    BY <1>15, ResultEnds DEF TypeOK
  <2>2. FromRemote(result[r]) \in Outcome
    BY <1>15, FromRemoteType DEF WriteResult, TypeOK
  <2>3. unread' \subseteq Run /\ raced' = raced
    BY <1>15, <2>2, GatedWrites DEF WriteResult, TypeOK
  <2> QED BY <1>1, <2>1, <2>3
<1> QED
  BY <1>3, <1>4, <1>5, <1>6, <1>7, <1>8, <1>9, <1>10, <1>11, <1>12, <1>13, <1>14,
     <1>15
  DEF WorkerStep

\* by a cancel,
LEMMA CancelTypes ==
  ASSUME TypeOK, NEW r \in Run, CancelRead(r) \/ CancelStep(r)
  PROVE  TypeOK'
<1> USE DEF rowVars, creatorVars, workerVars, cancelVars, reaperVars, procVars,
            historyVars, remoteVars, WriteStatus
<1>1. CASE CancelRead(r)
  BY <1>1 DEF CancelRead, TypeOK
<1>2. CASE CancelWrite(r)
  BY <1>2 DEF CancelWrite, TypeOK, Status, Outcome
<1>3. CASE CancelForward(r)
  BY <1>3, CancelledOnType DEF CancelForward, TypeOK
<1> QED
  BY <1>1, <1>2, <1>3 DEF CancelStep

\* by the reaper,
LEMMA ReaperSelectTypes ==
  ASSUME TypeOK, ReaperSelect
  PROVE  TypeOK'
BY DEF ReaperSelect, ReaperFrame, creatorVars, workerVars, cancelVars, procVars,
       remoteVars, historyVars, TypeOK

LEMMA ReaperTypes ==
  ASSUME TypeOK, NEW r \in Run, ReaperStep(r)
  PROVE  TypeOK'
<1> USE DEF rowVars, creatorVars, workerVars, cancelVars, reaperVars, procVars,
            historyVars, remoteVars, ReaperFrame, WriteStatus
<1>1. CASE ReaperLook(r)
  <2>1. PICK d \in {ReaperDecision(r), "timeout", "none"} :
          /\ rverdict' = [rverdict EXCEPT ![r] = d]
          /\ rtodo' = IF d = "none" THEN rtodo \ {r} ELSE rtodo
    BY <1>1 DEF ReaperLook
  <2> QED BY <1>1, <2>1, ReaperDecisionType DEF ReaperLook, TypeOK, Outcome
<1>2. CASE ReaperWrite(r)
  BY <1>2 DEF ReaperWrite, TypeOK, Status
<1> QED
  BY <1>1, <1>2 DEF ReaperStep

\* by stopping and starting the board,
LEMMA ProcessTypes ==
  ASSUME TypeOK, BootStep \/ \E fwd, rec \in SUBSET Polling : Stop(fwd, rec)
  PROVE  TypeOK'
<1> USE DEF rowVars, creatorVars, workerVars, cancelVars, reaperVars, procVars,
            historyVars, remoteVars, WriteStatus
<1>1. ASSUME NEW fwd \in SUBSET Polling, NEW rec \in SUBSET Polling, Stop(fwd, rec)
      PROVE  TypeOK'
  BY <1>1, RunAssumption
  DEF Stop, TypeOK, RemoteEnd, Status, Outcome, CreatorPc, WorkerPc, SomeHost
<1>2. CASE Boot \/ BootDone
  BY <1>2 DEF Boot, BootDone, TypeOK
<1>3. ASSUME NEW r \in Run, ReconcileFail(r)
      PROVE  TypeOK'
  BY <1>3 DEF ReconcileFail, TypeOK, Status, Outcome
<1>4. ASSUME NEW r \in Run, ReconcileAdopt(r)
      PROVE  TypeOK'
  <2>1. PICK w \in Outcome : WriteStatus(r, w)
    BY <1>4, AdoptWrites
  <2>2. FromRemote(remote[r]) \in Outcome
    BY <1>4, FromRemoteType DEF ReconcileAdopt
  <2>3. unread' \subseteq Run
    BY <1>4, <2>2, GatedWrites DEF ReconcileAdopt, TypeOK
  <2> QED BY <1>4, <2>1, <2>3 DEF ReconcileAdopt, TypeOK, Status
<1>5. ASSUME NEW r \in Run, ReconcileResume(r)
      PROVE  TypeOK'
  BY <1>5 DEF ReconcileResume, Goto, TypeOK, WorkerPc
<1> QED
  BY <1>1, <1>2, <1>3, <1>4, <1>5 DEF BootStep

\* and by the host and the clock.
LEMMA HostTypes ==
  ASSUME TypeOK, NEW r \in Run, RemoteFinish(r) \/ RemoteForgets(r) \/ Tick(r)
  PROVE  TypeOK'
<1> USE DEF rowVars, creatorVars, workerVars, cancelVars, reaperVars, procVars,
            historyVars, remoteVars, HostFrame
<1>1. CASE RemoteFinish(r)
  <2>1. PICK e \in {"succeeded", "failed", "timed_out"} :
          remote' = [remote EXCEPT ![r] = e]
    BY <1>1 DEF RemoteFinish
  <2>2. PICK wrote \in BOOLEAN : criteria' = [criteria EXCEPT ![r] = wrote]
    BY <1>1 DEF RemoteFinish
  <2>3. remote' \in [Run -> RemoteEnd \cup {"none", "active"}]
    BY <2>1 DEF TypeOK, RemoteEnd
  <2>4. criteria' \in [Run -> BOOLEAN]
    BY <2>2 DEF TypeOK
  <2> QED BY <1>1, <2>3, <2>4 DEF RemoteFinish, TypeOK
<1>2. CASE RemoteForgets(r)
  BY <1>2 DEF RemoteForgets, TypeOK, RemoteEnd
<1>3. CASE Tick(r)
  BY <1>3 DEF Tick, TypeOK
<1> QED
  BY <1>1, <1>2, <1>3

\* The type invariant holds in every behaviour.
THEOREM TypeCorrect == Spec => []TypeOK
<1>1. Init => TypeOK
  BY RunAssumption DEF Init, TypeOK, Status, SomeHost, CreatorPc, WorkerPc
<1>2. TypeOK /\ [Next]_vars => TypeOK'
  <2> SUFFICES ASSUME TypeOK, [Next]_vars
               PROVE  TypeOK'
    OBVIOUS
  <2>1. CASE UNCHANGED vars
    BY <2>1 DEF vars, rowVars, creatorVars, workerVars, cancelVars, reaperVars,
                procVars, remoteVars, historyVars, TypeOK
  <2>2. ASSUME NEW r \in Run, RunNext(r)
        PROVE  TypeOK'
    BY <2>2, CreatorTypes, WorkerTypes, CancelTypes, ReaperTypes, HostTypes DEF RunNext
  <2>3. CASE BootStep \/ \E fwd, rec \in SUBSET Polling : Stop(fwd, rec)
    BY <2>3, ProcessTypes
  <2> QED BY <2>1, <2>2, <2>3, ReaperSelectTypes DEF Next
<1> QED BY <1>1, <1>2, PTL DEF Spec

-----------------------------------------------------------------------------
(* The inductive invariant *)

\* A step that leaves alone everything RunInv reads, or only a task's locals,
\* cannot disturb it: most leaves below are about the run that moved.

LEMMA CreatorInv ==
  ASSUME IInv, NEW r \in Run,
         CreateCheck(r) \/ CreateManageInsert(r) \/ CreatorStep(r)
  PROVE  \A t \in Run : RunInv(t)'
<1> SUFFICES ASSUME NEW t \in Run
             PROVE  RunInv(t)'
  OBVIOUS
<1>0. TypeOK /\ RunInv(t) /\ RunInv(r)
  BY DEF IInv
<1> USE DEF rowVars, creatorVars, workerVars, cancelVars, reaperVars, procVars,
            remoteVars, WriteStatus, RunInv, TypeOK
<1>1. CASE CreateCheck(r)
  BY <1>0, <1>1 DEF CreateCheck
<1>2. CASE CreateManageInsert(r) \/ CreateInsert(r)
  BY <1>0, <1>2 DEF CreateManageInsert, CreateInsert, InsertPending
<1>3. CASE CreateRefused(r) \/ NeverEnqueued(r)
  BY <1>0, <1>3 DEF CreateRefused, NeverEnqueued
<1>4. CASE CreateSetupFails(r)
  BY <1>0, <1>4 DEF CreateSetupFails
<1>5. CASE Enqueue(r)
  BY <1>0, <1>5 DEF Enqueue, Goto, Unlaunched
<1>6. ASSUME NEW q \in Run, CreateReap(r, q)
      PROVE  RunInv(t)'
  BY <1>0, <1>6 DEF CreateReap
<1> QED
  BY <1>1, <1>2, <1>3, <1>4, <1>5, <1>6 DEF CreatorStep

LEMMA WorkerInv ==
  ASSUME IInv, NEW r \in Run, WorkerStep(r) \/ TaskDies(r)
  PROVE  \A t \in Run : RunInv(t)'
<1> SUFFICES ASSUME NEW t \in Run
             PROVE  RunInv(t)'
  OBVIOUS
<1>0. TypeOK /\ RunInv(t) /\ RunInv(r)
  BY DEF IInv
<1> USE DEF rowVars, creatorVars, workerVars, cancelVars, reaperVars, procVars,
            remoteVars, RunInv, TypeOK, TaskFrame, OthersFrame, Goto
<1>1. ASSUME NEW s \in Outcome, Ends(r, s), pc[r] # "none",
             s = "success" => remote[r] = "succeeded"
      PROVE  RunInv(t)'
  BY <1>0, <1>1 DEF Ends, EndTask, WriteStatus, Outcome, Unlaunched
<1>2. CASE EndTask(r) /\ UNCHANGED rowVars /\ TaskFrame
  BY <1>0, <1>2 DEF EndTask, Unlaunched
<1>3. CASE LookupFails(r) \/ TaskDies(r)
  BY <1>2, <1>3 DEF LookupFails, TaskDies
<1>4. CASE ProcessRun(r)
  <2>1. CASE status[r] = "pending"
    BY <1>0, <1>4, <2>1 DEF ProcessRun, Unlaunched
  <2> QED BY <1>2, <1>4, <2>1 DEF ProcessRun
<1>5. CASE CheckBeforeRouting(r)
  <2>1. CASE status[r] = "pending"
    BY <1>0, <1>5, <2>1 DEF CheckBeforeRouting, Unlaunched
  <2> QED BY <1>2, <1>5, <2>1 DEF CheckBeforeRouting
<1>6. CASE EngineUnresolved(r) \/ RouteRefused(r) \/ PostConflict(r)
           \/ PostRefused(r) \/ PostReplyLost(r)
  BY <1>1, <1>6
     DEF EngineUnresolved, RouteRefused, PostConflict, PostRefused, PostReplyLost, Outcome,
         EndWith, Ends
<1>7. CASE PickHost(r)
  BY <1>0, <1>7, RunAssumption DEF PickHost, Unlaunched
<1>8. CASE PostFull(r)
  BY <1>0, <1>8 DEF PostFull, Unlaunched
<1>9. CASE PostAccepted(r)
  BY <1>0, <1>9 DEF PostAccepted, Unlaunched, RemoteEnd
<1>10. CASE CheckAfterPost(r)
  BY <1>0, <1>10 DEF CheckAfterPost, Unlaunched
<1>11. CASE UndoLaunch(r)
  BY <1>0, <1>11, CancelledOnType DEF UndoLaunch, Unlaunched, RemoteEnd
<1>12. CASE RecordUndone(r)
  BY <1>0, <1>12 DEF RecordUndone, EndTask, Unlaunched
<1>13. CASE MarkRunning(r)
  BY <1>0, <1>13 DEF MarkRunning, WriteStatus, Unlaunched
<1>14. CASE PollTerminal(r)
  BY <1>0, <1>14 DEF PollTerminal
<1>15. CASE WriteResult(r)
  <2>1. PICK w \in Outcome : Ends(r, w) /\ (w = "success" => result[r] = "succeeded")
    BY <1>0, <1>15, ResultEnds
  <2>2. w = "success" => remote[r] = "succeeded"
    BY <1>0, <2>1
  <2>3. pc[r] # "none"
    BY <1>15 DEF WriteResult
  <2> QED BY <1>1, <2>1, <2>2, <2>3
<1> QED
  BY <1>3, <1>4, <1>5, <1>6, <1>7, <1>8, <1>9, <1>10, <1>11, <1>12, <1>13, <1>14,
     <1>15
  DEF WorkerStep

LEMMA CancelInv ==
  ASSUME IInv, NEW r \in Run, CancelRead(r) \/ CancelStep(r)
  PROVE  \A t \in Run : RunInv(t)'
<1> SUFFICES ASSUME NEW t \in Run
             PROVE  RunInv(t)'
  OBVIOUS
<1>0. TypeOK /\ RunInv(t) /\ RunInv(r)
  BY DEF IInv
<1> USE DEF rowVars, creatorVars, workerVars, cancelVars, reaperVars, procVars,
            remoteVars, WriteStatus, RunInv, TypeOK
<1>1. CASE CancelRead(r)
  BY <1>0, <1>1 DEF CancelRead, Active
<1>2. CASE CancelWrite(r)
  BY <1>0, <1>2 DEF CancelWrite
<1>3. CASE CancelForward(r)
  BY <1>0, <1>3, CancelledOnType DEF CancelForward, RemoteEnd
<1> QED
  BY <1>1, <1>2, <1>3 DEF CancelStep

LEMMA ReaperInv ==
  ASSUME IInv, NEW r \in Run, ReaperStep(r)
  PROVE  \A t \in Run : RunInv(t)'
<1> SUFFICES ASSUME NEW t \in Run
             PROVE  RunInv(t)'
  OBVIOUS
<1>0. TypeOK /\ RunInv(t) /\ RunInv(r)
  BY DEF IInv
<1> USE DEF rowVars, creatorVars, workerVars, cancelVars, reaperVars, procVars,
            remoteVars, ReaperFrame, WriteStatus, RunInv, TypeOK
<1>1. CASE ReaperLook(r)
  <2>1. PICK d \in {ReaperDecision(r), "timeout", "none"} :
          rverdict' = [rverdict EXCEPT ![r] = d]
    BY <1>1 DEF ReaperLook
  <2>2. d = "success" => remote[r] = "succeeded"
    BY <2>1, FromRemoteType DEF ReaperDecision
  <2> QED BY <1>0, <1>1, <2>1, <2>2 DEF ReaperLook
<1>2. CASE ReaperWrite(r)
  BY <1>0, <1>2 DEF ReaperWrite, Outcome
<1> QED
  BY <1>1, <1>2 DEF ReaperStep

LEMMA ProcessInv ==
  ASSUME IInv, BootStep \/ \E fwd, rec \in SUBSET Polling : Stop(fwd, rec)
  PROVE  \A t \in Run : RunInv(t)'
<1> SUFFICES ASSUME NEW t \in Run
             PROVE  RunInv(t)'
  OBVIOUS
<1>0. TypeOK /\ RunInv(t)
  BY DEF IInv
<1> USE DEF rowVars, creatorVars, workerVars, cancelVars, reaperVars, procVars,
            remoteVars, WriteStatus, RunInv, TypeOK
<1>1. ASSUME NEW fwd \in SUBSET Polling, NEW rec \in SUBSET Polling, Stop(fwd, rec)
      PROVE  RunInv(t)'
  BY <1>0, <1>1 DEF Stop, Polling, Unlaunched, CreatorPc
<1>2. CASE Boot \/ BootDone
  BY <1>0, <1>2 DEF Boot, BootDone, Active
<1>3. ASSUME NEW r \in Run, ReconcileFail(r)
      PROVE  RunInv(t)'
  BY <1>0, <1>3 DEF ReconcileFail, IInv
<1>4. ASSUME NEW r \in Run, ReconcileAdopt(r)
      PROVE  RunInv(t)'
  <2>1. PICK w \in Outcome : WriteStatus(r, w) /\ (w = "success" => remote[r] = "succeeded")
    BY <1>4, AdoptWrites
  <2>2. RunInv(r)
    BY DEF IInv
  <2>3. /\ phase = "boot" /\ r \in btodo /\ btodo' = btodo \ {r}
        /\ HostKnows(r, handle[r])
        /\ UNCHANGED <<handle, phase, creatorVars, workerVars, cancelVars, rverdict, remoteVars>>
    BY <1>4 DEF ReconcileAdopt
  <2> QED BY <1>0, <2>1, <2>2, <2>3 DEF Outcome, HostKnows
<1>5. ASSUME NEW r \in Run, ReconcileResume(r)
      PROVE  RunInv(t)'
  <2>1. RunInv(r)
    BY DEF IInv
  <2> QED BY <1>0, <1>5, <2>1 DEF ReconcileResume, Goto, HostKnows, Unlaunched
<1> QED
  BY <1>1, <1>2, <1>3, <1>4, <1>5 DEF BootStep

LEMMA HostInv ==
  ASSUME IInv, NEW r \in Run, RemoteFinish(r) \/ RemoteForgets(r) \/ Tick(r)
  PROVE  \A t \in Run : RunInv(t)'
<1> SUFFICES ASSUME NEW t \in Run
             PROVE  RunInv(t)'
  OBVIOUS
<1>0. TypeOK /\ RunInv(t) /\ RunInv(r)
  BY DEF IInv
<1> USE DEF rowVars, creatorVars, workerVars, cancelVars, reaperVars, procVars,
            remoteVars, HostFrame, RunInv, TypeOK, RemoteEnd
<1>1. CASE RemoteFinish(r)
  <2>1. PICK e \in {"succeeded", "failed", "timed_out"} :
          remote' = [remote EXCEPT ![r] = e]
    BY <1>1 DEF RemoteFinish
  <2> QED BY <1>0, <1>1, <2>1 DEF RemoteFinish
<1>2. CASE RemoteForgets(r)
  BY <1>0, <1>2 DEF RemoteForgets
<1>3. CASE Tick(r)
  BY <1>0, <1>3 DEF Tick
<1> QED
  BY <1>1, <1>2, <1>3

\* The inductive invariant holds in every behaviour.
THEOREM Inductive == Spec => []IInv
<1>1. Init => IInv
  <2>1. Init => TypeOK
    BY RunAssumption DEF Init, TypeOK, Status, SomeHost, CreatorPc, WorkerPc
  <2>2. Init => \A r \in Run : RunInv(r)
    BY DEF Init, RunInv, Unlaunched
  <2> QED BY <2>1, <2>2 DEF IInv
<1>2. IInv /\ TypeOK' /\ [Next]_vars => IInv'
  <2> SUFFICES ASSUME IInv, TypeOK', [Next]_vars
               PROVE  \A t \in Run : RunInv(t)'
    BY DEF IInv
  <2>1. CASE UNCHANGED vars
    BY <2>1 DEF vars, rowVars, creatorVars, workerVars, cancelVars, reaperVars,
                procVars, remoteVars, RunInv, IInv
  <2>2. ASSUME NEW r \in Run, RunNext(r)
        PROVE  \A t \in Run : RunInv(t)'
    BY <2>2, CreatorInv, WorkerInv, CancelInv, ReaperInv, HostInv DEF RunNext
  <2>3. CASE ReaperSelect
    BY <2>3 DEF ReaperSelect, ReaperFrame, creatorVars, workerVars, cancelVars,
                procVars, remoteVars, RunInv, IInv
  <2>4. CASE BootStep \/ \E fwd, rec \in SUBSET Polling : Stop(fwd, rec)
    BY <2>4, ProcessInv
  <2> QED BY <2>1, <2>2, <2>3, <2>4 DEF Next
<1> QED BY <1>1, <1>2, TypeCorrect, PTL DEF Spec

-----------------------------------------------------------------------------
(* What follows from it *)

\* A running row names the host its agent runs on, a pending row names none.
THEOREM HandleCorrect == Spec => []HandleFollowsStatus
<1>1. IInv => HandleFollowsStatus
  BY DEF IInv, RunInv, HandleFollowsStatus
<1> QED BY <1>1, Inductive, PTL

\* No run is ever accepted by two hosts.
THEOREM LaunchedOnce == Spec => []SingleLaunch
<1>1. IInv => SingleLaunch
  BY DEF IInv, RunInv, SingleLaunch
<1> QED BY <1>1, Inductive, PTL

\* A run reported as a success had an agent that succeeded.
THEOREM SuccessCorrect == Spec => []SuccessIsEarned
<1>1. IInv => SuccessIsEarned
  BY DEF IInv, RunInv, SuccessIsEarned
<1> QED BY <1>1, Inductive, PTL

\* The reaper overwrites no row that left 'running' after it decided.
THEOREM ReaperGuard == Spec => ReaperYields
<1> DEFINE Yields(r) == rverdict[r] # "none" /\ rverdict'[r] = "none" /\ phase' # "down"
                        => status'[r] = status[r] \/ status[r] = "running"
<1>1. TypeOK /\ [Next]_vars => \A r \in Run : Yields(r)
  <2> SUFFICES ASSUME TypeOK, [Next]_vars, NEW r \in Run
               PROVE  Yields(r)
    OBVIOUS
  <2> USE DEF reaperVars
  <2>1. CASE UNCHANGED rverdict
    BY <2>1
  <2>2. ASSUME NEW q \in Run, RunNext(q)
        PROVE  Yields(r)
    <3>1. CASE ReaperLook(q)
      BY <3>1 DEF ReaperLook
    <3>2. CASE ReaperWrite(q)
      BY <3>2 DEF ReaperWrite, WriteStatus, TypeOK
    <3>3. CASE CreateCheck(q) \/ CreateManageInsert(q) \/ CreatorStep(q)
      BY <2>1, <3>3 DEF CreateCheck, CreateManageInsert, CreatorStep, CreateRefused,
         CreateInsert, InsertPending, CreateSetupFails, Enqueue, NeverEnqueued, CreateReap
    <3>4. CASE WorkerStep(q) \/ TaskDies(q)
      BY <2>1, <3>4 DEF WorkerStep, TaskDies, TaskFrame, OthersFrame, EndWith,
         ProcessRun, LookupFails,
         EngineUnresolved, CheckBeforeRouting, RouteRefused, PickHost, PostFull,
         PostConflict, PostRefused, PostAccepted, PostReplyLost, CheckAfterPost,
         UndoLaunch, RecordUndone, MarkRunning, PollTerminal, WriteResult
    <3>5. CASE CancelRead(q) \/ CancelStep(q)
      BY <2>1, <3>5 DEF CancelRead, CancelStep, CancelWrite, CancelForward
    <3>6. CASE RemoteFinish(q) \/ RemoteForgets(q) \/ Tick(q)
      BY <2>1, <3>6 DEF RemoteFinish, RemoteForgets, Tick, HostFrame
    <3> QED BY <2>2, <3>1, <3>2, <3>3, <3>4, <3>5, <3>6 DEF RunNext, ReaperStep
  <2>3. CASE ReaperSelect \/ BootStep
    BY <2>1, <2>3 DEF ReaperSelect, BootStep, Boot, BootDone, ReconcileFail,
       ReconcileAdopt, ReconcileResume
  <2>4. CASE \E fwd, rec \in SUBSET Polling : Stop(fwd, rec)
    BY <2>4 DEF Stop
  <2>5. CASE UNCHANGED vars
    BY <2>1, <2>5 DEF vars
  <2> QED BY <2>2, <2>3, <2>4, <2>5 DEF Next
<1> QED BY <1>1, TypeCorrect, PTL DEF Spec, ReaperYields

-----------------------------------------------------------------------------
(* What no step may do: gates and launches *)

\* Without criteria the gate lets a plan run through only with its item unread.
LEMMA GateCloses ==
  ASSUME NEW r \in Run, NEW s, status \in [Run -> Status], WriteGated(r, s),
         ModeOf[r] = "plan", ~criteria[r], status'[r] = "success"
  PROVE  r \in unread'
BY DEF WriteGated, WriteStatus, Gated

\* Only three writers report a success.
LEMMA SuccessWriters ==
  ASSUME IInv, [Next]_vars, NEW t \in Run,
         status[t] # "success", status'[t] = "success"
  PROVE  WriteResult(t) \/ ReconcileAdopt(t) \/ ReaperWrite(t)
<1>0. TypeOK
  BY DEF IInv
<1> USE DEF rowVars, TypeOK
<1>1. CASE UNCHANGED vars
  BY <1>1 DEF vars
<1>2. ASSUME NEW r \in Run, RunNext(r)
      PROVE  WriteResult(t) \/ ReconcileAdopt(t) \/ ReaperWrite(t)
  <2> USE DEF WriteStatus
  <2>1. CASE CreateCheck(r) \/ CreateManageInsert(r) \/ CreatorStep(r)
    BY <1>0, <2>1 DEF CreateCheck, CreateManageInsert, CreatorStep, CreateRefused,
       CreateInsert, InsertPending, CreateSetupFails, Enqueue, NeverEnqueued, CreateReap
  <2>2. CASE (WorkerStep(r) \/ TaskDies(r)) /\ ~WriteResult(r)
    BY <1>0, <2>2 DEF WorkerStep, TaskDies, EndWith, ProcessRun, LookupFails,
       EngineUnresolved, CheckBeforeRouting, RouteRefused, PickHost, PostFull,
       PostConflict, PostRefused, PostAccepted, PostReplyLost, CheckAfterPost,
       UndoLaunch, RecordUndone, MarkRunning, PollTerminal
  <2>3. CASE WriteResult(r)
    BY <1>0, <2>3 DEF WriteResult, WriteGated
  <2>4. CASE CancelRead(r) \/ CancelStep(r)
    BY <1>0, <2>4 DEF CancelRead, CancelStep, CancelWrite, CancelForward
  <2>5. CASE ReaperStep(r)
    BY <1>0, <2>5 DEF ReaperStep, ReaperLook, ReaperWrite
  <2>6. CASE RemoteFinish(r) \/ RemoteForgets(r) \/ Tick(r)
    BY <2>6 DEF RemoteFinish, RemoteForgets, Tick, HostFrame
  <2> QED BY <1>2, <2>1, <2>2, <2>3, <2>4, <2>5, <2>6 DEF RunNext
<1>3. CASE ReaperSelect \/ Boot \/ BootDone
  BY <1>3 DEF ReaperSelect, Boot, BootDone
<1>4. ASSUME NEW r \in Run, ReconcileFail(r) \/ ReconcileAdopt(r) \/ ReconcileResume(r)
      PROVE  WriteResult(t) \/ ReconcileAdopt(t) \/ ReaperWrite(t)
  BY <1>0, <1>4 DEF ReconcileFail, ReconcileAdopt, ReconcileResume, WriteStatus, WriteGated
<1>5. CASE \E fwd, rec \in SUBSET Polling : Stop(fwd, rec)
  BY <1>5 DEF Stop
<1> QED BY <1>1, <1>2, <1>3, <1>4, <1>5 DEF Next, BootStep

\* A plan run without criteria is reported as a success only by the reaper, or
\* by a poller or a reconciliation that could not read the item.
THEOREM GateKept == Spec => UngatedIsExcused
<1> DEFINE Skips(r) == /\ ModeOf[r] = "plan" /\ ~criteria[r]
                       /\ status[r] # "success" /\ status'[r] = "success"
           Excused(r) == r \in unread' \/ (rverdict[r] = "success" /\ rverdict'[r] = "none")
<1>1. IInv /\ [Next]_vars => \A r \in Run : Skips(r) => Excused(r)
  <2> SUFFICES ASSUME IInv, [Next]_vars, NEW r \in Run, Skips(r)
               PROVE  Excused(r)
    OBVIOUS
  <2>0. TypeOK
    BY DEF IInv
  <2>1. CASE WriteResult(r)
    BY <2>0, <2>1, GateCloses DEF WriteResult, TypeOK
  <2>2. CASE ReconcileAdopt(r)
    BY <2>0, <2>2, GateCloses DEF ReconcileAdopt, TypeOK
  <2>3. CASE ReaperWrite(r)
    BY <2>0, <2>3 DEF ReaperWrite, WriteStatus, TypeOK
  <2> QED BY <2>1, <2>2, <2>3, SuccessWriters
<1> QED BY <1>1, Inductive, PTL DEF Spec, UngatedIsExcused

\* Once a run has ended unlaunched with its task gone or not yet routing, no
\* step brings its row back or its task to the POST.
LEMMA DoomedStays ==
  ASSUME IInv, [Next]_vars, NEW t \in Run, Doomed(t)
  PROVE  Doomed(t)'
<1>0. /\ TypeOK /\ RunInv(t)
      /\ pc[t] \in {"none", "queued", "start"} /\ launches[t] = 0
      /\ status[t] \in Outcome /\ handle[t] = NoHost
      /\ creator[t] \notin {"idle", "reap"}
  BY DEF IInv, Doomed, RunInv, Outcome
<1> USE DEF rowVars, workerVars, remoteVars, TypeOK
<1>1. CASE UNCHANGED vars
  BY <1>0, <1>1 DEF vars, Doomed
<1>2. ASSUME NEW r \in Run, RunNext(r)
      PROVE  Doomed(t)'
  <2> USE DEF WriteStatus, Goto, Doomed
  <2>1. CASE CreateCheck(r) \/ CreateManageInsert(r) \/ CreatorStep(r)
    BY <1>0, <2>1 DEF CreateCheck, CreateManageInsert, CreatorStep, CreateRefused,
       CreateInsert, InsertPending, CreateSetupFails, Enqueue, NeverEnqueued, CreateReap,
       Outcome
  <2>2. CASE (WorkerStep(r) \/ TaskDies(r)) /\ r # t
    <3>1. UNCHANGED <<status[t], pc[t], launches[t]>>
      <4>1. CASE ProcessRun(r) \/ LookupFails(r) \/ EngineUnresolved(r) \/ CheckBeforeRouting(r)
        BY <1>0, <2>2, <4>1 DEF ProcessRun, LookupFails, EngineUnresolved,
           CheckBeforeRouting, EndWith, EndTask, TaskFrame, OthersFrame
      <4>2. CASE RouteRefused(r) \/ PickHost(r) \/ PostFull(r) \/ PostConflict(r)
                 \/ PostRefused(r) \/ PostAccepted(r) \/ PostReplyLost(r)
        BY <1>0, <2>2, <4>2 DEF RouteRefused, PickHost, PostFull, PostConflict,
           PostRefused, PostAccepted, PostReplyLost, EndWith, EndTask, TaskFrame, OthersFrame
      <4>3. CASE CheckAfterPost(r) \/ UndoLaunch(r) \/ RecordUndone(r) \/ MarkRunning(r)
                 \/ PollTerminal(r) \/ WriteResult(r) \/ TaskDies(r)
        BY <1>0, <2>2, <4>3 DEF CheckAfterPost, UndoLaunch, RecordUndone, MarkRunning,
           PollTerminal, WriteResult, WriteGated, WriteStatus, TaskDies, EndWith, EndTask,
           TaskFrame, OthersFrame
      <4> QED BY <2>2, <4>1, <4>2, <4>3 DEF WorkerStep
    <3> QED BY <1>0, <3>1
  <2>3. CASE (WorkerStep(r) \/ TaskDies(r)) /\ r = t
    <3>1. \/ ProcessRun(t) \/ LookupFails(t) \/ EngineUnresolved(t)
          \/ CheckBeforeRouting(t) \/ TaskDies(t)
      BY <1>0, <2>3 DEF WorkerStep, RouteRefused, PickHost, PostFull, PostConflict,
         PostRefused, PostAccepted, PostReplyLost, CheckAfterPost, UndoLaunch,
         RecordUndone, MarkRunning, PollTerminal, WriteResult
    <3> QED BY <1>0, <3>1 DEF ProcessRun, LookupFails, EngineUnresolved,
               CheckBeforeRouting, TaskDies, EndWith, EndTask, TaskFrame, OthersFrame, Outcome
  <2>4. CASE CancelRead(r) \/ CancelStep(r)
    BY <1>0, <2>4 DEF CancelRead, CancelStep, CancelWrite, CancelForward, Outcome
  <2>5. CASE ReaperStep(r)
    BY <1>0, <2>5 DEF ReaperStep, ReaperLook, ReaperWrite, ReaperFrame, Outcome
  <2>6. CASE RemoteFinish(r) \/ RemoteForgets(r) \/ Tick(r)
    BY <1>0, <2>6 DEF RemoteFinish, RemoteForgets, Tick, HostFrame
  <2> QED BY <1>2, <2>1, <2>2, <2>3, <2>4, <2>5, <2>6 DEF RunNext
<1>3. CASE ReaperSelect \/ Boot \/ BootDone
  BY <1>0, <1>3 DEF ReaperSelect, ReaperFrame, Boot, BootDone, Doomed
<1>4. ASSUME NEW r \in Run, ReconcileFail(r) \/ ReconcileAdopt(r) \/ ReconcileResume(r)
      PROVE  Doomed(t)'
  <2>1. CASE r # t
    BY <1>0, <1>4, <2>1 DEF ReconcileFail, ReconcileAdopt, ReconcileResume,
       WriteStatus, WriteGated, Goto, Doomed
  <2>2. CASE r = t
    BY <1>0, <1>4, <2>2 DEF ReconcileFail, ReconcileAdopt, ReconcileResume, HostKnows,
       WriteStatus, Doomed, Outcome
  <2> QED BY <2>1, <2>2
<1>5. ASSUME NEW fwd \in SUBSET Polling, NEW rec \in SUBSET Polling, Stop(fwd, rec)
      PROVE  Doomed(t)'
  BY <1>0, <1>5 DEF Stop, Polling, Doomed
<1> QED BY <1>1, <1>2, <1>3, <1>4, <1>5 DEF Next, BootStep

\* A run that ended before its task came to route it is never launched.
THEOREM EndedStaysEnded == Spec => NeverLaunchedOnceEnded
<1> SUFFICES ASSUME NEW r \in Run
             PROVE  Spec => [](Doomed(r) => [](launches[r] = 0))
  BY DEF NeverLaunchedOnceEnded
<1>1. IInv /\ Doomed(r) /\ [Next]_vars => Doomed(r)'
  BY DoomedStays
<1>2. Doomed(r) => launches[r] = 0
  BY DEF Doomed
<1> QED BY <1>1, <1>2, Inductive, PTL DEF Spec

-----------------------------------------------------------------------------
(* Every running run has a poller *)

\* While the board starts, a running row is either still to be reconciled or
\* already polled again; BootDone waits for the last of them.
PolledOrListed(r) ==
  phase # "down" /\ status[r] = "running" => pc[r] = "poll" \/ r \in btodo
OwnedInv == IInv /\ \A r \in Run : PolledOrListed(r)

\* Only MarkRunning makes a row running, and a poller leaves only by writing an
\* end, unless its own database call raises.
LEMMA OwnedStep ==
  ASSUME DbFaults = {}, OwnedInv, [Next]_vars, NEW t \in Run
  PROVE  PolledOrListed(t)'
<1>0. TypeOK /\ RunInv(t) /\ PolledOrListed(t)
  BY DEF OwnedInv, IInv
<1> USE DEF rowVars, workerVars, procVars, TypeOK
<1>1. CASE UNCHANGED vars
  BY <1>0, <1>1 DEF vars, PolledOrListed
<1>2. ASSUME NEW r \in Run, RunNext(r)
      PROVE  PolledOrListed(t)'
  <2> USE DEF WriteStatus, Goto, PolledOrListed
  <2>1. CASE CreateCheck(r) \/ CreateManageInsert(r) \/ CreatorStep(r)
    <3>1. UNCHANGED <<phase, btodo>> /\ (status'[t] = "running" => status[t] = "running")
      BY <1>0, <2>1 DEF CreateCheck, CreateManageInsert, CreatorStep, CreateRefused,
         CreateInsert, InsertPending, CreateSetupFails, Enqueue, NeverEnqueued, CreateReap
    <3>2. pc[t] = "poll" => pc'[t] = "poll"
      <4>1. CASE Enqueue(r)
        <5>1. pc[r] = "none"
          BY <4>1 DEF Enqueue, OwnedInv, IInv, RunInv
        <5> QED BY <1>0, <4>1, <5>1 DEF Enqueue
      <4> QED BY <2>1, <4>1 DEF CreateCheck, CreateManageInsert, CreatorStep,
         CreateRefused, CreateInsert, InsertPending, CreateSetupFails, NeverEnqueued, CreateReap
    <3> QED BY <1>0, <3>1, <3>2
  <2>2. CASE WorkerStep(r) /\ r # t
    <3>1. UNCHANGED <<status[t], pc[t], phase, btodo>>
      <4>1. CASE ProcessRun(r) \/ LookupFails(r) \/ EngineUnresolved(r) \/ CheckBeforeRouting(r)
        BY <1>0, <2>2, <4>1 DEF ProcessRun, LookupFails, EngineUnresolved,
           CheckBeforeRouting, EndWith, EndTask, TaskFrame, OthersFrame
      <4>2. CASE RouteRefused(r) \/ PickHost(r) \/ PostFull(r) \/ PostConflict(r)
                 \/ PostRefused(r) \/ PostAccepted(r) \/ PostReplyLost(r)
        BY <1>0, <2>2, <4>2 DEF RouteRefused, PickHost, PostFull, PostConflict,
           PostRefused, PostAccepted, PostReplyLost, EndWith, EndTask, TaskFrame, OthersFrame
      <4>3. CASE CheckAfterPost(r) \/ UndoLaunch(r) \/ RecordUndone(r) \/ MarkRunning(r)
                 \/ PollTerminal(r) \/ WriteResult(r)
        BY <1>0, <2>2, <4>3 DEF CheckAfterPost, UndoLaunch, RecordUndone, MarkRunning,
           PollTerminal, WriteResult, WriteGated, WriteStatus, EndWith, EndTask, TaskFrame,
           OthersFrame
      <4> QED BY <2>2, <4>1, <4>2, <4>3 DEF WorkerStep
    <3> QED BY <1>0, <3>1
  <2>3. CASE WorkerStep(r) /\ r = t
    <3>1. CASE pc[t] # "poll" /\ ~MarkRunning(t)
      <4>1. status[t] # "running"
        BY <1>0, <2>3, <3>1 DEF WorkerStep, ProcessRun, LookupFails, EngineUnresolved,
           CheckBeforeRouting, RouteRefused, PickHost, PostFull, PostConflict,
           PostRefused, PostAccepted, PostReplyLost, CheckAfterPost, UndoLaunch,
           RecordUndone, PollTerminal, WriteResult, RunInv, Unlaunched
      <4>2. status'[t] # "running"
        BY <1>0, <2>3, <3>1, <4>1 DEF WorkerStep, ProcessRun, LookupFails,
           EngineUnresolved, CheckBeforeRouting, RouteRefused, PickHost, PostFull,
           PostConflict, PostRefused, PostAccepted, PostReplyLost, CheckAfterPost,
           UndoLaunch, RecordUndone, PollTerminal, WriteResult, EndWith
      <4> QED BY <4>2
    <3>2. CASE MarkRunning(t)
      BY <1>0, <3>2 DEF MarkRunning
    <3>3. CASE PollTerminal(t)
      BY <1>0, <3>3 DEF PollTerminal
    <3>4. CASE WriteResult(t)
      <4>1. PICK w \in Outcome : Ends(t, w)
        BY <1>0, <3>4, ResultEnds
      <4> QED BY <1>0, <4>1 DEF Ends, OthersFrame, Outcome
    <3>5. CASE pc[t] = "poll"
      BY <2>3, <3>3, <3>4, <3>5 DEF WorkerStep, ProcessRun, LookupFails, EngineUnresolved,
         CheckBeforeRouting, RouteRefused, PickHost, PostFull, PostConflict, PostRefused,
         PostAccepted, PostReplyLost, CheckAfterPost, UndoLaunch, RecordUndone, MarkRunning
    <3> QED BY <3>1, <3>2, <3>5
  <2>4. CASE CancelRead(r) \/ CancelStep(r)
    BY <1>0, <2>4 DEF CancelRead, CancelStep, CancelWrite, CancelForward
  <2>5. CASE ReaperStep(r)
    <3>1. rverdict[r] # "running"
      BY <1>0 DEF Outcome
    <3> QED BY <1>0, <2>5, <3>1 DEF ReaperStep, ReaperLook, ReaperWrite, ReaperFrame
  <2>6. CASE RemoteFinish(r) \/ RemoteForgets(r) \/ Tick(r)
    BY <1>0, <2>6 DEF RemoteFinish, RemoteForgets, Tick, HostFrame
  <2>7. ~TaskDies(r)
    BY DEF TaskDies
  <2> QED BY <1>2, <2>1, <2>2, <2>3, <2>4, <2>5, <2>6, <2>7 DEF RunNext
<1>3. CASE ReaperSelect \/ BootDone
  BY <1>0, <1>3 DEF ReaperSelect, ReaperFrame, BootDone, PolledOrListed
<1>4. CASE Boot
  BY <1>4 DEF Boot, Active, PolledOrListed
<1>5. ASSUME NEW r \in Run, ReconcileFail(r) \/ ReconcileAdopt(r) \/ ReconcileResume(r)
      PROVE  PolledOrListed(t)'
  <2>1. CASE r # t
    BY <1>0, <1>5, <2>1 DEF ReconcileFail, ReconcileAdopt, ReconcileResume,
       WriteStatus, WriteGated, Goto, PolledOrListed
  <2>2. CASE ReconcileAdopt(t)
    <3>1. PICK w \in Outcome : WriteStatus(t, w)
      BY <2>2, AdoptWrites
    <3> QED BY <1>0, <3>1 DEF WriteStatus, PolledOrListed, Outcome
  <2>3. CASE ReconcileFail(t) \/ ReconcileResume(t)
    BY <1>0, <2>3 DEF ReconcileFail, ReconcileResume, WriteStatus, Goto, PolledOrListed
  <2> QED BY <1>5, <2>1, <2>2, <2>3
<1>6. ASSUME NEW fwd \in SUBSET Polling, NEW rec \in SUBSET Polling, Stop(fwd, rec)
      PROVE  PolledOrListed(t)'
  BY <1>6 DEF Stop, PolledOrListed
<1> QED BY <1>1, <1>2, <1>3, <1>4, <1>5, <1>6 DEF Next, BootStep

\* While the board is up every running run is polled, through any number of
\* restarts, as long as no task dies on a database call of its own.
THEOREM RunsAreOwned ==
  ASSUME DbFaults = {}
  PROVE  Spec => []RunningIsOwned
<1>1. Init => \A r \in Run : PolledOrListed(r)
  BY DEF Init, PolledOrListed
<1>2. IInv /\ IInv' /\ (\A r \in Run : PolledOrListed(r)) /\ [Next]_vars
      => (\A r \in Run : PolledOrListed(r))'
  BY OwnedStep DEF OwnedInv
<1>3. IInv /\ (\A r \in Run : PolledOrListed(r)) => RunningIsOwned
  BY DEF IInv, RunInv, PolledOrListed, RunningIsOwned
<1> QED BY <1>1, <1>2, <1>3, Inductive, PTL DEF Spec

-----------------------------------------------------------------------------
(* One active run per item *)

\* Two board runs of one item; manage runs have no item.
SameItem(q, r) ==
  q # r /\ ItemOf[q] = ItemOf[r] /\ "manage" \notin {ModeOf[q], ModeOf[r]}

\* What a dispatch found holds until its INSERT unless it is overtaken: the
\* active rows of its item are those it still has to reap, or were launched
\* although they had ended.
CheckHolds(r) ==
  creator[r] = "reap" /\ r \notin raced =>
    \A q \in Run : SameItem(q, r) /\ status[q] \in Active => q \in stale[r] \cup raced

RaceInv == OneActiveUnlessRaced /\ \A r \in Run : CheckHolds(r)

\* How a step that is no creation's may treat the row t and its dispatch.
Calm(t) ==
  /\ status'[t] \in Active => status[t] \in Active \/ t \in raced'
  /\ creator'[t] = "reap" => creator[t] = "reap" /\ stale'[t] = stale[t]
  /\ t \in raced => t \in raced'

LEMMA CalmKeeps ==
  ASSUME RaceInv, \A t \in Run : Calm(t)
  PROVE  RaceInv'
<1>1. ASSUME NEW r \in Run
      PROVE  CheckHolds(r)'
  <2> SUFFICES ASSUME creator'[r] = "reap", r \notin raced', NEW q \in Run,
                      SameItem(q, r), status'[q] \in Active
               PROVE  q \in stale'[r] \cup raced'
    BY DEF CheckHolds, SameItem
  <2>1. creator[r] = "reap" /\ r \notin raced /\ stale'[r] = stale[r]
    BY DEF Calm
  <2>2. status[q] \in Active \/ q \in raced'
    BY DEF Calm
  <2>3. q \in raced => q \in raced'
    BY DEF Calm
  <2>4. CheckHolds(r)
    BY DEF RaceInv
  <2> QED BY <2>1, <2>2, <2>3, <2>4 DEF CheckHolds
<1>2. OneActiveUnlessRaced'
  BY DEF RaceInv, OneActiveUnlessRaced, Calm
<1> QED BY <1>1, <1>2 DEF RaceInv

LEMMA WorkerCalm ==
  ASSUME TypeOK, NEW r \in Run, WorkerStep(r) \/ TaskDies(r), NEW t \in Run
  PROVE  Calm(t)
<1> USE DEF rowVars, creatorVars, historyVars, TypeOK, TaskFrame, OthersFrame, Calm
<1>1. ASSUME NEW s \in Outcome, Ends(r, s), raced' = raced
      PROVE  Calm(t)
  BY <1>1 DEF Ends, WriteStatus, Outcome, Active
<1>2. CASE EngineUnresolved(r) \/ RouteRefused(r) \/ PostConflict(r)
           \/ PostRefused(r) \/ PostReplyLost(r)
  BY <1>1, <1>2
     DEF EngineUnresolved, RouteRefused, PostConflict, PostRefused, PostReplyLost, Outcome,
         EndWith, Ends
<1>3. CASE LookupFails(r) \/ TaskDies(r) \/ RecordUndone(r) \/ ProcessRun(r)
           \/ CheckBeforeRouting(r) \/ PickHost(r) \/ PostFull(r)
  BY <1>3 DEF LookupFails, TaskDies, RecordUndone, ProcessRun, CheckBeforeRouting,
              PickHost, PostFull
<1>4. CASE PostAccepted(r) \/ CheckAfterPost(r) \/ UndoLaunch(r) \/ PollTerminal(r)
  BY <1>4 DEF PostAccepted, CheckAfterPost, UndoLaunch, PollTerminal
<1>5. CASE MarkRunning(r)
  BY <1>5 DEF MarkRunning, WriteStatus
<1>6. CASE WriteResult(r)
  <2>1. PICK w \in Outcome : Ends(r, w)
    BY <1>6, ResultEnds
  <2> QED BY <1>1, <1>6, <2>1 DEF WriteResult
<1> QED BY <1>2, <1>3, <1>4, <1>5, <1>6 DEF WorkerStep

LEMMA OtherCalm ==
  ASSUME IInv, NEW r \in Run, NEW t \in Run,
         \/ CancelRead(r) \/ CancelStep(r) \/ ReaperSelect \/ ReaperStep(r)
         \/ RemoteFinish(r) \/ RemoteForgets(r) \/ Tick(r)
  PROVE  Calm(t)
<1>0. TypeOK
  BY DEF IInv
<1> USE DEF rowVars, creatorVars, historyVars, TypeOK, Calm
<1>1. CASE CancelRead(r) \/ CancelStep(r)
  BY <1>0, <1>1 DEF CancelRead, CancelStep, CancelWrite, CancelForward, WriteStatus, Active
<1>2. CASE ReaperSelect \/ ReaperLook(r)
  BY <1>0, <1>2 DEF ReaperSelect, ReaperLook, ReaperFrame
<1>3. CASE ReaperWrite(r)
  BY <1>0, <1>3 DEF ReaperWrite, ReaperFrame, WriteStatus, Outcome, Active
<1>4. CASE RemoteFinish(r) \/ RemoteForgets(r) \/ Tick(r)
  BY <1>0, <1>4 DEF RemoteFinish, RemoteForgets, HostFrame, Tick
<1> QED BY <1>1, <1>2, <1>3, <1>4 DEF ReaperStep

LEMMA ProcessCalm ==
  ASSUME TypeOK, NEW t \in Run,
         BootStep \/ \E fwd, rec \in SUBSET Polling : Stop(fwd, rec)
  PROVE  Calm(t)
<1> USE DEF rowVars, creatorVars, historyVars, TypeOK, Calm, WriteStatus
<1>1. CASE Boot \/ BootDone
  BY <1>1 DEF Boot, BootDone
<1>2. ASSUME NEW r \in Run, ReconcileFail(r) \/ ReconcileResume(r)
      PROVE  Calm(t)
  BY <1>2 DEF ReconcileFail, ReconcileResume, Active
<1>3. ASSUME NEW r \in Run, ReconcileAdopt(r)
      PROVE  Calm(t)
  <2>1. PICK w \in Outcome : WriteStatus(r, w)
    BY <1>3, AdoptWrites
  <2> QED BY <1>3, <2>1 DEF ReconcileAdopt, Outcome, Active
<1>4. ASSUME NEW fwd \in SUBSET Polling, NEW rec \in SUBSET Polling, Stop(fwd, rec)
      PROVE  Calm(t)
  BY <1>4 DEF Stop, Active
<1> QED BY <1>1, <1>2, <1>3, <1>4 DEF BootStep

LEMMA CreatorRaces ==
  ASSUME IInv, RaceInv, NEW r \in Run,
         CreateCheck(r) \/ CreateManageInsert(r) \/ CreatorStep(r)
  PROVE  RaceInv'
<1>0. TypeOK /\ RunInv(r)
  BY DEF IInv
<1> USE DEF rowVars, creatorVars, historyVars, TypeOK, WriteStatus
<1>1. CASE CreateRefused(r) \/ NeverEnqueued(r) \/ CreateSetupFails(r) \/ Enqueue(r)
  <2>1. \A t \in Run : Calm(t)
    BY <1>0, <1>1 DEF CreateRefused, NeverEnqueued, CreateSetupFails, Enqueue, Calm, Active
  <2> QED BY <2>1, CalmKeeps
<1>2. CASE CreateCheck(r)
  <2>1. /\ status' = status /\ raced' = raced \ {r}
        /\ ModeOf[r] # "manage" /\ status[r] = "absent"
        /\ creator'[r] = "reap" /\ stale'[r] = ActiveRunsOf(ItemOf[r])
        /\ \A t \in Run \ {r} : creator'[t] = creator[t] /\ stale'[t] = stale[t]
    BY <1>0, <1>2 DEF CreateCheck
  <2>2. OneActiveUnlessRaced'
    BY <2>1 DEF RaceInv, OneActiveUnlessRaced, Active
  <2>3. ASSUME NEW t \in Run
        PROVE  CheckHolds(t)'
    <3>1. CASE t = r
      BY <2>1, <3>1 DEF CheckHolds, SameItem, ActiveRunsOf
    <3>2. CASE t # r
      BY <2>1, <3>2 DEF RaceInv, CheckHolds, SameItem, Active
    <3> QED BY <3>1, <3>2
  <2> QED BY <2>2, <2>3 DEF RaceInv
<1>3. CASE CreateManageInsert(r) \/ CreateInsert(r)
  <2>1. /\ status' = [status EXCEPT ![r] = "pending"]
        /\ creator' = [creator EXCEPT ![r] = "inserted"]
        /\ stale' = stale /\ raced' = raced \cup Overtakes(r)
        /\ ModeOf[r] # "manage" => creator[r] = "reap" /\ stale[r] = {}
    BY <1>3 DEF CreateManageInsert, CreateInsert, InsertPending
  <2>2. ASSUME NEW q \in Run, SameItem(q, r), status[q] \in Active, r \notin raced
        PROVE  q \in raced
    BY <2>1, <2>2 DEF RaceInv, CheckHolds, SameItem
  <2>3. OneActiveUnlessRaced'
    <3> SUFFICES ASSUME NEW q \in Run, NEW t \in Run, SameItem(q, t),
                        status'[q] \in Active, status'[t] \in Active
                 PROVE  q \in raced' \/ t \in raced'
      BY DEF OneActiveUnlessRaced, SameItem
    <3>1. CASE t = r
      BY <1>0, <2>1, <2>2, <3>1 DEF SameItem
    <3>2. CASE q = r
      BY <1>0, <2>1, <2>2, <3>2 DEF SameItem
    <3>3. CASE t # r /\ q # r
      BY <1>0, <2>1, <3>3 DEF RaceInv, OneActiveUnlessRaced, SameItem
    <3> QED BY <3>1, <3>2, <3>3
  <2>4. ASSUME NEW t \in Run
        PROVE  CheckHolds(t)'
    <3> SUFFICES ASSUME creator'[t] = "reap", t \notin raced', NEW q \in Run,
                        SameItem(q, t), status'[q] \in Active
                 PROVE  q \in stale'[t] \cup raced'
      BY DEF CheckHolds, SameItem
    <3>1. t # r /\ creator[t] = "reap" /\ t \notin raced /\ t \notin Overtakes(r)
      BY <1>0, <2>1
    <3>2. q # r
      BY <3>1 DEF SameItem, Overtakes
    <3>3. q \in stale[t] \cup raced
      BY <1>0, <2>1, <3>1, <3>2 DEF RaceInv, CheckHolds
    <3> QED BY <2>1, <3>3
  <2> QED BY <2>3, <2>4 DEF RaceInv
<1>4. ASSUME NEW p \in Run, CreateReap(r, p)
      PROVE  RaceInv'
  <2>1. /\ raced' = raced
        /\ \A t \in Run : status'[t] \in Active => status[t] \in Active
        /\ \A t \in Run : creator'[t] = "reap" => creator[t] = "reap"
        /\ \A t \in Run \ {r} : stale'[t] = stale[t]
        /\ creator'[r] = "reap" => stale'[r] = stale[r] \ {p} /\ status'[p] = "failed"
    BY <1>0, <1>4 DEF CreateReap, Active
  <2>2. OneActiveUnlessRaced'
    BY <2>1 DEF RaceInv, OneActiveUnlessRaced
  <2>3. ASSUME NEW t \in Run
        PROVE  CheckHolds(t)'
    <3> SUFFICES ASSUME creator'[t] = "reap", t \notin raced', NEW q \in Run,
                        SameItem(q, t), status'[q] \in Active
                 PROVE  q \in stale'[t] \cup raced'
      BY DEF CheckHolds, SameItem
    <3>1. q \in stale[t] \cup raced
      BY <2>1 DEF RaceInv, CheckHolds
    <3>2. t = r => q # p
      BY <2>1 DEF Active
    <3> QED BY <2>1, <3>1, <3>2
  <2> QED BY <2>2, <2>3 DEF RaceInv
<1> QED BY <1>1, <1>2, <1>3, <1>4 DEF CreatorStep

\* However dispatches of an item overlap, and whatever is cancelled, reaped or
\* restarted meanwhile, two of its runs are active together only if one of them
\* was overtaken, or was launched although its row had ended.
THEOREM OneActive == Spec => []OneActiveUnlessRaced
<1>1. Init => RaceInv
  BY DEF Init, RaceInv, OneActiveUnlessRaced, CheckHolds, Active
<1>2. IInv /\ RaceInv /\ [Next]_vars => RaceInv'
  <2> SUFFICES ASSUME IInv, RaceInv, [Next]_vars
               PROVE  RaceInv'
    OBVIOUS
  <2>0. TypeOK
    BY DEF IInv
  <2>1. CASE UNCHANGED vars
    BY <2>1 DEF vars, rowVars, creatorVars, historyVars, RaceInv, OneActiveUnlessRaced,
                CheckHolds
  <2>2. ASSUME NEW r \in Run, RunNext(r)
        PROVE  RaceInv'
    BY <2>0, <2>2, CreatorRaces, WorkerCalm, OtherCalm, CalmKeeps DEF RunNext
  <2>3. CASE ReaperSelect
    <3>1. Run = {} => RaceInv'
      BY DEF RaceInv, OneActiveUnlessRaced
    <3> QED BY <2>3, <3>1, OtherCalm, CalmKeeps
  <2>4. CASE BootStep \/ \E fwd, rec \in SUBSET Polling : Stop(fwd, rec)
    BY <2>0, <2>4, ProcessCalm, CalmKeeps
  <2> QED BY <2>1, <2>2, <2>3, <2>4 DEF Next
<1> QED BY <1>1, <1>2, Inductive, PTL DEF Spec, RaceInv

-----------------------------------------------------------------------------
(* The contract *)

\* How a step may move the row and the agent of one run, in this module's terms.
Keeps(t) ==
  /\ \/ remote'[t] = remote[t]
     \/ remote[t] = "none" /\ status[t] # "absent" /\ remote'[t] = "active"
     \/ remote[t] = "active" /\ remote'[t] \in RemoteEnd
  /\ \/ status'[t] = status[t]
     \/ status[t] = "absent" /\ status'[t] = "pending"
     \/ status[t] # "absent" /\ status'[t] \in {"failed", "timeout", "cancelled"}
     \/ status[t] # "absent" /\ status'[t] = "success" /\ remote[t] = "succeeded"
     \/ /\ status[t] \notin {"absent", "success"}
        /\ status'[t] = "running" /\ remote[t] # "none"

LEMMA KeepsContract ==
  ASSUME TypeOK, TypeOK', NEW t \in Run, Keeps(t)
  PROVE  Contract!WorkMoves(t) /\ Contract!ReportMoves(t)
<1> USE DEF Keeps, TypeOK
<1>1. /\ status[t] \in Status /\ status'[t] \in Status
      /\ remote[t] \in RemoteEnd \cup {"none", "active"}
      /\ remote'[t] \in RemoteEnd \cup {"none", "active"}
  OBVIOUS
<1>2. Contract!WorkMoves(t)
  BY <1>1 DEF Contract!WorkMoves, Report, Work, RemoteEnd, Status, Active, Outcome
<1>3. Contract!ReportMoves(t)
  BY <1>1 DEF Contract!ReportMoves, Report, Work, RemoteEnd, Status, Active, Outcome
<1> QED BY <1>2, <1>3

\* Every step keeps to it, whichever actor takes it.
LEMMA CreatorKeeps ==
  ASSUME IInv, NEW r \in Run, NEW t \in Run,
         CreateCheck(r) \/ CreateManageInsert(r) \/ CreatorStep(r)
  PROVE  Keeps(t)
<1>0. TypeOK /\ RunInv(t) /\ RunInv(r)
  BY DEF IInv
<1> USE DEF rowVars, remoteVars, WriteStatus, RunInv, TypeOK, Keeps
<1>1. CASE CreateCheck(r) \/ CreateRefused(r) \/ NeverEnqueued(r) \/ Enqueue(r)
  BY <1>1 DEF CreateCheck, CreateRefused, NeverEnqueued, Enqueue
<1>2. CASE CreateManageInsert(r) \/ CreateInsert(r)
  BY <1>0, <1>2 DEF CreateManageInsert, CreateInsert, InsertPending
<1>3. CASE CreateSetupFails(r)
  BY <1>0, <1>3 DEF CreateSetupFails
<1>4. ASSUME NEW q \in Run, CreateReap(r, q)
      PROVE  Keeps(t)
  BY <1>0, <1>4 DEF CreateReap
<1> QED
  BY <1>1, <1>2, <1>3, <1>4 DEF CreatorStep

LEMMA WorkerKeeps ==
  ASSUME IInv, NEW r \in Run, NEW t \in Run, WorkerStep(r) \/ TaskDies(r)
  PROVE  Keeps(t)
<1>0. TypeOK /\ RunInv(t) /\ RunInv(r)
  BY DEF IInv
<1>a. pc[r] # "none" => status[r] # "absent"
  BY <1>0 DEF RunInv
<1> USE DEF rowVars, remoteVars, TaskFrame, OthersFrame, TypeOK, Keeps
<1>1. ASSUME NEW s \in Outcome, Ends(r, s), pc[r] # "none",
             s = "success" => remote[r] = "succeeded"
      PROVE  Keeps(t)
  BY <1>0, <1>a, <1>1 DEF Ends, WriteStatus, Outcome
<1>2. CASE LookupFails(r) \/ TaskDies(r) \/ ProcessRun(r) \/ CheckBeforeRouting(r)
           \/ PickHost(r) \/ PostFull(r) \/ CheckAfterPost(r) \/ PollTerminal(r)
           \/ RecordUndone(r)
  BY <1>2 DEF LookupFails, TaskDies, ProcessRun, CheckBeforeRouting, PickHost, PostFull,
              CheckAfterPost, PollTerminal, RecordUndone
<1>3. CASE EngineUnresolved(r) \/ RouteRefused(r) \/ PostConflict(r)
           \/ PostRefused(r) \/ PostReplyLost(r)
  BY <1>1, <1>3
     DEF EngineUnresolved, RouteRefused, PostConflict, PostRefused, PostReplyLost, Outcome,
         EndWith, Ends
<1>4. CASE PostAccepted(r)
  <2>1. remote[r] = "none" /\ status[r] # "absent"
    BY <1>0, <1>a, <1>4 DEF PostAccepted, RunInv, Unlaunched
  <2>2. remote'[t] = IF t = r THEN "active" ELSE remote[t]
    BY <1>0, <1>4 DEF PostAccepted
  <2>3. status'[t] = status[t]
    BY <1>4 DEF PostAccepted
  <2> QED BY <2>1, <2>2, <2>3
<1>5. CASE UndoLaunch(r)
  BY <1>0, <1>5, CancelledOnType DEF UndoLaunch, RemoteEnd
<1>6. CASE MarkRunning(r)
  <2>1. status[r] \notin {"absent", "success"}
    BY <1>0, <1>a, <1>6 DEF MarkRunning, RunInv
  <2>2. remote[r] # "none"
    <3>1. pc[r] = "launch"
      BY <1>6 DEF MarkRunning
    <3> QED BY <1>0, <3>1 DEF RunInv
  <2> QED BY <1>6, <2>1, <2>2 DEF MarkRunning, WriteStatus
<1>7. CASE WriteResult(r)
  <2>1. PICK w \in Outcome : Ends(r, w) /\ (w = "success" => result[r] = "succeeded")
    BY <1>0, <1>7, ResultEnds
  <2>2. w = "success" => remote[r] = "succeeded"
    BY <1>0, <2>1 DEF RunInv
  <2>3. pc[r] # "none"
    BY <1>7 DEF WriteResult
  <2> QED BY <1>1, <2>1, <2>2, <2>3
<1> QED
  BY <1>2, <1>3, <1>4, <1>5, <1>6, <1>7 DEF WorkerStep

LEMMA CancelKeeps ==
  ASSUME IInv, NEW r \in Run, NEW t \in Run, CancelRead(r) \/ CancelStep(r)
  PROVE  Keeps(t)
<1>0. TypeOK /\ RunInv(r)
  BY DEF IInv
<1> USE DEF rowVars, remoteVars, TypeOK, Keeps
<1>1. CASE CancelRead(r)
  BY <1>1 DEF CancelRead
<1>2. CASE CancelWrite(r)
  BY <1>0, <1>2 DEF CancelWrite, WriteStatus, RunInv
<1>3. CASE CancelForward(r)
  BY <1>0, <1>3, CancelledOnType DEF CancelForward, RemoteEnd
<1> QED
  BY <1>1, <1>2, <1>3 DEF CancelStep

LEMMA ReaperKeeps ==
  ASSUME IInv, NEW r \in Run, NEW t \in Run, ReaperSelect \/ ReaperStep(r)
  PROVE  Keeps(t)
<1>0. TypeOK /\ RunInv(r)
  BY DEF IInv
<1> USE DEF remoteVars, ReaperFrame, TypeOK, Keeps
<1>1. CASE ReaperSelect \/ ReaperLook(r)
  BY <1>1 DEF ReaperSelect, ReaperLook
<1>2. CASE ReaperWrite(r)
  BY <1>0, <1>2 DEF ReaperWrite, WriteStatus, RunInv, Outcome
<1> QED
  BY <1>1, <1>2 DEF ReaperStep

LEMMA ProcessKeeps ==
  ASSUME IInv, NEW t \in Run,
         BootStep \/ \E fwd, rec \in SUBSET Polling : Stop(fwd, rec)
  PROVE  Keeps(t)
<1>0. TypeOK /\ \A r \in Run : RunInv(r)
  BY DEF IInv
<1> USE DEF rowVars, remoteVars, TypeOK, Keeps
<1>1. ASSUME NEW fwd \in SUBSET Polling, NEW rec \in SUBSET Polling, Stop(fwd, rec)
      PROVE  Keeps(t)
  BY <1>0, <1>1 DEF Stop, Polling, RunInv, RemoteEnd
<1>2. CASE Boot \/ BootDone
  BY <1>2 DEF Boot, BootDone
<1>3. ASSUME NEW r \in Run, ReconcileFail(r) \/ ReconcileResume(r)
      PROVE  Keeps(t)
  BY <1>0, <1>3 DEF ReconcileFail, ReconcileResume, WriteStatus, RunInv
<1>4. ASSUME NEW r \in Run, ReconcileAdopt(r)
      PROVE  Keeps(t)
  <2>1. PICK w \in Outcome : WriteStatus(r, w) /\ (w = "success" => remote[r] = "succeeded")
    BY <1>4, AdoptWrites
  <2> QED BY <1>0, <1>4, <2>1 DEF ReconcileAdopt, WriteStatus, RunInv, Outcome
<1> QED
  BY <1>1, <1>2, <1>3, <1>4 DEF BootStep

LEMMA HostKeeps ==
  ASSUME IInv, NEW r \in Run, NEW t \in Run,
         RemoteFinish(r) \/ RemoteForgets(r) \/ Tick(r)
  PROVE  Keeps(t)
<1>0. TypeOK
  BY DEF IInv
<1> USE DEF rowVars, remoteVars, HostFrame, TypeOK, Keeps, RemoteEnd
<1>1. CASE RemoteFinish(r)
  <2>1. PICK e \in {"succeeded", "failed", "timed_out"} :
          remote' = [remote EXCEPT ![r] = e]
    BY <1>1 DEF RemoteFinish
  <2> QED BY <1>0, <1>1, <2>1 DEF RemoteFinish
<1>2. CASE RemoteForgets(r)
  BY <1>0, <1>2 DEF RemoteForgets
<1>3. CASE Tick(r)
  BY <1>3 DEF Tick
<1> QED
  BY <1>1, <1>2, <1>3

\* The board's behaviours are the contract's: initially, and at every step.
\* (That launched runs settle, the contract's liveness, is checked by TLC.)
THEOREM ContractKept == Spec => Contract!Init /\ [][Contract!Next]_(Contract!vars)
<1>1. Init => Contract!Init
  <2> SUFFICES ASSUME Init
               PROVE  Contract!Init
    OBVIOUS
  <2>1. \A r \in Run : Report(r) = "absent"
    BY DEF Init, Report, Active
  <2>2. \A r \in Run : Work(r) = "none"
    BY DEF Init, Work
  <2> QED BY <2>1, <2>2, Zenon DEF Contract!Init
<1>2. IInv /\ IInv' /\ [Next]_vars => Contract!Next
  <2> SUFFICES ASSUME IInv, IInv', [Next]_vars, NEW t \in Run
               PROVE  Contract!WorkMoves(t) /\ Contract!ReportMoves(t)
    BY DEF Contract!Next
  <2>1. Keeps(t)
    <3>1. CASE UNCHANGED vars
      BY <3>1 DEF vars, rowVars, remoteVars, Keeps
    <3>2. ASSUME NEW r \in Run, RunNext(r)
          PROVE  Keeps(t)
      BY <3>2, CreatorKeeps, WorkerKeeps, CancelKeeps, ReaperKeeps, HostKeeps DEF RunNext
    <3> QED BY <3>1, <3>2, ReaperKeeps, ProcessKeeps DEF Next
  <2> QED BY <2>1, KeepsContract DEF IInv
<1>3. IInv /\ IInv' /\ [Next]_vars => [Contract!Next]_(Contract!vars)
  BY <1>2
<1> QED BY <1>1, <1>3, Inductive, PTL DEF Spec

=============================================================================
