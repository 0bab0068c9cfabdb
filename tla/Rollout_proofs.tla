--------------------------- MODULE Rollout_proofs ---------------------------
(***************************************************************************)
(* Proofs about Rollout for any items, edges and callers: its types and,   *)
(* as long as nothing is resumed, the order of the plan, whatever requests *)
(* overlap and whichever of them stop half-way.                            *)
(***************************************************************************)
EXTENDS Rollout, TLAPS

-----------------------------------------------------------------------------
(* Types *)

\* A request whose outcome is known may take any step and any locals.
LEMMA CallFields ==
  ASSUME NEW k \in Call, k.out # "none", NEW pc \in CallPc, NEW todo \in SUBSET Item,
         NEW close \in BOOLEAN
  PROVE  [k EXCEPT !.pc = pc, !.close = close, !.todo = todo] \in Call
  BY DEF Call

\* A request on an item that moves on keeps the type of the table of requests.
LEMMA GotoType ==
  ASSUME TypeOK, NEW c \in Callers, call[c] # NoCall, NEW pc \in CallPc \cup {"idle"},
         Goto(c, pc), call[c].out = "none" => pc \in {"check", "autoclose", "reset", "idle"}
  PROVE  call' \in [Callers -> Call \cup {NoCall}]
  BY DEF TypeOK, Goto, Call

\* Planning and starting keep the types.
LEMMA TypePlan ==
  ASSUME TypeOK, PlanBegin \/ PlanStep \/ StartRead \/ StartWrite
  PROVE  TypeOK'
<1>1. CASE PlanBegin
  BY <1>1 DEF TypeOK, PlanBegin, Step, PlanFrame, LeadOp, LeadPc, Status
<1>2. CASE PlanFails
  BY <1>2 DEF TypeOK, PlanFails, Step, PlanFrame, LeadOp, LeadPc, Status
<1>3. CASE PlanDone
  BY <1>3 DEF TypeOK, PlanDone, Step, PlanFrame, LeadOp, LeadPc, Status
<1>4. ASSUME NEW i \in Item, PlanItem(i) PROVE TypeOK'
  BY <1>4 DEF TypeOK, PlanItem, PlanFrame, ItemStatus, Live
<1>5. CASE StartRead
  BY <1>5 DEF TypeOK, StartRead, Step, PlanFrame, LeadOp, LeadPc
<1>6. CASE StartWrite
  BY <1>6 DEF TypeOK, StartWrite, Step, PlanFrame, LeadOp, LeadPc, Status
<1> QED  BY <1>1, <1>2, <1>3, <1>4, <1>5, <1>6 DEF PlanStep

\* Dispatching keeps the types, and so does what becomes of a build.
LEMMA TypeDispatch ==
  ASSUME TypeOK, NEW i \in Item, DispatchCheck(i) \/ DispatchStep(i) \/ BuildMoves(i)
  PROVE  TypeOK'
<1> USE DEF TypeOK, DispatchFrame, DispatchPc
<1>1. CASE DispatchCheck(i)
  BY <1>1 DEF DispatchCheck
<1>2. CASE DispatchInsert(i)
  BY <1>2 DEF DispatchInsert, BuildStatus, BuildActive
<1>3. CASE DispatchLink(i)
  BY <1>3 DEF DispatchLink, ItemStatus, Live
<1>4. CASE DispatchActive(i)
  BY <1>4 DEF DispatchActive
<1>5. CASE BuildMoves(i)
  BY <1>5 DEF BuildMoves, BuildStatus, BuildActive
<1> QED  BY <1>1, <1>2, <1>3, <1>4, <1>5 DEF DispatchStep

\* A completion, a reset and a user's update keep the types as they begin,
LEMMA BeginCompleteType ==
  ASSUME TypeOK, NEW c \in Callers, NEW i \in Item, NEW out \in Outcome,
         BeginComplete(c, i, out)
  PROVE  /\ call' \in [Callers -> Call \cup {NoCall}]
         /\ owed' \in [Item -> Outcome \cup {"none"}]
<1>1. Accepted(i, out) \in CallPc
  BY DEF BeginComplete, Accepted, CallPc
<1>2. NewCall(Accepted(i, out), i, out) \in Call
  BY <1>1 DEF NewCall, TypeOK, Call, Outcome
<1> QED  BY <1>2 DEF BeginComplete, TypeOK

LEMMA TypeBegin ==
  ASSUME TypeOK, NEW c \in Caller, NEW i \in Item,
         \/ ResetRead(c, i)
         \/ \E out \in Outcome : CompleteRead(c, i, out)
         \/ \E s \in {"done", "cancelled"} : UserCloses(c, i, s)
  PROVE  TypeOK'
<1> c \in Callers
  BY DEF Callers
<1>1. CASE ResetRead(c, i)
  <2>1. NewCall("reset", i, "none") \in Call
    BY DEF NewCall, TypeOK, Call, CallPc
  <2> QED  BY <1>1, <2>1 DEF ResetRead, CallFrame, TypeOK
<1>2. ASSUME NEW out \in Outcome, CompleteRead(c, i, out)
      PROVE  TypeOK'
  BY <1>2, BeginCompleteType DEF CompleteRead, CallFrame, TypeOK
<1>3. ASSUME NEW s \in {"done", "cancelled"}, UserCloses(c, i, s)
      PROVE  TypeOK'
  <2>1. NewCall("check", i, "none") \in Call
    BY DEF NewCall, TypeOK, Call, CallPc
  <2> QED  BY <1>3, <2>1 DEF UserCloses, CallFrame, TypeOK
<1> QED  BY <1>1, <1>2, <1>3

\* and as they go on.
LEMMA TypeCall ==
  ASSUME TypeOK, NEW c \in Callers, CallStep(c)
  PROVE  TypeOK'
<1>0. /\ call[c] # NoCall => call[c] \in Call
      /\ \A pc \in CallPc : call[c].pc = pc => call[c] # NoCall
  BY DEF TypeOK, NoCall, CallPc
<1>a. /\ call[c] # NoCall => call[c].item \in Item /\ call[c].todo \subseteq Item
      /\ call[c].pc \in CallPc \ {"check", "autoclose", "reset"} => call[c].out \in Outcome
  <2>1. \A k \in Call : /\ k.item \in Item /\ k.todo \subseteq Item
                        /\ k.out \in Outcome \cup {"none"}
                        /\ k.out = "none" => k.pc \in {"check", "autoclose", "reset"}
    BY DEF Call
  <2> QED  BY <1>0, <2>1
<1>b. "none" \notin Outcome
  BY DEF Outcome
<1> USE DEF CallFrame
<1>1. CASE CompleteWrite(c)
  <2>1. call[c].pc = "write" /\ "release" \in CallPc
    BY <1>1 DEF CompleteWrite, CallPc
  <2>2. call[c] # NoCall /\ call[c].item \in Item /\ call[c].out \in Outcome
    BY <1>0, <1>a, <2>1 DEF CallPc
  <2>3. call' \in [Callers -> Call \cup {NoCall}]
    BY <1>b, <1>1, <2>1, <2>2, GotoType DEF CompleteWrite
  <2> QED  BY <1>1, <2>2, <2>3 DEF CompleteWrite, TypeOK, ItemStatus
<1>2. CASE CompleteRelease(c)
  BY <1>0, <1>a, <1>b, <1>2, GotoType DEF CompleteRelease, TypeOK, CallPc
<1>3. CASE CompleteHeal(c)
  BY <1>0, <1>a, <1>b, <1>3, GotoType DEF CompleteHeal, TypeOK, CallPc
<1>4. CASE CompleteDone(c)
  BY <1>0, <1>a, <1>b, <1>4, GotoType DEF CompleteDone, TypeOK, CallPc
<1>5. CASE AutoCheck(c)
  BY <1>0, <1>a, <1>b, <1>5, GotoType DEF AutoCheck, AfterCheck, TypeOK, CallPc
<1>6. CASE AutoClose(c)
  BY <1>0, <1>a, <1>b, <1>6, GotoType DEF AutoClose, AfterCheck, TypeOK, CallPc, Status
<1>7. CASE CompleteReload(c)
  <2>1. call[c].pc = "reload" /\ "unblock" \in CallPc
    BY <1>7 DEF CompleteReload, CallPc
  <2>2. call[c] \in Call /\ call[c].out \in Outcome
    BY <1>0, <1>a, <2>1 DEF CallPc
  <2>3. /\ Unblocked(Reloaded(c), call[c].item) \subseteq Item
        /\ AllFinished(Reloaded(c)) \in BOOLEAN
    BY DEF Unblocked, AllFinished
  <2>4. [call[c] EXCEPT !.pc = "unblock", !.close = AllFinished(Reloaded(c)),
                        !.todo = Unblocked(Reloaded(c), call[c].item)] \in Call
    BY <1>b, <2>1, <2>2, <2>3, CallFields
  <2> QED  BY <1>7, <2>4 DEF CompleteReload, TypeOK
<1>8. ASSUME NEW d \in Item, CompleteUnblock(c, d)
      PROVE  TypeOK'
  <2>1. call[c].pc = "unblock" /\ "unblock" \in CallPc
    BY <1>8 DEF CompleteUnblock, CallPc
  <2>2. call[c] \in Call /\ call[c].todo \subseteq Item
    BY <1>0, <1>a, <2>1
  <2>3. call' = [call EXCEPT ![c] = [call[c] EXCEPT !.todo = call[c].todo \ {d}]]
    BY <1>8 DEF CompleteUnblock
  <2>4. call' \in [Callers -> Call \cup {NoCall}]
    BY <2>2, <2>3 DEF TypeOK, Call
  <2> QED  BY <1>8, <2>4 DEF CompleteUnblock, TypeOK, ItemStatus, Live
<1>9. CASE CompleteFinish(c)
  BY <1>0, <1>a, <1>b, <1>9, GotoType DEF CompleteFinish, TypeOK, CallPc
<1>10. CASE CompleteClose(c)
  BY <1>0, <1>a, <1>b, <1>10, GotoType DEF CompleteClose, TypeOK, CallPc, Status
<1>11. CASE ResetWrite(c)
  BY <1>0, <1>a, <1>b, <1>11, GotoType DEF ResetWrite, TypeOK, CallPc, ItemStatus, Live
<1> QED  BY <1>1, <1>2, <1>3, <1>4, <1>5, <1>6, <1>7, <1>8, <1>9, <1>10, <1>11 DEF CallStep

\* Halting, cancelling and resuming keep the types,
LEMMA TypeStop ==
  ASSUME TypeOK, HaltRead \/ CancelRead \/ StopStep
  PROVE  TypeOK'
<1> USE DEF TypeOK, StopFrame, Step, LeadOp, LeadPc
<1>1. CASE HaltRead \/ CancelRead
  BY <1>1 DEF HaltRead, CancelRead
<1>2. ASSUME NEW o \in {"halt", "cancel"}, StopStatus(o)
      PROVE  TypeOK'
  BY <1>2 DEF StopStatus, Status
<1>3. CASE HaltItems
  BY <1>3 DEF HaltItems, ItemStatus, Outcome
<1>4. CASE CancelItems
  BY <1>4 DEF CancelItems, ItemStatus, Outcome
<1>5. ASSUME NEW o \in {"halt", "cancel"}, StopRuns(o)
      PROVE  TypeOK'
  <2>1. build' \in [Item -> BuildStatus]
    BY <1>5 DEF StopRuns, BuildStatus
  <2> QED  BY <1>5, <2>1 DEF StopRuns
<1>6. ASSUME NEW o \in {"halt", "cancel"}, StopLocks(o)
      PROVE  TypeOK'
  BY <1>6 DEF StopLocks
<1> QED  BY <1>1, <1>2, <1>3, <1>4, <1>5, <1>6 DEF StopStep

LEMMA TypeResume ==
  ASSUME TypeOK, ResumeRead \/ ResumeStep
  PROVE  TypeOK'
<1> USE DEF TypeOK, ResumeFrame, Step, LeadOp, LeadPc
<1>1. CASE ResumeRead
  BY <1>1 DEF ResumeRead
<1>2. CASE ResumeSnapshot
  <2>1. \A i \in Item : ResumeTarget(i) \in ItemStatus \cup {"keep"}
    BY DEF ResumeTarget, ItemStatus, Live
  <2> QED  BY <1>2, <2>1 DEF ResumeSnapshot
<1>3. CASE ResumeLock
  BY <1>3 DEF ResumeLock
<1>4. CASE ResumeStatus
  BY <1>4 DEF ResumeStatus, Status
<1>5. CASE SweepSelect
  BY <1>5 DEF SweepSelect, ToSweep
<1>6. ASSUME NEW i \in Item, ResumeItem(i)
      PROVE  TypeOK'
  BY <1>6 DEF ResumeItem
<1>7. ASSUME NEW i \in Item, SweepCall(i)
      PROVE  TypeOK'
  <2>1. Sweep \in Callers /\ "completed" \in Outcome
    BY DEF Callers, Outcome
  <2> QED  BY <1>7, <2>1, BeginCompleteType DEF SweepCall
<1> QED  BY <1>1, <1>2, <1>3, <1>4, <1>5, <1>6, <1>7 DEF ResumeStep

\* and so does whatever stops half-way.
LEMMA TypeDeaths ==
  ASSUME TypeOK, Deaths
  PROVE  TypeOK'
<1>0. MaxDeaths \in Nat
  BY RolloutAssumption
<1>1. ASSUME NEW c \in Callers, CallDies(c)
      PROVE  TypeOK'
  <2>1. call' \in [Callers -> Call \cup {NoCall}]
    BY <1>1, GotoType DEF CallDies
  <2>2. call[c] \in Call
    BY <1>1 DEF CallDies, TypeOK
  <2>3. call[c].item \in Item /\ call[c].out \in Outcome \cup {"none"}
    BY <2>2 DEF Call
  <2> QED  BY <1>0, <1>1, <2>1, <2>3 DEF CallDies, Death, EndResume, TypeOK, LeadOp, LeadPc
<1>2. ASSUME NEW c \in Callers, CheckFails(c)
      PROVE  TypeOK'
  <2>1. call[c].pc # "idle" /\ AfterCheck(c) \in CallPc \cup {"idle"}
    BY <1>2 DEF CheckFails, AfterCheck, CallPc
  <2>2. call' \in [Callers -> Call \cup {NoCall}]
    BY <1>2, <2>1, GotoType DEF CheckFails, AfterCheck, NoCall
  <2> QED  BY <1>0, <1>2, <2>2 DEF CheckFails, Death, TypeOK
<1>3. ASSUME NEW o \in LeadOp, LeadDies(o)
      PROVE  TypeOK'
  BY <1>0, <1>3 DEF LeadDies, Death, EndResume, TypeOK, LeadPc
<1>4. ASSUME NEW i \in Item, DispatchDies(i)
      PROVE  TypeOK'
  BY <1>0, <1>4 DEF DispatchDies, Death, TypeOK, DispatchPc, BuildStatus
<1> QED  BY <1>1, <1>2, <1>3, <1>4 DEF Deaths

\* The type invariant, for any items, edges, callers and switches.
THEOREM RolloutTypeCorrect == Spec => []TypeOK
<1>1. Init => TypeOK
  BY RolloutAssumption
  DEF Init, TypeOK, Status, ItemStatus, BuildStatus, DispatchPc, LeadPc
<1>2. TypeOK /\ [Next]_vars => TypeOK'
  <2> SUFFICES ASSUME TypeOK, [Next]_vars
               PROVE  TypeOK'
    OBVIOUS
  <2>1. CASE UNCHANGED vars
    BY <2>1 DEF vars, TypeOK
  <2>2. CASE Requests
    BY <2>2, TypePlan, TypeDispatch, TypeBegin, TypeStop, TypeResume DEF Requests
  <2>3. ASSUME NEW i \in Item, DispatchStep(i) \/ BuildMoves(i)
        PROVE  TypeOK'
    BY <2>3, TypeDispatch
  <2> QED
    BY <2>1, <2>2, <2>3, TypePlan, TypeCall, TypeStop, TypeResume, TypeDeaths DEF Next
<1> QED  BY <1>1, <1>2, PTL DEF Spec

-----------------------------------------------------------------------------
(* The order of the plan *)

\* What a step may do to item i: nothing, insert it, open it after what comes
\* before it, or close it.
Progress(i) ==
  \/ istatus'[i] = istatus[i]
  \/ istatus[i] = "absent" /\ istatus'[i] = "pending"
  \/ /\ istatus[i] \notin Outcome /\ istatus'[i] \in {"ready", "dispatched"}
     /\ PredsClosed(i)
  \/ /\ istatus'[i] \in Outcome
     /\ istatus'[i] \in {"completed", "halted"} => \A p \in Preds(i) : istatus'[p] \in Outcome

\* Planning inserts items, each ready only if nothing comes before it.
LEMMA PlanProgress ==
  ASSUME TypeOK, NEW i \in Item, PlanStep
  PROVE  Progress(i)
BY DEF PlanStep, PlanFails, PlanDone, PlanItem, TypeOK, Progress, PredsClosed, Preds, Outcome

\* Dispatching takes a ready item on.
LEMMA DispatchProgress ==
  ASSUME TypeOK, OrderInv, NEW j \in Item, DispatchStep(j), NEW i \in Item
  PROVE  Progress(i)
BY DEF DispatchStep, DispatchInsert, DispatchLink, DispatchActive, TypeOK, OrderInv,
       InOrder, Progress, Outcome

\* A request on an item closes it, opens it again, or opens a successor.
LEMMA CallProgress ==
  ASSUME TypeOK, OrderInv, NEW c \in Callers, CallStep(c), NEW i \in Item
  PROVE  Progress(i)
<1>0. CallInOrder(c) /\ InOrder
  BY DEF OrderInv
<1> USE DEF Progress, TypeOK
<1>1. CASE CompleteWrite(c)
  <2>1. call[c] \in Call /\ call[c].pc = "write"
    BY <1>1 DEF CompleteWrite, NoCall
  <2>2. call[c].item \in Item /\ call[c].out \in Outcome
    BY <2>1 DEF Call
  <2>3. \A j \in Item : istatus[j] \in Outcome => istatus'[j] \in Outcome
    BY <1>1, <2>2 DEF CompleteWrite
  <2>4. PredsClosed(call[c].item)
    BY <1>0, <2>1 DEF CallInOrder
  <2>5. \A p \in Preds(call[c].item) : istatus'[p] \in Outcome
    BY <2>3, <2>4 DEF PredsClosed, Preds
  <2> QED  BY <1>1, <2>2, <2>5 DEF CompleteWrite
<1>2. ASSUME NEW d \in Item, CompleteUnblock(c, d)
      PROVE  Progress(i)
  <2>1. PredsClosed(d)
    BY <1>0, <1>2 DEF CallInOrder, CompleteUnblock
  <2> QED  BY <1>2, <2>1 DEF CompleteUnblock, Outcome
<1>3. CASE ResetWrite(c)
  BY <1>0, <1>3 DEF ResetWrite, InOrder, Outcome
<1>4. CASE UNCHANGED istatus
  BY <1>4
<1> QED
  BY <1>1, <1>2, <1>3, <1>4
  DEF CallStep, CompleteRelease, CompleteHeal, CompleteDone, AutoCheck, AutoClose,
      CompleteReload, CompleteFinish, CompleteClose

\* A halt closes every item, all of which are there; a cancel skips them.
LEMMA StopProgress ==
  ASSUME TypeOK, OrderInv, StopStep, NEW i \in Item
  PROVE  Progress(i)
<1> USE DEF Progress, TypeOK
<1>1. CASE HaltItems
  <2>1. \A j \in Item : istatus[j] # "absent"
    BY <1>1 DEF HaltItems, Step, OrderInv, Planted
  <2>2. \A j \in Item : istatus'[j] \in Outcome
    BY <1>1, <2>1 DEF HaltItems, ItemStatus, Outcome
  <2> QED  BY <2>2 DEF Preds
<1>2. CASE CancelItems
  BY <1>2 DEF CancelItems, Outcome
<1>3. CASE UNCHANGED istatus
  BY <1>3
<1> QED
  BY <1>1, <1>2, <1>3 DEF StopStep, StopStatus, StopRuns, StopLocks

\* Every step makes progress.
LEMMA NextProgress ==
  ASSUME TypeOK, OrderInv, [Next]_vars, NEW i \in Item
  PROVE  Progress(i)
<1>1. CASE UNCHANGED istatus
  BY <1>1 DEF Progress
<1>2. CASE Requests
  BY <1>1, <1>2
  DEF Requests, PlanBegin, StartRead, HaltRead, CancelRead, ResumeRead, DispatchCheck,
      ResetRead, CompleteRead, UserCloses
<1>3. ASSUME NEW j \in Item, DispatchStep(j) \/ BuildMoves(j)
      PROVE  Progress(i)
  BY <1>1, <1>3, DispatchProgress DEF BuildMoves, DispatchFrame
<1>4. CASE ResumeStep
  BY <1>4
  DEF ResumeStep, ResumeSnapshot, ResumeLock, ResumeStatus, SweepSelect, ResumeItem,
      SweepCall, Step, OrderInv
<1>5. CASE Deaths
  BY <1>1, <1>5 DEF Deaths, CallDies, CheckFails, LeadDies, DispatchDies
<1>6. CASE UNCHANGED vars
  BY <1>1, <1>6 DEF vars
<1> QED
  BY <1>1, <1>2, <1>3, <1>4, <1>5, <1>6, PlanProgress, CallProgress, StopProgress
  DEF Next, StartWrite

\* Progress keeps what is closed closed, and what is there there.
LEMMA ProgressKeeps ==
  ASSUME \A i \in Item : Progress(i)
  PROVE  /\ \A i \in Item : istatus[i] \in Outcome => istatus'[i] \in Outcome
         /\ \A i \in Item : istatus[i] # "absent" => istatus'[i] # "absent"
         /\ \A i \in Item : PredsClosed(i) => PredsClosed(i)'
BY DEF Progress, PredsClosed, Preds, Outcome

\* The parts of the inductive invariant, step by step.
LEMMA InOrderStep ==
  ASSUME InOrder, \A i \in Item : Progress(i)
  PROVE  InOrder'
<1> SUFFICES ASSUME NEW i \in Item,
                    istatus'[i] \in {"ready", "dispatched", "completed", "halted"}
             PROVE  PredsClosed(i)'
  BY DEF InOrder
<1>1. CASE istatus'[i] = istatus[i]
  BY <1>1, ProgressKeeps DEF InOrder
<1>2. CASE istatus'[i] \in {"ready", "dispatched"} /\ PredsClosed(i)
  BY <1>2, ProgressKeeps
<1>3. CASE \A p \in Preds(i) : istatus'[p] \in Outcome
  BY <1>3 DEF PredsClosed, Preds
<1> QED  BY <1>1, <1>2, <1>3 DEF Progress, Outcome

LEMMA PlantedStep ==
  ASSUME TypeOK, OrderInv, [Next]_vars, \A i \in Item : Progress(i)
  PROVE  Planted'
<1>0. Planted /\ lead["resume"] = "idle"
  BY DEF OrderInv
<1>1. CASE \A i \in Item : istatus[i] # "absent"
  BY <1>1, ProgressKeeps DEF Planted
<1>2. CASE /\ rstatus \notin {"pending", "running", "halted"}
           /\ lead["start"] # "write" /\ lead["halt"] \notin {"status", "items"}
  <2>1. CASE PlanDone
    BY <1>1, <2>1 DEF PlanDone
  <2> SUFFICES ASSUME ~PlanDone
               PROVE  /\ rstatus' \notin {"pending", "running", "halted"}
                      /\ lead'["start"] # "write" /\ lead'["halt"] \notin {"status", "items"}
    BY <2>1 DEF Planted
  <2> USE <1>0, <1>2 DEF TypeOK, LeadOp, LeadPc, Step
  <2>3. CASE Requests
    BY <2>3
    DEF Requests, PlanBegin, StartRead, HaltRead, CancelRead, ResumeRead, DispatchCheck,
        ResetRead, CompleteRead, UserCloses, PlanFrame, CallFrame, StopFrame,
        ResumeFrame, DispatchFrame
  <2>4. CASE PlanStep \/ StartWrite
    BY <2>4 DEF PlanStep, PlanFails, PlanItem, StartWrite
  <2>5. CASE StopStep
    <3>1. ASSUME NEW o \in {"halt", "cancel"}, StopStatus(o)
          PROVE  /\ rstatus' = "cancelled"
                 /\ lead' = [lead EXCEPT !["cancel"] = "items"]
      BY <3>1 DEF StopStatus
    <3>2. ASSUME NEW o \in {"halt", "cancel"}, StopRuns(o) \/ StopLocks(o)
          PROVE  rstatus' = rstatus /\ lead' \in {[lead EXCEPT ![o] = "locks"],
                                                  [lead EXCEPT ![o] = "idle"]}
      BY <3>2 DEF StopRuns, StopLocks
    <3>3. CASE HaltItems \/ CancelItems
      BY <3>3 DEF HaltItems, CancelItems
    <3> QED  BY <2>5, <3>1, <3>2, <3>3 DEF StopStep
  <2>6. CASE ResumeStep
    BY <2>6
    DEF ResumeStep, ResumeSnapshot, ResumeLock, ResumeStatus, SweepSelect, ResumeItem,
        SweepCall
  <2>7. ASSUME NEW j \in Item, DispatchStep(j) \/ BuildMoves(j)
        PROVE  rstatus' = rstatus /\ lead' = lead
    BY <2>7
    DEF DispatchStep, DispatchInsert, DispatchLink, DispatchActive, BuildMoves,
        DispatchFrame
  <2>8. ASSUME NEW c \in Callers, CallStep(c)
        PROVE  rstatus' \in {rstatus, "completed"} /\ lead' = lead
    BY <2>8
    DEF CallStep, CompleteWrite, CompleteRelease, CompleteHeal, CompleteDone, AutoCheck,
        AutoClose, CompleteReload, CompleteUnblock, CompleteFinish, CompleteClose,
        ResetWrite, CallFrame
  <2>9. CASE Deaths
    BY <2>9 DEF Deaths, CallDies, CheckFails, LeadDies, DispatchDies
  <2>10. CASE UNCHANGED vars
    BY <2>10 DEF vars
  <2> QED
    BY <2>3, <2>4, <2>5, <2>6, <2>7, <2>8, <2>9, <2>10 DEF Next
<1> QED  BY <1>0, <1>1, <1>2 DEF Planted

\* A request that does not move keeps what it relies on,
LEMMA OtherCalls ==
  ASSUME TypeOK, OrderInv, \A i \in Item : Progress(i),
         NEW c \in Callers, call'[c] \in {call[c], NoCall}
  PROVE  CallInOrder(c)'
<1>1. CASE call'[c] = NoCall
  BY <1>1 DEF CallInOrder, NoCall
<1>2. CASE call'[c] = call[c] /\ call[c] # NoCall
  <2>1. call[c] \in Call
    BY <1>2 DEF TypeOK
  <2>2. call[c].item \in Item /\ call[c].todo \subseteq Item
    BY <2>1 DEF Call
  <2>3. PICK i \in Item : call[c].item = i /\ call'[c].item = i
    BY <1>2, <2>2
  <2>4. CallInOrder(c)
    BY DEF OrderInv
  <2>5. /\ call'[c].pc = call[c].pc /\ call'[c].out = call[c].out
        /\ call'[c].todo = call[c].todo /\ call'[c].todo \subseteq Item
    BY <1>2, <2>2
  <2>6. call'[c].pc = "write" => \A p \in Preds(i) : istatus'[p] \in Outcome
    BY <2>3, <2>4, <2>5, ProgressKeeps DEF CallInOrder, PredsClosed
  <2>7. call'[c].pc = "unblock" => \A d \in call'[c].todo : PredsClosed(d)'
    BY <2>4, <2>5, ProgressKeeps DEF CallInOrder
  <2>8. istatus[i] \in Outcome => istatus'[i] \in Outcome
    BY ProgressKeeps
  <2> QED  BY <2>3, <2>4, <2>5, <2>6, <2>7, <2>8 DEF CallInOrder, PredsClosed, Preds
<1> QED  BY <1>1, <1>2

\* a completion that begins was accepted in order,
LEMMA BeginCompleteInOrder ==
  ASSUME TypeOK, OrderInv, istatus' = istatus,
         NEW c \in Callers, NEW i \in Item, NEW out \in Outcome, BeginComplete(c, i, out)
  PROVE  CallInOrder(c)'
<1>1. call'[c] = NewCall(Accepted(i, out), i, out)
  BY DEF BeginComplete, TypeOK
<1>2. call'[c].pc = Accepted(i, out) /\ call'[c].item = i
  BY <1>1 DEF NewCall
<1>3. CASE istatus[i] = out
  <2>1. Accepted(i, out) = "heal"
    BY <1>3 DEF Accepted, Outcome, Finished
  <2> QED  BY <1>2, <1>3, <2>1 DEF CallInOrder
<1>4. CASE istatus[i] # out
  <2>1. Accepted(i, out) = "write" /\ istatus[i] \in {"ready", "dispatched", "halted"}
    BY <1>4 DEF Accepted, BeginComplete
  <2>2. PredsClosed(i) /\ PredsClosed(i)'
    BY <2>1 DEF OrderInv, InOrder, PredsClosed
  <2> QED  BY <1>2, <2>1, <2>2 DEF CallInOrder, PredsClosed, Preds
<1> QED  BY <1>3, <1>4

\* and one that goes on has written what it relies on.
LEMMA CallStepInOrder ==
  ASSUME TypeOK, OrderInv, \A i \in Item : Progress(i), NEW c \in Callers, CallStep(c)
  PROVE  CallInOrder(c)'
<1>0. CallInOrder(c)
  BY DEF OrderInv
<1>a. call[c] \in Call
  BY DEF CallStep, CompleteWrite, CompleteRelease, CompleteHeal, CompleteDone, AutoCheck,
     AutoClose, CompleteReload, CompleteUnblock, CompleteFinish, CompleteClose, ResetWrite,
     TypeOK, NoCall
<1>b. call[c].item \in Item /\ call[c].todo \subseteq Item /\ call[c].out \in Outcome \cup {"none"}
  BY <1>a DEF Call
<1>c. istatus[call[c].item] \in Outcome => istatus'[call[c].item] \in Outcome
  BY <1>b, ProgressKeeps
<1>d. ASSUME NEW pc \in CallPc \cup {"idle"}, Goto(c, pc), pc \notin {"write", "unblock"},
             \/ pc \notin {"release", "heal", "done", "check", "autoclose", "reload"}
             \/ call[c].out = "none" \/ istatus'[call[c].item] \in Outcome
      PROVE  CallInOrder(c)'
  <2>1. CASE pc = "idle"
    BY <1>d, <2>1, OtherCalls DEF Goto, TypeOK
  <2>2. CASE pc # "idle"
    <3>1. call'[c] = [call[c] EXCEPT !.pc = pc]
      BY <1>d, <2>2 DEF Goto, TypeOK
    <3>2. call'[c].pc = pc /\ call'[c].item = call[c].item /\ call'[c].out = call[c].out
      BY <1>a, <3>1 DEF Call
    <3> QED  BY <1>d, <3>2 DEF CallInOrder
  <2> QED  BY <2>1, <2>2
<1> USE DEF CallPc
<1>1. CASE CompleteWrite(c)
  <2>1. call[c].pc = "write"
    BY <1>1 DEF CompleteWrite
  <2>2. call[c].out \in Outcome
    BY <1>a, <2>1 DEF Call
  <2>3. istatus'[call[c].item] \in Outcome
    BY <1>b, <1>1, <2>2 DEF CompleteWrite, TypeOK
  <2> QED  BY <1>1, <1>d, <2>3 DEF CompleteWrite
<1>2. CASE CompleteRelease(c)
  BY <1>0, <1>c, <1>d, <1>2 DEF CompleteRelease, CallInOrder
<1>3. CASE CompleteHeal(c)
  BY <1>0, <1>c, <1>d, <1>3 DEF CompleteHeal, CallInOrder
<1>4. CASE CompleteDone(c)
  BY <1>0, <1>c, <1>d, <1>4 DEF CompleteDone, CallInOrder
<1>5. CASE AutoCheck(c)
  BY <1>0, <1>c, <1>d, <1>5 DEF AutoCheck, AfterCheck, CallInOrder
<1>6. CASE AutoClose(c)
  BY <1>0, <1>c, <1>d, <1>6 DEF AutoClose, AfterCheck, CallInOrder
<1>7. CASE CompleteReload(c)
  <2>1. call[c].pc = "reload" /\ istatus' = istatus
    BY <1>7 DEF CompleteReload
  <2>2. istatus[call[c].item] \in Outcome
    <3>1. call[c].out # "none"
      BY <1>a, <2>1 DEF Call
    <3> QED  BY <1>0, <2>1, <3>1 DEF CallInOrder
  <2>3. \A p \in Item : Reloaded(c)[p] \in Outcome => istatus[p] \in Outcome
    BY <1>b, <2>2 DEF Reloaded, TypeOK
  <2>4. \A d \in Unblocked(Reloaded(c), call[c].item) : PredsClosed(d)'
    BY <2>1, <2>3 DEF Unblocked, PredsClosed, Preds
  <2>5. call'[c] = [call[c] EXCEPT !.pc = "unblock",
                      !.todo = Unblocked(Reloaded(c), call[c].item),
                      !.close = AllFinished(Reloaded(c))]
    BY <1>7 DEF CompleteReload, TypeOK
  <2>6. /\ call'[c].pc = "unblock"
        /\ call'[c].todo = Unblocked(Reloaded(c), call[c].item)
    BY <1>a, <2>5 DEF Call
  <2> QED  BY <2>4, <2>6 DEF CallInOrder
<1>8. ASSUME NEW d \in Item, CompleteUnblock(c, d)
      PROVE  CallInOrder(c)'
  <2>1. call'[c] = [call[c] EXCEPT !.todo = call[c].todo \ {d}]
    BY <1>8 DEF CompleteUnblock, TypeOK
  <2>2. call'[c].pc = "unblock" /\ call'[c].todo \subseteq call[c].todo
    BY <1>8, <1>a, <2>1 DEF CompleteUnblock, Call
  <2>3. \A e \in call[c].todo : PredsClosed(e)'
    BY <1>0, <1>b, <1>8, ProgressKeeps DEF CallInOrder, CompleteUnblock
  <2> QED  BY <2>2, <2>3 DEF CallInOrder
<1>9. CASE CompleteFinish(c)
  BY <1>d, <1>9 DEF CompleteFinish
<1>10. CASE CompleteClose(c) \/ ResetWrite(c)
  BY <1>d, <1>10 DEF CompleteClose, ResetWrite
<1> QED  BY <1>1, <1>2, <1>3, <1>4, <1>5, <1>6, <1>7, <1>8, <1>9, <1>10 DEF CallStep

\* So does every other step: it leaves the requests alone, begins one or ends one.
LEMMA CallsStep ==
  ASSUME TypeOK, OrderInv, [Next]_vars, \A i \in Item : Progress(i), NEW c \in Callers
  PROVE  CallInOrder(c)'
<1>1. CASE call' = call
  BY <1>1, OtherCalls
<1>2. ASSUME NEW d \in Callers, CallStep(d)
      PROVE  CallInOrder(c)'
  <2>1. CASE c = d
    BY <1>2, <2>1, CallStepInOrder
  <2>2. CASE c # d
    <3>1. call'[c] = call[c]
      BY <1>2, <2>2
      DEF CallStep, CompleteWrite, CompleteRelease, CompleteHeal, CompleteDone, AutoCheck,
          AutoClose, CompleteReload, CompleteUnblock, CompleteFinish, CompleteClose,
          ResetWrite, Goto, TypeOK
    <3> QED  BY <3>1, OtherCalls
  <2> QED  BY <2>1, <2>2
<1>3. ASSUME NEW d \in Callers, NEW i \in Item, NEW out \in Outcome,
             BeginComplete(d, i, out), istatus' = istatus
      PROVE  CallInOrder(c)'
  <2>1. CASE c = d
    BY <1>3, <2>1, BeginCompleteInOrder
  <2>2. CASE c # d
    BY <1>3, <2>2, OtherCalls DEF BeginComplete, TypeOK
  <2> QED  BY <2>1, <2>2
<1>4. ASSUME NEW d \in Caller, NEW i \in Item, NEW pc \in {"check", "reset"},
             call' = [call EXCEPT ![d] = NewCall(pc, i, "none")]
      PROVE  CallInOrder(c)'
  <2>1. CASE c = d
    BY <1>4, <2>1 DEF NewCall, TypeOK, CallInOrder
  <2>2. CASE c # d
    BY <1>4, <2>2, OtherCalls DEF TypeOK
  <2> QED  BY <2>1, <2>2
<1>5. CASE Requests
  BY <1>1, <1>3, <1>4, <1>5
  DEF Requests, PlanBegin, StartRead, HaltRead, CancelRead, ResumeRead, DispatchCheck,
      ResetRead, CompleteRead, UserCloses, PlanFrame, StopFrame, DispatchFrame, Callers
<1>6. CASE PlanStep \/ StartWrite \/ StopStep
  BY <1>1, <1>6
  DEF PlanStep, PlanFails, PlanItem, PlanDone, StartWrite, StopStep, StopStatus,
      HaltItems, CancelItems, StopRuns, StopLocks, PlanFrame, StopFrame
<1>7. CASE ResumeStep
  BY <1>7
  DEF ResumeStep, ResumeSnapshot, ResumeLock, ResumeStatus, SweepSelect, ResumeItem,
      SweepCall, Step, OrderInv
<1>8. ASSUME NEW i \in Item, DispatchStep(i) \/ BuildMoves(i)
      PROVE  CallInOrder(c)'
  BY <1>1, <1>8
  DEF DispatchStep, DispatchInsert, DispatchLink, DispatchActive, BuildMoves, DispatchFrame
<1>9. CASE Deaths
  <2>1. ASSUME NEW d \in Callers, CallDies(d)
        PROVE  CallInOrder(c)'
    <3>1. call'[c] \in {call[c], NoCall}
      BY <2>1 DEF CallDies, Goto, TypeOK
    <3> QED  BY <3>1, OtherCalls
  <2>2. ASSUME NEW d \in Callers, CheckFails(d)
        PROVE  CallInOrder(c)'
    <3>1. CASE c # d
      BY <2>2, <3>1, OtherCalls DEF CheckFails, Goto, TypeOK
    <3>2. CASE c = d /\ AfterCheck(c) = "idle"
      BY <2>2, <3>2, OtherCalls DEF CheckFails, Goto, TypeOK
    <3>3. CASE c = d /\ AfterCheck(c) = "reload"
      <4>1. /\ call[c] \in Call /\ call[c].out # "none" /\ istatus' = istatus
            /\ call[c].pc \in {"check", "autoclose"}
        BY <2>2, <3>3 DEF CheckFails, AfterCheck, TypeOK, NoCall
      <4>2. call'[c] = [call[c] EXCEPT !.pc = "reload"]
        BY <2>2, <3>3 DEF CheckFails, Goto, TypeOK
      <4>3. call'[c].pc = "reload" /\ call'[c].item = call[c].item
        BY <4>1, <4>2 DEF Call
      <4> QED  BY <4>1, <4>3 DEF CallInOrder, OrderInv
    <3> QED  BY <3>1, <3>2, <3>3 DEF AfterCheck
  <2> QED  BY <1>1, <1>9, <2>1, <2>2 DEF Deaths, LeadDies, DispatchDies
<1> QED
  BY <1>1, <1>2, <1>5, <1>6, <1>7, <1>8, <1>9 DEF Next, vars

\* Without resume no request of that name is ever served.
LEMMA NoResumeStep ==
  ASSUME "resume" \notin Ops, TypeOK, lead["resume"] = "idle", [Next]_vars
  PROVE  lead'["resume"] = "idle"
<1> USE DEF TypeOK, LeadOp, LeadPc, Step
<1>1. CASE lead' = lead
  BY <1>1
<1>2. CASE Requests \/ PlanStep \/ StartWrite
  BY <1>2
  DEF Requests, PlanBegin, StartRead, HaltRead, CancelRead, ResumeRead, DispatchCheck,
      ResetRead, CompleteRead, UserCloses, CallFrame, DispatchFrame,
      PlanStep, PlanFails, PlanItem, PlanDone, StartWrite
<1>3. CASE StopStep
  <2>1. PICK o \in {"halt", "cancel"}, pc \in LeadPc : lead' = [lead EXCEPT ![o] = pc]
    BY <1>3 DEF StopStep, StopStatus, HaltItems, CancelItems, StopRuns, StopLocks
  <2> QED  BY <2>1
<1>4. CASE ResumeStep
  BY <1>4
  DEF ResumeStep, ResumeSnapshot, ResumeLock, ResumeStatus, SweepSelect, ResumeItem,
      SweepCall
<1>5. ASSUME NEW i \in Item, DispatchStep(i) \/ BuildMoves(i)
      PROVE  lead' = lead
  BY <1>5
  DEF DispatchStep, DispatchInsert, DispatchLink, DispatchActive, BuildMoves, DispatchFrame
<1>6. ASSUME NEW c \in Callers, CallStep(c)
      PROVE  lead' = lead
  BY <1>6
  DEF CallStep, CompleteWrite, CompleteRelease, CompleteHeal, CompleteDone, AutoCheck,
      AutoClose, CompleteReload, CompleteUnblock, CompleteFinish, CompleteClose,
      ResetWrite, CallFrame
<1>7. CASE Deaths
  BY <1>7 DEF Deaths, CallDies, CheckFails, LeadDies, DispatchDies
<1> QED  BY <1>1, <1>2, <1>3, <1>4, <1>5, <1>6, <1>7 DEF Next, vars

\* The inductive invariant, as long as nothing is resumed.
THEOREM OrderInductive ==
  ASSUME "resume" \notin Ops
  PROVE  Spec => []OrderInv
<1>1. Init => OrderInv
  BY DEF Init, OrderInv, Planted, InOrder, CallInOrder, NoCall, LeadOp
<1>2. TypeOK /\ OrderInv /\ [Next]_vars => OrderInv'
  <2> SUFFICES ASSUME TypeOK, OrderInv, [Next]_vars
               PROVE  OrderInv'
    OBVIOUS
  <2>1. \A i \in Item : Progress(i)
    BY NextProgress
  <2>2. Planted' /\ InOrder'
    BY <2>1, PlantedStep, InOrderStep DEF OrderInv
  <2>3. \A c \in Callers : CallInOrder(c)'
    BY <2>1, CallsStep
  <2>4. lead'["resume"] = "idle"
    BY NoResumeStep DEF OrderInv
  <2> QED  BY <2>2, <2>3, <2>4 DEF OrderInv
<1> QED  BY <1>1, <1>2, RolloutTypeCorrect, PTL DEF Spec

\* Builds start in the order of the plan: an item is ready, dispatched or
\* completed only when everything before it is completed, halted or skipped.
THEOREM OrderCorrect ==
  ASSUME "resume" \notin Ops
  PROVE  Spec => []OrderKept
<1>1. OrderInv => OrderKept
  BY DEF OrderInv, InOrder, OrderKept, PredsClosed, Preds
<1> QED  BY <1>1, OrderInductive, PTL

\* Without resume the rollout implements its contract: items are opened in the
\* order of the plan and closed for good.
THEOREM ContractImplemented ==
  ASSUME "resume" \notin Ops
  PROVE  Spec => ImplementsContract
<1>1. Init => Contract!Init
  <2>1. Init => \A i \in Item : Stage(i) = "waiting"
    BY DEF Init, Stage, Outcome
  <2> QED  BY <2>1 DEF Contract!Init
<1>2. TypeOK /\ OrderInv /\ [Next]_vars => \A i \in Item : Contract!Moves(i)
  <2> SUFFICES ASSUME TypeOK, OrderInv, [Next]_vars, NEW i \in Item
               PROVE  Contract!Moves(i)
    OBVIOUS
  <2>1. Progress(i) /\ \A p \in Item : istatus[p] \in ItemStatus
    BY NextProgress DEF TypeOK
  <2>2. \A p \in Item : Stage(p) = "closed" <=> istatus[p] \in Outcome
    BY <2>1 DEF Stage, ItemStatus, Live, Outcome
  <2> QED
    BY <2>1, <2>2 DEF Progress, PredsClosed, Preds, Contract!Moves, Stage, ItemStatus, Live,
                      Outcome
<1>3. TypeOK /\ OrderInv /\ [Next]_vars => [Contract!Next]_([i \in Item |-> Stage(i)])
  BY <1>2 DEF Contract!Next
<1> QED
  BY <1>1, <1>3, RolloutTypeCorrect, OrderInductive, PTL DEF Spec, ImplementsContract,
     Contract!Spec

=============================================================================
