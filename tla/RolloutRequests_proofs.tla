---------------------- MODULE RolloutRequests_proofs ------------------------
(***************************************************************************)
(* Proofs about the requests of a Rollout: what they leave behind when     *)
(* they are served one at a time, and what survives when they overlap.     *)
(***************************************************************************)
EXTENDS Rollout_proofs

-----------------------------------------------------------------------------
(* Requests served one at a time *)

\* Of all the requests on a rollout only one is being served; resume's sweep
\* makes one of its own.
DispatchIdle == \A i \in Item : dpc[i] = "idle"
LeadOnly(o)  == \A n \in LeadOp \ {o} : lead[n] = "idle"
Alone ==
  /\ \A c \in Callers : call[c] # NoCall =>
       /\ \A d \in Callers \ {c} : call[d] = NoCall
       /\ DispatchIdle /\ LeadOnly("resume")
       /\ lead["resume"] = IF c = Sweep THEN "sweep" ELSE "idle"
  /\ \A o \in LeadOp : lead[o] # "idle" => LeadOnly(o) /\ DispatchIdle

\* resume has only halted items left to restore.
Targets ==
  \A i \in Item : target[i] # "keep" => lead["resume"] = "restore" /\ istatus[i] = "halted"

\* What a request on an item has made true by the time it is at its pc.
After == {"check", "autoclose", "reload", "unblock", "close"}
Prepared(c) ==
  LET i == call[c].item IN
  /\ call[c].pc = "write" => istatus[i] \in {"ready", "dispatched", "halted"}
  /\ call[c].pc \in {"release", "heal", "done"} \cup After /\ call[c].out # "none"
     => istatus[i] = call[c].out
  /\ call[c].pc \in After /\ call[c].out = "completed" => gtd[i] = "done"
  /\ call[c].pc = "autoclose" => GtdTerminal
  /\ call[c].pc \in {"unblock", "close"} =>
       Unblocked(istatus, i) \subseteq call[c].todo /\ (call[c].close <=> AllFinished(istatus))
  /\ call[c].pc = "close" => call[c].todo = {} /\ call[c].close
  /\ call[c].pc = "reset" => call[c].out = "none"

\* A completed rollout is left alone by everything but repeats and the sweep.
Closed ==
  rstatus = "completed" =>
    /\ AllFinished(istatus) \/ GtdTerminal
    /\ DispatchIdle /\ LeadOnly("resume") /\ lead["resume"] \in {"idle", "sweep"}

SerialInv == Alone /\ Targets /\ (\A c \in Callers : Prepared(c)) /\ Closed

\* A request on an item is a record, and it moves alone.
LEMMA CallRecord ==
  ASSUME TypeOK, NEW c \in Callers, call[c] # NoCall
  PROVE  /\ call[c] \in Call
         /\ call[c].pc \in CallPc /\ call[c].item \in Item /\ call[c].todo \subseteq Item
         /\ call[c].out \in Outcome \cup {"none"}
         /\ call[c].close \in BOOLEAN /\ call[c].seen \in ItemStatus
         /\ call[c].out = "none" => call[c].pc \in {"check", "autoclose", "reset"}
<1>1. call[c] \in Call
  BY DEF TypeOK
<1>2. \A k \in Call : /\ k.pc \in CallPc /\ k.item \in Item /\ k.todo \subseteq Item
                      /\ k.out \in Outcome \cup {"none"}
                      /\ k.close \in BOOLEAN /\ k.seen \in ItemStatus
                      /\ k.out = "none" => k.pc \in {"check", "autoclose", "reset"}
  BY DEF Call
<1> QED  BY <1>1, <1>2

LEMMA GotoFields ==
  ASSUME TypeOK, NEW c \in Callers, call[c] # NoCall, NEW pc, pc # "idle", Goto(c, pc)
  PROVE  /\ call'[c].pc = pc /\ call'[c].item = call[c].item /\ call'[c].out = call[c].out
         /\ call'[c].todo = call[c].todo /\ call'[c].close = call[c].close
         /\ call'[c].seen = call[c].seen
         /\ \A d \in Callers : d # c => call'[d] = call[d]
<1>1. call[c] \in Call
  BY CallRecord
<1>2. call'[c] = [call[c] EXCEPT !.pc = pc] /\ \A d \in Callers : d # c => call'[d] = call[d]
  BY DEF Goto, TypeOK
<1> QED  BY <1>1, <1>2 DEF Call

LEMMA GotoIdle ==
  ASSUME TypeOK, NEW c \in Callers, Goto(c, "idle")
  PROVE  call'[c] = NoCall /\ \A d \in Callers : d # c => call'[d] = call[d]
BY DEF Goto, TypeOK

\* A request that is gone has nothing to have prepared.
LEMMA GonePrepared ==
  ASSUME NEW c \in Callers, call'[c] = NoCall
  PROVE  Prepared(c)'
BY DEF Prepared, NoCall, After

\* Any step of a request on an item is one by a request that is there.
LEMMA CallStepThere ==
  ASSUME NEW c \in Callers, CallStep(c)
  PROVE  /\ call[c] # NoCall
         /\ UNCHANGED <<dpc, lead, target, relock, sweep, deaths, build>>
BY DEF CallStep, CompleteWrite, CompleteRelease, CompleteHeal, CompleteDone, AutoCheck,
       AutoClose, CompleteReload, CompleteUnblock, CompleteFinish, CompleteClose,
       ResetWrite, CallFrame, NoCall

LEMMA CallStepOthers ==
  ASSUME TypeOK, NEW c \in Callers, CallStep(c)
  PROVE  \A d \in Callers : d # c => call'[d] = call[d]
BY DEF CallStep, CompleteWrite, CompleteRelease, CompleteHeal, CompleteDone, AutoCheck,
       AutoClose, CompleteReload, CompleteUnblock, CompleteFinish, CompleteClose,
       ResetWrite, Goto, TypeOK

\* When every request on an item has ended or never began, only the leads and
\* the dispatches have to be looked at.
LEMMA NoCallsAlone ==
  ASSUME \A c \in Callers : call'[c] = NoCall
  PROVE  /\ \A c \in Callers : Prepared(c)'
         /\ (\A o \in LeadOp : lead[o] # "idle" => LeadOnly(o) /\ DispatchIdle)' => Alone'
<1>1. \A c \in Callers : Prepared(c)'
  BY GonePrepared
<1> QED  BY <1>1 DEF Alone

\* A step of the one request on an item keeps what it has prepared,
LEMMA CallPrepares ==
  ASSUME TypeOK, SerialInv, NEW c \in Callers, CallStep(c)
  PROVE  Prepared(c)'
<1>0. /\ Prepared(c)
      /\ call[c] # NoCall /\ call[c].item \in Item /\ call[c].todo \subseteq Item
      /\ call[c].pc \in CallPc /\ call[c].out \in Outcome \cup {"none"}
      /\ call[c].close \in BOOLEAN
      /\ call[c].out = "none" => call[c].pc \in {"check", "autoclose", "reset"}
  BY CallStepThere, CallRecord DEF SerialInv
<1>a. "none" \notin Outcome
  BY DEF Outcome
<1> USE DEF CallPc
<1>1. CASE CompleteWrite(c)
  <2>1. Goto(c, "release")
    BY <1>1 DEF CompleteWrite
  <2>2. istatus'[call[c].item] = call[c].out
    BY <1>0, <1>1 DEF CompleteWrite, TypeOK
  <2> QED  BY <1>0, <2>1, <2>2, GotoFields DEF Prepared, After
<1>2. CASE CompleteRelease(c)
  <2>1. call[c].pc = "release" /\ UNCHANGED <<istatus, gtd>>
    BY <1>2 DEF CompleteRelease
  <2>2. CASE call[c].out = "completed"
    <3>1. Goto(c, "done")
      BY <1>2, <2>2 DEF CompleteRelease
    <3> QED  BY <1>0, <2>1, <3>1, GotoFields DEF Prepared, After
  <2>3. CASE call[c].out # "completed"
    <3>1. Goto(c, "reload")
      BY <1>2, <2>3 DEF CompleteRelease
    <3> QED  BY <1>0, <2>1, <2>3, <3>1, GotoFields DEF Prepared, After
  <2> QED  BY <2>2, <2>3
<1>3. CASE CompleteHeal(c)
  <2>1. call[c].pc = "heal" /\ UNCHANGED <<istatus, gtd>>
    BY <1>3 DEF CompleteHeal
  <2>2. CASE call[c].out = "completed" /\ gtd[call[c].item] # "done"
    <3>1. Goto(c, "done")
      BY <1>3, <2>2 DEF CompleteHeal
    <3> QED  BY <1>0, <2>1, <3>1, GotoFields DEF Prepared, After
  <2>3. CASE ~(call[c].out = "completed" /\ gtd[call[c].item] # "done")
    <3>1. Goto(c, "reload")
      BY <1>3, <2>3 DEF CompleteHeal
    <3> QED  BY <1>0, <2>1, <2>3, <3>1, GotoFields DEF Prepared, After
  <2> QED  BY <2>2, <2>3
<1>4. CASE CompleteDone(c)
  <2>1. call[c].pc = "done" /\ Goto(c, "check") /\ istatus' = istatus
    BY <1>4 DEF CompleteDone
  <2>2. gtd'[call[c].item] = "done"
    BY <1>0, <1>4 DEF CompleteDone, TypeOK
  <2> QED  BY <1>0, <2>1, <2>2, GotoFields DEF Prepared, After
<1>5. CASE AutoCheck(c)
  <2>1. call[c].pc = "check" /\ UNCHANGED <<istatus, gtd>> /\ GtdTerminal' = GtdTerminal
    BY <1>5 DEF AutoCheck, GtdTerminal
  <2>2. CASE Goto(c, "autoclose") /\ GtdTerminal
    BY <1>0, <2>1, <2>2, GotoFields DEF Prepared, After
  <2>3. CASE Goto(c, "reload")
    BY <1>0, <2>1, <2>3, GotoFields DEF Prepared, After
  <2>4. CASE Goto(c, "idle")
    BY <2>4, GotoIdle, GonePrepared
  <2> QED  BY <1>5, <2>2, <2>3, <2>4 DEF AutoCheck, AfterCheck
<1>6. CASE AutoClose(c)
  <2>1. call[c].pc = "autoclose" /\ UNCHANGED <<istatus, gtd>>
    BY <1>6 DEF AutoClose
  <2>3. CASE Goto(c, "reload")
    BY <1>0, <2>1, <2>3, GotoFields DEF Prepared, After
  <2>4. CASE Goto(c, "idle")
    BY <2>4, GotoIdle, GonePrepared
  <2> QED  BY <1>6, <2>3, <2>4 DEF AutoClose, AfterCheck
<1>7. CASE CompleteReload(c)
  <2>1. call[c].pc = "reload" /\ UNCHANGED <<istatus, gtd>>
    BY <1>7 DEF CompleteReload
  <2>2. Reloaded(c) = istatus
    <3>1. istatus[call[c].item] = call[c].out
      BY <1>0, <1>a, <2>1 DEF Prepared, After
    <3>2. [istatus EXCEPT ![call[c].item] = call[c].out] = istatus
      BY <1>0, <3>1 DEF TypeOK
    <3> QED  BY <3>2 DEF Reloaded
  <2>3. call'[c] = [call[c] EXCEPT !.pc = "unblock",
                      !.todo = Unblocked(istatus, call[c].item), !.close = AllFinished(istatus)]
    BY <1>7, <2>2 DEF CompleteReload, TypeOK
  <2>4. /\ call'[c].pc = "unblock" /\ call'[c].item = call[c].item
        /\ call'[c].out = call[c].out
        /\ call'[c].todo = Unblocked(istatus, call[c].item)
        /\ call'[c].close = AllFinished(istatus)
    BY <1>0, <2>3, CallRecord DEF Call
  <2> QED  BY <1>0, <2>1, <2>4 DEF Prepared, After, Unblocked, AllFinished
<1>8. ASSUME NEW d \in Item, CompleteUnblock(c, d)
      PROVE  Prepared(c)'
  <2> DEFINE i == call[c].item
  <2>1. /\ call[c].pc = "unblock" /\ d \in call[c].todo /\ gtd' = gtd
        /\ istatus' = [istatus EXCEPT ![d] = IF istatus[d] = "pending" THEN "ready" ELSE istatus[d]]
    BY <1>8 DEF CompleteUnblock
  <2>2. call'[c] = [call[c] EXCEPT !.todo = call[c].todo \ {d}]
    BY <1>8 DEF CompleteUnblock, TypeOK
  <2>3. /\ call'[c].pc = "unblock" /\ call'[c].item = i /\ call'[c].out = call[c].out
        /\ call'[c].todo = call[c].todo \ {d} /\ call'[c].close = call[c].close
    BY <1>0, <2>1, <2>2, CallRecord DEF Call
  <2>4. istatus[i] = call[c].out /\ istatus[i] \in Outcome
    BY <1>0, <1>a, <2>1 DEF Prepared, After
  <2>5. istatus'[i] = call[c].out
    BY <1>0, <2>1, <2>4 DEF TypeOK, Outcome
  <2>6. \A p \in Item : istatus'[p] \in Outcome <=> istatus[p] \in Outcome
    BY <2>1 DEF TypeOK, Outcome
  <2>7. \A p \in Item : istatus'[p] = "pending" => istatus[p] = "pending" /\ p # d
    BY <2>1 DEF TypeOK
  <2>8. Unblocked(istatus', i) \subseteq Unblocked(istatus, i) \ {d}
    BY <2>6, <2>7 DEF Unblocked, Preds
  <2>9. AllFinished(istatus') <=> AllFinished(istatus)
    BY <2>1 DEF TypeOK, AllFinished, Finished
  <2>10. Unblocked(istatus, i) \subseteq call[c].todo /\ (call[c].close <=> AllFinished(istatus))
    BY <1>0, <2>1 DEF Prepared
  <2> QED  BY <1>0, <2>1, <2>3, <2>5, <2>8, <2>9, <2>10
           DEF Prepared, After, Unblocked, AllFinished
<1>9. CASE CompleteFinish(c)
  <2>1. call[c].pc = "unblock" /\ UNCHANGED <<istatus, gtd>> /\ call[c].todo = {}
    BY <1>9 DEF CompleteFinish
  <2>2. CASE Goto(c, "close") /\ call[c].close
    BY <1>0, <2>1, <2>2, GotoFields DEF Prepared, After, Unblocked, AllFinished
  <2>3. CASE Goto(c, "idle")
    BY <2>3, GotoIdle, GonePrepared
  <2> QED  BY <1>9, <2>2, <2>3 DEF CompleteFinish
<1>10. CASE CompleteClose(c) \/ ResetWrite(c)
  BY <1>10, GotoIdle, GonePrepared DEF CompleteClose, ResetWrite
<1> QED  BY <1>1, <1>2, <1>3, <1>4, <1>5, <1>6, <1>7, <1>8, <1>9, <1>10 DEF CallStep

\* and the rest of the invariant with it.
LEMMA CallSerial ==
  ASSUME TypeOK, SerialInv, NEW c \in Callers, CallStep(c)
  PROVE  SerialInv'
<1>0. /\ Prepared(c) /\ Alone /\ Targets /\ Closed
      /\ call[c] # NoCall /\ call[c].item \in Item
      /\ call[c].pc \in CallPc /\ call[c].out \in Outcome \cup {"none"}
      /\ UNCHANGED <<dpc, lead, target>>
  BY CallStepThere, CallRecord DEF SerialInv
<1>1. \A d \in Callers : d # c => call[d] = NoCall /\ call'[d] = NoCall
  BY <1>0, CallStepOthers DEF Alone
<1>2. /\ DispatchIdle /\ LeadOnly("resume") /\ lead["resume"] \in {"idle", "sweep"}
      /\ \A i \in Item : target[i] = "keep"
  BY <1>0 DEF Alone, Targets
<1>3. Alone'
  BY <1>0, <1>1 DEF Alone, DispatchIdle, LeadOnly
<1>4. Targets'
  BY <1>0, <1>2 DEF Targets
<1>5. \A d \in Callers : Prepared(d)'
  BY <1>1, CallPrepares, GonePrepared
<1>6. ASSUME rstatus' = "completed"
      PROVE  (AllFinished(istatus) \/ GtdTerminal)'
  <2>1. CASE CompleteClose(c)
    BY <1>0, <2>1 DEF CompleteClose, Prepared
  <2>2. CASE AutoClose(c)
    BY <1>0, <2>2 DEF AutoClose, Prepared, GtdTerminal
  <2>3. CASE ~CompleteClose(c) /\ ~AutoClose(c)
    <3>0. rstatus' = rstatus
      BY <2>3 DEF CallStep, CompleteWrite, CompleteRelease, CompleteHeal, CompleteDone,
         AutoCheck, CompleteReload, CompleteUnblock, CompleteFinish, ResetWrite
    <3>1. AllFinished(istatus) \/ GtdTerminal
      BY <1>0, <1>6, <3>0 DEF Closed
    <3>2. CASE CompleteWrite(c)
      <4>1. GtdTerminal
        BY <1>0, <3>1, <3>2 DEF CompleteWrite, Prepared, AllFinished, Finished
      <4> QED  BY <1>0, <3>2, <4>1 DEF CompleteWrite, Prepared, GtdTerminal, TypeOK
    <3>3. CASE CompleteDone(c)
      BY <1>0, <3>1, <3>3 DEF CompleteDone, AllFinished, GtdTerminal, TypeOK
    <3>4. ASSUME NEW d \in Item, CompleteUnblock(c, d) \/ ResetWrite(c)
          PROVE  (AllFinished(istatus) \/ GtdTerminal)'
      BY <1>0, <3>1, <3>4
      DEF CompleteUnblock, ResetWrite, AllFinished, Finished, GtdTerminal, TypeOK
    <3>5. CASE UNCHANGED <<istatus, gtd>>
      BY <3>1, <3>5 DEF AllFinished, GtdTerminal
    <3> QED
      BY <1>0, <2>3, <3>2, <3>3, <3>4, <3>5 DEF CallStep, CompleteRelease, CompleteHeal,
         AutoCheck, CompleteReload, CompleteFinish
  <2> QED  BY <2>1, <2>2, <2>3
<1>7. Closed'
  BY <1>0, <1>2, <1>6 DEF Closed, DispatchIdle, LeadOnly
<1> QED  BY <1>3, <1>4, <1>5, <1>7 DEF SerialInv

\* A request begins only when no other is being served.
LEMMA QuietMeans ==
  ASSUME TypeOK, Quiet
  PROVE  /\ \A c \in Callers : call[c] = NoCall
         /\ DispatchIdle /\ \A o \in LeadOp : lead[o] = "idle"
<1>1. ASSUME NEW c \in Callers
      PROVE  call[c] = NoCall
  <2>1. call[c].pc = "idle"
    BY DEF Quiet
  <2>2. call[c] \in Call => call[c].pc \in CallPc
    BY DEF Call
  <2> QED  BY <2>1, <2>2 DEF TypeOK, CallPc
<1> QED  BY <1>1 DEF Quiet, DispatchIdle

\* A request on the whole rollout that begins,
LEMMA LeadBegins ==
  ASSUME TypeOK, SerialInv, Quiet, NEW o \in LeadOp, NEW pc \in LeadPc, Step(o, "idle", pc),
         rstatus' # "completed", UNCHANGED <<istatus, gtd, call, target, dpc>>
  PROVE  SerialInv'
<1>0. /\ \A c \in Callers : call[c] = NoCall
      /\ DispatchIdle /\ \A n \in LeadOp : lead[n] = "idle"
  BY QuietMeans
<1>1. \A i \in Item : target[i] = "keep"
  BY <1>0 DEF SerialInv, Targets, LeadOp
<1>2. \A n \in LeadOp : n # o => lead'[n] = "idle"
  BY <1>0 DEF Step, TypeOK
<1>3. (\A n \in LeadOp : lead[n] # "idle" => LeadOnly(n) /\ DispatchIdle)'
  BY <1>0, <1>2 DEF LeadOnly, DispatchIdle
<1> QED  BY <1>0, <1>1, <1>3, NoCallsAlone DEF SerialInv, Targets, Closed

\* a dispatch that begins,
LEMMA DispatchBegins ==
  ASSUME TypeOK, SerialInv, Quiet, NEW i \in Item, DispatchCheck(i)
  PROVE  SerialInv'
<1>0. /\ \A c \in Callers : call[c] = NoCall
      /\ \A n \in LeadOp : lead[n] = "idle"
  BY QuietMeans
<1>1. UNCHANGED <<rstatus, istatus, gtd, call, lead, target>> /\ rstatus = "running"
  BY DEF DispatchCheck, DispatchFrame
<1> QED  BY <1>0, <1>1, NoCallsAlone DEF SerialInv, Targets, Closed

\* and a request on an item that begins find the rollout as they were promised.
LEMMA CallBegins ==
  ASSUME TypeOK, SerialInv, NEW c \in Callers, NEW k \in Call,
         k.pc \in {"write", "heal", "check", "reset"},
         k.pc \in {"check", "reset"} => k.out = "none",
         k.pc = "write" => istatus[k.item] \in {"ready", "dispatched", "halted"},
         k.pc = "heal" => istatus[k.item] = k.out,
         call' = [call EXCEPT ![c] = k],
         \A d \in Callers : call[d] = NoCall,
         DispatchIdle, LeadOnly("resume"), lead["resume"] = IF c = Sweep THEN "sweep" ELSE "idle",
         UNCHANGED <<rstatus, istatus, lead, dpc, target>>,
         gtd' = gtd \/ \E i \in Item, s \in {"done", "cancelled"} : gtd' = [gtd EXCEPT ![i] = s]
  PROVE  SerialInv'
<1>1. call'[c] = k /\ \A d \in Callers : d # c => call'[d] = NoCall
  BY DEF TypeOK
<1>2. Prepared(c)'
  BY <1>1 DEF Prepared, After
<1>3. \A d \in Callers : Prepared(d)'
  BY <1>1, <1>2, GonePrepared
<1>4. Alone'
  BY <1>1 DEF SerialInv, Alone, LeadOnly, DispatchIdle
<1>5. GtdTerminal => GtdTerminal'
  BY DEF GtdTerminal, TypeOK
<1>6. Closed'
  BY <1>5 DEF SerialInv, Closed, DispatchIdle, LeadOnly, AllFinished
<1> QED  BY <1>3, <1>4, <1>6 DEF SerialInv, Targets

LEMMA CompleteBegins ==
  ASSUME TypeOK, SerialInv, NEW c \in Callers, NEW i \in Item, NEW out \in Outcome,
         BeginComplete(c, i, out), \A d \in Callers : call[d] = NoCall,
         DispatchIdle, LeadOnly("resume"), lead["resume"] = IF c = Sweep THEN "sweep" ELSE "idle",
         UNCHANGED <<rstatus, istatus, gtd, lead, dpc, target>>
  PROVE  SerialInv'
<1> DEFINE k == NewCall(Accepted(i, out), i, out)
<1>1. /\ Accepted(i, out) \in {"write", "heal"}
      /\ Accepted(i, out) = "heal" => istatus[i] = out
      /\ Accepted(i, out) = "write" => istatus[i] \in {"ready", "dispatched", "halted"}
  BY DEF BeginComplete, Accepted
<1>2. k \in Call /\ k.pc = Accepted(i, out) /\ k.item = i /\ k.out = out
  BY <1>1 DEF NewCall, TypeOK, Call, CallPc, Outcome
<1>3. call' = [call EXCEPT ![c] = k]
  BY DEF BeginComplete
<1> HIDE DEF k
<1> QED  BY <1>1, <1>2, <1>3, CallBegins

LEMMA RequestsSerial ==
  ASSUME ~Overlap, TypeOK, SerialInv, Requests
  PROVE  SerialInv'
<1>0. Quiet /\ \A c \in Callers : call[c] = NoCall
      /\ DispatchIdle /\ \A o \in LeadOp : lead[o] = "idle"
  <2>1. Quiet
    BY DEF Requests, PlanBegin, StartRead, HaltRead, CancelRead, ResumeRead, DispatchCheck,
           ResetRead, CompleteRead, UserCloses, Begin
  <2> QED  BY <2>1, QuietMeans
<1>1. CASE PlanBegin \/ StartRead \/ HaltRead \/ CancelRead \/ ResumeRead
  <2> USE DEF LeadOp, LeadPc
  <2>1. CASE PlanBegin
    BY <1>0, <2>1, LeadBegins DEF PlanBegin, PlanFrame
  <2>2. CASE StartRead
    BY <1>0, <2>2, LeadBegins DEF StartRead, PlanFrame
  <2>3. CASE HaltRead
    BY <1>0, <2>3, LeadBegins DEF HaltRead, StopFrame
  <2>4. CASE CancelRead
    BY <1>0, <2>4, LeadBegins DEF CancelRead, StopFrame
  <2>5. CASE ResumeRead
    BY <1>0, <2>5, LeadBegins DEF ResumeRead, ResumeFrame
  <2> QED  BY <1>1, <2>1, <2>2, <2>3, <2>4, <2>5
<1>2. ASSUME NEW i \in Item, DispatchCheck(i)
      PROVE  SerialInv'
  BY <1>0, <1>2, DispatchBegins
<1>3. ASSUME NEW c \in Caller, NEW i \in Item,
             \/ ResetRead(c, i)
             \/ \E out \in Outcome : CompleteRead(c, i, out)
             \/ \E s \in {"done", "cancelled"} : UserCloses(c, i, s)
      PROVE  SerialInv'
  <2>0. /\ c \in Callers /\ c # Sweep
        /\ LeadOnly("resume") /\ lead["resume"] = IF c = Sweep THEN "sweep" ELSE "idle"
    BY <1>0, RolloutAssumption DEF Callers, LeadOnly, LeadOp
  <2>1. CASE ResetRead(c, i)
    <3>1. /\ NewCall("reset", i, "none") \in Call
          /\ NewCall("reset", i, "none").pc = "reset"
          /\ NewCall("reset", i, "none").out = "none"
      BY DEF NewCall, TypeOK, Call, CallPc
    <3> QED  BY <1>0, <2>0, <2>1, <3>1, CallBegins DEF ResetRead, CallFrame
  <2>2. ASSUME NEW out \in Outcome, CompleteRead(c, i, out)
        PROVE  SerialInv'
    BY <1>0, <2>0, <2>2, CompleteBegins DEF CompleteRead, CallFrame
  <2>3. ASSUME NEW s \in {"done", "cancelled"}, UserCloses(c, i, s)
        PROVE  SerialInv'
    <3>1. /\ NewCall("check", i, "none") \in Call
          /\ NewCall("check", i, "none").pc = "check"
          /\ NewCall("check", i, "none").out = "none"
      BY DEF NewCall, TypeOK, Call, CallPc
    <3> QED  BY <1>0, <2>0, <2>3, <3>1, CallBegins DEF UserCloses, CallFrame
  <2> QED  BY <1>3, <2>1, <2>2, <2>3
<1> QED  BY <1>1, <1>2, <1>3 DEF Requests

\* The request on the whole rollout that is being served goes on or ends: no
\* other is there, and it may not touch a completed rollout unless it sweeps.
LEMMA LeadGoes ==
  ASSUME TypeOK, SerialInv, NEW o \in LeadOp, lead[o] # "idle", NEW pc \in LeadPc,
         lead' = [lead EXCEPT ![o] = pc], \A c \in Callers : call'[c] = NoCall,
         UNCHANGED <<dpc, gtd>>, Targets',
         rstatus' = "completed" => /\ rstatus = "completed" /\ istatus' = istatus
                                   /\ o = "resume" => pc \in {"idle", "sweep"}
  PROVE  SerialInv'
<1>0. LeadOnly(o) /\ DispatchIdle
  BY DEF SerialInv, Alone
<1>1. \A n \in LeadOp : n # o => lead'[n] = "idle"
  BY <1>0 DEF LeadOnly, TypeOK
<1>2. lead'[o] = pc
  BY DEF TypeOK
<1>3. (\A n \in LeadOp : lead[n] # "idle" => LeadOnly(n) /\ DispatchIdle)'
  BY <1>0, <1>1 DEF LeadOnly, DispatchIdle
<1>4. Closed'
  <2> SUFFICES ASSUME rstatus' = "completed"
               PROVE  /\ (AllFinished(istatus) \/ GtdTerminal)' /\ DispatchIdle'
                      /\ LeadOnly("resume")' /\ lead'["resume"] \in {"idle", "sweep"}
    BY DEF Closed
  <2>1. o = "resume"
    BY DEF SerialInv, Closed, LeadOnly
  <2> QED  BY <1>0, <1>1, <1>2, <2>1
           DEF SerialInv, Closed, LeadOnly, DispatchIdle, AllFinished, GtdTerminal
<1> QED  BY <1>3, <1>4, NoCallsAlone DEF SerialInv

\* While a request on the whole rollout other than the sweep is served, no
\* request on an item is.
LEMMA LeadAlone ==
  ASSUME SerialInv, NEW o \in LeadOp, lead[o] # "idle",
         o # "resume" \/ lead[o] # "sweep" \/ call[Sweep] = NoCall
  PROVE  /\ \A c \in Callers : call[c] = NoCall
         /\ \A i \in Item : target[i] # "keep" => o = "resume" /\ lead[o] = "restore"
BY DEF SerialInv, Alone, Targets, LeadOnly, LeadOp

LEMMA PlanSerial ==
  ASSUME TypeOK, SerialInv, PlanStep \/ StartWrite
  PROVE  SerialInv'
<1> USE DEF LeadOp, LeadPc, PlanFrame
<1>1. ASSUME NEW o \in {"plan", "start"}, lead[o] # "idle"
      PROVE  /\ \A c \in Callers : call[c] = NoCall
             /\ \A i \in Item : target[i] = "keep"
  BY <1>1, LeadAlone
<1>2. CASE PlanFails \/ PlanDone
  <2>1. lead["plan"] # "idle" /\ lead' = [lead EXCEPT !["plan"] = "idle"]
    BY <1>2 DEF PlanFails, PlanDone, Step
  <2> QED  BY <1>1, <1>2, <2>1, LeadGoes DEF PlanFails, PlanDone, Targets
<1>3. ASSUME NEW i \in Item, PlanItem(i)
      PROVE  SerialInv'
  <2>1. lead["plan"] # "idle" /\ lead' = [lead EXCEPT !["plan"] = lead["plan"]]
    BY <1>3 DEF PlanItem, TypeOK
  <2>2. rstatus # "completed"
    BY <2>1 DEF SerialInv, Closed, LeadOnly
  <2> QED  BY <1>1, <1>3, <2>1, <2>2, LeadGoes DEF PlanItem, Targets, TypeOK
<1>4. CASE StartWrite
  <2>1. lead["start"] # "idle" /\ lead' = [lead EXCEPT !["start"] = "idle"]
    BY <1>4 DEF StartWrite, Step
  <2> QED  BY <1>1, <1>4, <2>1, LeadGoes DEF StartWrite, Targets
<1> QED  BY <1>2, <1>3, <1>4 DEF PlanStep

LEMMA StopSerial ==
  ASSUME TypeOK, SerialInv, StopStep
  PROVE  SerialInv'
<1> USE DEF LeadOp, LeadPc, StopFrame
<1>1. PICK o \in {"halt", "cancel"}, pc \in LeadPc :
        lead[o] # "idle" /\ lead' = [lead EXCEPT ![o] = pc]
  BY DEF StopStep, StopStatus, HaltItems, CancelItems, StopRuns, StopLocks, Step
<1>2. /\ \A c \in Callers : call[c] = NoCall
      /\ \A i \in Item : target[i] = "keep"
  BY <1>1, LeadAlone
<1>3. rstatus # "completed"
  BY <1>1 DEF SerialInv, Closed, LeadOnly
<1>4. /\ UNCHANGED <<gtd, dpc, call, target>>
      /\ rstatus' \in {rstatus, "halted", "cancelled"}
  BY DEF StopStep, StopStatus, HaltItems, CancelItems, StopRuns, StopLocks
<1> QED  BY <1>1, <1>2, <1>3, <1>4, LeadGoes DEF Targets

LEMMA ResumeSerial ==
  ASSUME TypeOK, SerialInv, ResumeStep
  PROVE  SerialInv'
<1> USE DEF LeadOp, LeadPc, ResumeFrame
<1>0. rstatus = "completed" => lead["resume"] \in {"idle", "sweep"}
  BY DEF SerialInv, Closed
<1>1. CASE ResumeSnapshot
  <2>1. lead["resume"] = "snapshot" /\ lead' = [lead EXCEPT !["resume"] = "restore"]
    BY <1>1 DEF ResumeSnapshot, Step
  <2>2. \A c \in Callers : call[c] = NoCall
    BY <2>1, LeadAlone
  <2>3. Targets'
    <3>1. \A i \in Item : target'[i] # "keep" => istatus[i] = "halted"
      BY <1>1 DEF ResumeSnapshot, ResumeTarget
    <3> QED  BY <1>1, <2>1, <3>1 DEF Targets, ResumeSnapshot, TypeOK
  <2> QED  BY <1>0, <1>1, <2>1, <2>2, <2>3, LeadGoes DEF ResumeSnapshot
<1>2. CASE ResumeLock
  <2>1. lead["resume"] = "restore" /\ lead' = [lead EXCEPT !["resume"] = "status"]
    BY <1>2 DEF ResumeLock, Step
  <2>2. \A c \in Callers : call[c] = NoCall
    BY <2>1, LeadAlone
  <2> QED  BY <1>0, <1>2, <2>1, <2>2, LeadGoes DEF ResumeLock, Targets
<1>3. CASE ResumeStatus
  <2>1. lead["resume"] = "status" /\ lead' = [lead EXCEPT !["resume"] = "sweep"]
    BY <1>3 DEF ResumeStatus, Step
  <2>2. \A c \in Callers : call[c] = NoCall
    BY <2>1, LeadAlone
  <2>3. \A i \in Item : target[i] = "keep"
    BY <2>1, LeadAlone
  <2> QED  BY <1>3, <2>1, <2>2, <2>3, LeadGoes DEF ResumeStatus, Targets
<1>4. CASE SweepSelect
  <2>1. PICK pc \in {"idle", "sweep"} :
          lead["resume"] = "sweep" /\ lead' = [lead EXCEPT !["resume"] = pc]
    BY <1>4 DEF SweepSelect, Step
  <2>2. (\A c \in Callers : call[c] = NoCall) /\ \A i \in Item : target[i] = "keep"
    BY <1>4, <2>1, LeadAlone DEF SweepSelect
  <2> QED  BY <1>4, <2>1, <2>2, LeadGoes DEF SweepSelect, Targets
<1>5. ASSUME NEW i \in Item, ResumeItem(i)
      PROVE  SerialInv'
  <2>1. lead["resume"] = "restore" /\ lead' = [lead EXCEPT !["resume"] = "restore"]
    BY <1>5 DEF ResumeItem, TypeOK
  <2>2. \A c \in Callers : call[c] = NoCall
    BY <2>1, LeadAlone
  <2>3. Targets'
    BY <1>5 DEF ResumeItem, Targets, SerialInv, TypeOK
  <2> QED  BY <1>0, <1>5, <2>1, <2>2, <2>3, LeadGoes DEF ResumeItem
<1>6. ASSUME NEW i \in Item, SweepCall(i)
      PROVE  SerialInv'
  <2>1. lead["resume"] = "sweep" /\ call[Sweep] = NoCall
    BY <1>6 DEF SweepCall
  <2>2. (\A c \in Callers : call[c] = NoCall) /\ \A j \in Item : target[j] = "keep"
    BY <2>1, LeadAlone
  <2>3. CASE BeginComplete(Sweep, i, "completed") /\ UNCHANGED lead
    <3>1. LeadOnly("resume") /\ DispatchIdle /\ Sweep \in Callers /\ "completed" \in Outcome
      BY <2>1 DEF SerialInv, Alone, Callers, Outcome
    <3> QED  BY <1>6, <2>1, <2>2, <2>3, <3>1, CompleteBegins DEF SweepCall
  <2>4. CASE lead' = [lead EXCEPT !["resume"] = "idle"] /\ call' = call
    BY <1>6, <2>1, <2>2, <2>4, LeadGoes DEF SweepCall, Targets
  <2> QED  BY <1>6, <2>3, <2>4 DEF SweepCall, Step
<1> QED  BY <1>1, <1>2, <1>3, <1>4, <1>5, <1>6 DEF ResumeStep

LEMMA DispatchSerial ==
  ASSUME TypeOK, SerialInv, NEW i \in Item, DispatchStep(i) \/ BuildMoves(i)
  PROVE  SerialInv'
<1>1. CASE BuildMoves(i)
  BY <1>1 DEF BuildMoves, DispatchFrame, SerialInv, Alone, Targets, Prepared, Closed, LeadOnly,
              DispatchIdle, Unblocked, AllFinished, GtdTerminal, After
<1>2. CASE DispatchStep(i)
  <2>1. dpc[i] # "idle"
    BY <1>2 DEF DispatchStep, DispatchInsert, DispatchLink, DispatchActive
  <2>2. \A c \in Callers : call[c] = NoCall
    BY <2>1 DEF SerialInv, Alone, DispatchIdle
  <2>3. /\ \A o \in LeadOp : lead[o] = "idle"
        /\ rstatus # "completed"
    BY <2>1 DEF SerialInv, Alone, Closed, DispatchIdle
  <2>4. UNCHANGED <<rstatus, call, lead, target>>
    BY <1>2 DEF DispatchStep, DispatchInsert, DispatchLink, DispatchActive, DispatchFrame
  <2>5. \A j \in Item : target[j] = "keep"
    BY <2>3 DEF SerialInv, Targets, LeadOp
  <2> QED  BY <2>2, <2>3, <2>4, <2>5, NoCallsAlone DEF SerialInv, Targets, Closed
<1> QED  BY <1>1, <1>2

LEMMA DeathsSerial ==
  ASSUME TypeOK, SerialInv, Deaths
  PROVE  SerialInv'
<1> USE DEF LeadOp, LeadPc
<1>1. ASSUME NEW c \in Callers, CallDies(c)
      PROVE  SerialInv'
  <2>1. \A d \in Callers : call'[d] = NoCall
    BY <1>1, GotoIdle DEF CallDies, SerialInv, Alone
  <2>2. CASE c = Sweep
    <3>1. \A i \in Item : target'[i] = "keep"
      BY <1>1, <2>2 DEF CallDies, EndResume
    <3>2. lead["resume"] # "idle" /\ lead' = [lead EXCEPT !["resume"] = "idle"]
      BY <1>1, <2>2 DEF CallDies, SerialInv, Alone
    <3> QED  BY <1>1, <2>1, <3>1, <3>2, LeadGoes DEF CallDies, Targets
  <2>3. CASE c # Sweep
    BY <1>1, <2>1, <2>3, NoCallsAlone
    DEF CallDies, SerialInv, Alone, Targets, Closed, LeadOnly, DispatchIdle, AllFinished,
        GtdTerminal
  <2> QED  BY <2>2, <2>3
<1>2. ASSUME NEW c \in Callers, CheckFails(c)
      PROVE  SerialInv'
  <2>1. call[c] # NoCall /\ UNCHANGED <<rstatus, istatus, gtd, dpc, lead, target>>
    BY <1>2 DEF CheckFails, NoCall
  <2>2. \A d \in Callers : d # c => call'[d] = NoCall
    BY <1>2, <2>1 DEF CheckFails, Goto, TypeOK, SerialInv, Alone
  <2>3. Prepared(c)'
    <3>1. CASE Goto(c, "idle")
      BY <3>1, GotoIdle, GonePrepared
    <3>2. CASE Goto(c, "reload")
      BY <1>2, <2>1, <3>2, GotoFields DEF CheckFails, SerialInv, Prepared, After
    <3> QED  BY <1>2, <3>1, <3>2 DEF CheckFails, AfterCheck
  <2>4. \A d \in Callers : Prepared(d)'
    BY <2>2, <2>3, GonePrepared
  <2>5. Alone'
    BY <2>1, <2>2 DEF SerialInv, Alone, LeadOnly, DispatchIdle
  <2> QED  BY <2>1, <2>4, <2>5 DEF SerialInv, Targets, Closed, LeadOnly, DispatchIdle,
                                    AllFinished, GtdTerminal
<1>3. ASSUME NEW o \in LeadOp, LeadDies(o)
      PROVE  SerialInv'
  <2>1. (\A c \in Callers : call[c] = NoCall) /\ \A i \in Item : target'[i] = "keep"
    BY <1>3, LeadAlone DEF LeadDies, EndResume
  <2> QED  BY <1>3, <2>1, LeadGoes DEF LeadDies, Targets
<1>4. ASSUME NEW i \in Item, DispatchDies(i)
      PROVE  SerialInv'
  <2>1. \A c \in Callers : call[c] = NoCall
    BY <1>4 DEF DispatchDies, SerialInv, Alone, DispatchIdle
  <2>2. /\ \A o \in LeadOp : lead[o] = "idle"
        /\ rstatus # "completed"
    BY <1>4 DEF DispatchDies, SerialInv, Alone, Closed, DispatchIdle
  <2>3. UNCHANGED <<rstatus, istatus, gtd, call, lead, target>>
    BY <1>4 DEF DispatchDies
  <2> QED  BY <2>1, <2>2, <2>3, NoCallsAlone DEF SerialInv, Targets, Closed
<1> QED  BY <1>1, <1>2, <1>3, <1>4 DEF Deaths

\* The inductive invariant of requests served one at a time, whichever of them
\* stop half-way.
THEOREM SerialInductive ==
  ASSUME ~Overlap
  PROVE  Spec => []SerialInv
<1>1. Init => SerialInv
  BY DEF Init, SerialInv, Alone, Targets, Prepared, Closed, NoCall, After, LeadOnly,
         DispatchIdle, LeadOp
<1>2. TypeOK /\ SerialInv /\ [Next]_vars => SerialInv'
  <2> SUFFICES ASSUME TypeOK, SerialInv, [Next]_vars
               PROVE  SerialInv'
    OBVIOUS
  <2>1. CASE UNCHANGED vars
    BY <2>1 DEF vars, SerialInv, Alone, Targets, Prepared, Closed, LeadOnly, DispatchIdle,
                Unblocked, AllFinished, GtdTerminal, After
  <2> QED
    BY <2>1, RequestsSerial, PlanSerial, StopSerial, ResumeSerial, DispatchSerial, CallSerial,
       DeathsSerial
    DEF Next
<1> QED  BY <1>1, <1>2, RolloutTypeCorrect, PTL DEF Spec

\* Only its last step ends a request on an item that does not stop half-way.
LEMMA EndsByItself ==
  ASSUME TypeOK, [Next]_vars, NEW c \in Callers, call[c] # NoCall, call'[c] = NoCall,
         deaths' = deaths
  PROVE  CallStep(c)
<1>1. CASE call'[c] = call[c]
  BY <1>1
<1>2. ASSUME NEW d \in Callers, CallStep(d)
      PROVE  CallStep(c)
  BY <1>2, CallStepOthers
<1>3. CASE Requests
  <2>1. call' = call \/ \E d \in Callers : call[d] = NoCall /\ \E k : call' = [call EXCEPT ![d] = k]
    BY <1>3
    DEF Requests, PlanBegin, StartRead, HaltRead, CancelRead, ResumeRead, DispatchCheck,
        ResetRead, CompleteRead, BeginComplete, UserCloses, PlanFrame, StopFrame,
        DispatchFrame, Callers
  <2> QED  BY <1>1, <2>1 DEF TypeOK
<1>4. CASE PlanStep \/ StartWrite \/ StopStep
  BY <1>1, <1>4
  DEF PlanStep, PlanFails, PlanItem, PlanDone, StartWrite, StopStep, StopStatus,
      HaltItems, CancelItems, StopRuns, StopLocks, PlanFrame, StopFrame
<1>5. CASE ResumeStep
  <2>1. call' = call \/ \E k : call[Sweep] = NoCall /\ call' = [call EXCEPT ![Sweep] = k]
    BY <1>5
    DEF ResumeStep, ResumeSnapshot, ResumeLock, ResumeStatus, SweepSelect, ResumeItem,
        SweepCall, BeginComplete
  <2> QED  BY <1>1, <2>1 DEF TypeOK
<1>6. ASSUME NEW i \in Item, DispatchStep(i) \/ BuildMoves(i)
      PROVE  CallStep(c)
  BY <1>1, <1>6
  DEF DispatchStep, DispatchInsert, DispatchLink, DispatchActive, BuildMoves, DispatchFrame
<1>7. CASE Deaths
  <2>1. deaths' = deaths + 1 /\ deaths \in Nat
    BY <1>7, RolloutAssumption
       DEF Deaths, CallDies, CheckFails, LeadDies, DispatchDies, Death, TypeOK
  <2> QED  BY <2>1
<1>8. CASE UNCHANGED vars
  BY <1>1, <1>8 DEF vars
<1> QED  BY <1>2, <1>3, <1>4, <1>5, <1>6, <1>7, <1>8 DEF Next

\* A repeated completion that runs to its end leaves nothing undone.
THEOREM HealCorrect ==
  ASSUME ~Overlap
  PROVE  Spec => HealRepairs
<1> DEFINE Ends(c, i) == /\ call[c] # NoCall /\ call[c].item = i /\ call[c].out # "none"
                         /\ call'[c] = NoCall /\ deaths' = deaths
<1>1. TypeOK /\ SerialInv /\ [Next]_vars
      => \A c \in Callers, i \in Item : Ends(c, i) => Repaired(i)'
  <2> SUFFICES ASSUME TypeOK, SerialInv, [Next]_vars, NEW c \in Callers, NEW i \in Item,
                      Ends(c, i)
               PROVE  Repaired(i)'
    OBVIOUS
  <2>0. Prepared(c) /\ CallStep(c)
    BY EndsByItself DEF SerialInv
  <2>1. ASSUME NEW pc, pc # "idle", Goto(c, pc)
        PROVE  FALSE
    BY <2>1, GotoFields DEF NoCall
  <2>2. CASE CompleteFinish(c)
    <3>1. /\ call[c].pc = "unblock" /\ call[c].todo = {}
          /\ UNCHANGED <<rstatus, istatus, gtd>>
          /\ call[c].close => rstatus = "completed"
      BY <2>1, <2>2 DEF CompleteFinish
    <3>2. /\ istatus[i] = "completed" => gtd[i] = "done"
          /\ Unblocked(istatus, i) = {}
          /\ AllFinished(istatus) => rstatus = "completed"
      BY <2>0, <3>1 DEF Prepared, After
    <3> QED  BY <3>1, <3>2 DEF Repaired, Unblocked, AllFinished
  <2>3. CASE CompleteClose(c)
    <3>1. /\ call[c].pc = "close" /\ rstatus' = "completed" /\ UNCHANGED <<istatus, gtd>>
      BY <2>3 DEF CompleteClose
    <3>2. /\ istatus[i] = "completed" => gtd[i] = "done"
          /\ Unblocked(istatus, i) = {}
      BY <2>0, <3>1 DEF Prepared, After
    <3> QED  BY <3>1, <3>2 DEF Repaired, Unblocked
  <2>4. CASE ResetWrite(c)
    BY <2>0, <2>4 DEF ResetWrite, Prepared
  <2>5. CASE CompleteWrite(c) \/ CompleteRelease(c) \/ CompleteHeal(c) \/ CompleteDone(c)
    BY <2>1, <2>5 DEF CompleteWrite, CompleteRelease, CompleteHeal, CompleteDone
  <2>6. CASE AutoCheck(c) \/ AutoClose(c)
    BY <2>1, <2>6 DEF AutoCheck, AutoClose, AfterCheck
  <2>7. ASSUME NEW d \in Item, CompleteReload(c) \/ CompleteUnblock(c, d)
        PROVE  FALSE
    <3>1. call[c] \in Call
      BY CallRecord
    <3>2. CASE CompleteReload(c)
      <4>1. PICK todo, close :
              call'[c] = [call[c] EXCEPT !.pc = "unblock", !.todo = todo, !.close = close]
        BY <3>2 DEF CompleteReload, TypeOK
      <4> QED  BY <3>1, <4>1 DEF NoCall, Call
    <3>3. CASE CompleteUnblock(c, d)
      <4>1. PICK todo : call'[c] = [call[c] EXCEPT !.todo = todo]
        BY <3>3 DEF CompleteUnblock, TypeOK
      <4>2. call[c].pc = "unblock"
        BY <3>3 DEF CompleteUnblock
      <4> QED  BY <3>1, <4>1, <4>2 DEF NoCall, Call
    <3> QED  BY <2>7, <3>2, <3>3
  <2> QED  BY <2>0, <2>2, <2>3, <2>4, <2>5, <2>6, <2>7 DEF CallStep
<1> QED  BY <1>1, RolloutTypeCorrect, SerialInductive, PTL DEF Spec, HealRepairs
-----------------------------------------------------------------------------
(* Requests that overlap: what a halt, a cancel or the last completion leaves *)

\* What the overlapping requests of a rollout rely on: none stops half-way, and
\* the lead plans and starts a rollout between completions.
Undisturbed == MaxDeaths = 0 /\ ~Early

\* Nothing is left to do, or a request will still see to it: a halt or a cancel
\* that has written its status, or a plan that has yet to write its own.
NoLive == \A i \in Item : istatus[i] \notin Live
Stopping ==
  rstatus \in {"halted", "cancelled", "completed"} =>
    NoLive \/ lead["halt"] = "items" \/ lead["cancel"] = "items" \/ lead["plan"] = "derive"

\* Completions come after the plan, and close what is finished.
Unplanned == rstatus = "none" => lead["plan"] = "idle" /\ \A i \in Item : istatus[i] = "absent"
Completing(c) == call[c] # NoCall /\ call[c].out # "none"
ClosesQuiet(c) ==
  Completing(c) =>
    /\ lead["plan"] = "idle" /\ rstatus # "none"
    /\ (call[c].pc = "unblock" /\ call[c].close) \/ call[c].pc = "close" => NoLive

StopInv == Stopping /\ Unplanned /\ \A c \in Callers : ClosesQuiet(c)

\* Without deaths nothing stops half-way.
LEMMA NoDeaths ==
  ASSUME MaxDeaths = 0, TypeOK
  PROVE  ~Deaths
BY DEF Deaths, CallDies, CheckFails, LeadDies, DispatchDies, Death, TypeOK

\* Only planning makes work where there was none.
LEMMA NoLiveStays ==
  ASSUME TypeOK, OrderInv, [Next]_vars, NoLive, lead["plan"] # "derive"
  PROVE  NoLive'
<1> SUFFICES ASSUME NEW i \in Item, istatus[i] \notin Live
             PROVE  istatus'[i] \notin Live
  BY DEF NoLive
<1> USE DEF TypeOK, Live
<1>1. CASE istatus' = istatus
  BY <1>1
<1>2. ASSUME NEW c \in Callers, CallStep(c)
      PROVE  istatus'[i] \notin Live
  <2>1. CASE CompleteWrite(c)
    <3>1. call[c] # NoCall /\ call[c].pc = "write"
      BY <2>1 DEF CompleteWrite, NoCall
    <3>2. call[c].out \in Outcome
      BY <3>1, CallRecord
    <3> QED  BY <2>1, <3>2 DEF CompleteWrite, Outcome
  <2> QED
    BY <1>1, <1>2, <2>1
    DEF CallStep, CompleteRelease, CompleteHeal, CompleteDone, AutoCheck, AutoClose,
        CompleteReload, CompleteUnblock, CompleteFinish, CompleteClose, ResetWrite
<1>3. ASSUME NEW j \in Item, DispatchStep(j) \/ BuildMoves(j)
      PROVE  istatus'[i] \notin Live
  BY <1>1, <1>3 DEF DispatchStep, DispatchInsert, DispatchLink, DispatchActive, BuildMoves
<1>4. CASE PlanStep \/ StartWrite
  BY <1>1, <1>4 DEF PlanStep, PlanFails, PlanDone, PlanItem, StartWrite
<1>5. CASE StopStep
  BY <1>1, <1>5 DEF StopStep, StopStatus, HaltItems, CancelItems, StopRuns, StopLocks
<1>6. CASE ResumeStep
  BY <1>6
  DEF ResumeStep, ResumeSnapshot, ResumeLock, ResumeStatus, SweepSelect, ResumeItem,
      SweepCall, Step, OrderInv
<1>7. CASE Requests
  BY <1>1, <1>7
  DEF Requests, PlanBegin, StartRead, HaltRead, CancelRead, ResumeRead, DispatchCheck,
      ResetRead, CompleteRead, UserCloses
<1>8. CASE Deaths
  BY <1>1, <1>8 DEF Deaths, CallDies, CheckFails, LeadDies, DispatchDies
<1>9. CASE UNCHANGED vars
  BY <1>1, <1>9 DEF vars
<1> QED  BY <1>2, <1>3, <1>4, <1>5, <1>6, <1>7, <1>8, <1>9 DEF Next

\* A request on an item is the one it was, or a step of its own.
LEMMA CallsMove ==
  ASSUME TypeOK, [Next]_vars, ~Deaths, NEW c \in Callers
  PROVE  \/ call'[c] = call[c]
         \/ CallStep(c)
         \/ call[c] = NoCall /\ \E i \in Item :
              \/ ResetRead(c, i)
              \/ \E out \in Outcome : CompleteRead(c, i, out)
              \/ \E s \in {"done", "cancelled"} : UserCloses(c, i, s)
              \/ SweepCall(i) /\ c = Sweep
<1>1. ASSUME NEW d \in Callers, CallStep(d)
      PROVE  call'[c] = call[c] \/ CallStep(c)
  BY <1>1, CallStepOthers
<1>2. CASE call' = call
  BY <1>2
<1>3. ASSUME NEW d \in Caller, NEW i \in Item,
             \/ ResetRead(d, i)
             \/ \E out \in Outcome : CompleteRead(d, i, out)
             \/ \E s \in {"done", "cancelled"} : UserCloses(d, i, s)
      PROVE  call'[c] = call[c] \/ (c = d /\ call[c] = NoCall)
  BY <1>3 DEF ResetRead, CompleteRead, BeginComplete, UserCloses, TypeOK, Callers
<1>4. CASE Requests
  BY <1>2, <1>3, <1>4
  DEF Requests, PlanBegin, StartRead, HaltRead, CancelRead, ResumeRead, DispatchCheck,
      PlanFrame, StopFrame, DispatchFrame
<1>5. CASE PlanStep \/ StartWrite \/ StopStep
  BY <1>2, <1>5
  DEF PlanStep, PlanFails, PlanItem, PlanDone, StartWrite, StopStep, StopStatus,
      HaltItems, CancelItems, StopRuns, StopLocks, PlanFrame, StopFrame
<1>6. ASSUME NEW i \in Item, SweepCall(i)
      PROVE  call'[c] = call[c] \/ (c = Sweep /\ call[c] = NoCall)
  BY <1>6 DEF SweepCall, BeginComplete, TypeOK
<1>7. CASE ResumeStep
  BY <1>2, <1>6, <1>7
  DEF ResumeStep, ResumeSnapshot, ResumeLock, ResumeStatus, SweepSelect, ResumeItem
<1>8. ASSUME NEW i \in Item, DispatchStep(i) \/ BuildMoves(i)
      PROVE  call' = call
  BY <1>8
  DEF DispatchStep, DispatchInsert, DispatchLink, DispatchActive, BuildMoves, DispatchFrame
<1>9. CASE UNCHANGED vars
  BY <1>2, <1>9 DEF vars
<1> QED  BY <1>1, <1>2, <1>4, <1>5, <1>7, <1>8, <1>9 DEF Next

\* How a request on an item goes on: it keeps its item and its outcome, and only
\* the reload decides what is closed.
LEMMA CallGoes ==
  ASSUME TypeOK, NEW c \in Callers, CallStep(c), call'[c] # NoCall
  PROVE  /\ call[c] # NoCall /\ call'[c].pc # "write"
         /\ call'[c].item = call[c].item /\ call'[c].out = call[c].out
         /\ call'[c].seen = call[c].seen
         /\ call'[c].pc = "unblock" => \/ call[c].pc = "unblock" /\ call'[c].close = call[c].close
                                       \/ CompleteReload(c)
         /\ call'[c].pc = "close" => call[c].pc = "unblock" /\ call[c].close
<1>1. call[c] \in Call /\ call[c] # NoCall
  BY CallStepThere, CallRecord
<1>2. ASSUME NEW pc \in CallPc, Goto(c, pc), pc \notin {"write", "unblock", "close"}
      PROVE  /\ call'[c].item = call[c].item /\ call'[c].out = call[c].out
             /\ call'[c].seen = call[c].seen /\ call'[c].pc = pc
    BY <1>1, <1>2, GotoFields DEF CallPc
<1>3. ASSUME Goto(c, "idle")
      PROVE  FALSE
  BY <1>3, GotoIdle
<1> USE DEF CallPc
<1>4. CASE CompleteWrite(c)
  BY <1>1, <1>2, <1>4 DEF CompleteWrite
<1>5. CASE CompleteRelease(c)
  BY <1>1, <1>2, <1>5 DEF CompleteRelease
<1>6. CASE CompleteHeal(c) \/ CompleteDone(c)
  BY <1>1, <1>2, <1>6 DEF CompleteHeal, CompleteDone
<1>7. CASE AutoCheck(c) \/ AutoClose(c)
  BY <1>1, <1>2, <1>3, <1>7 DEF AutoCheck, AutoClose, AfterCheck
<1>8. CASE CompleteReload(c)
  <2>1. PICK todo, close :
          call'[c] = [call[c] EXCEPT !.pc = "unblock", !.todo = todo, !.close = close]
    BY <1>8 DEF CompleteReload, TypeOK
  <2> QED  BY <1>1, <1>8, <2>1 DEF Call
<1>9. ASSUME NEW d \in Item, CompleteUnblock(c, d)
      PROVE  /\ call'[c].item = call[c].item /\ call'[c].out = call[c].out
             /\ call'[c].seen = call[c].seen /\ call'[c].close = call[c].close
             /\ call'[c].pc = "unblock" /\ call[c].pc = "unblock"
  <2>1. PICK todo : call'[c] = [call[c] EXCEPT !.todo = todo]
    BY <1>9 DEF CompleteUnblock, TypeOK
  <2> QED  BY <1>1, <1>9, <2>1 DEF Call, CompleteUnblock
<1>10. CASE CompleteFinish(c)
  <2>1. call[c].pc = "unblock" /\ call[c].close /\ Goto(c, "close")
    BY <1>3, <1>10 DEF CompleteFinish
  <2>2. /\ call'[c].pc = "close" /\ call'[c].seen = call[c].seen
        /\ call'[c].item = call[c].item /\ call'[c].out = call[c].out
    BY <1>1, <2>1, GotoFields
  <2> QED  BY <1>1, <2>1, <2>2
<1>11. CASE CompleteClose(c) \/ ResetWrite(c)
  BY <1>3, <1>11 DEF CompleteClose, ResetWrite
<1> QED  BY <1>1, <1>4, <1>5, <1>6, <1>7, <1>8, <1>9, <1>10, <1>11 DEF CallStep

\* The plan row is there from PlanBegin on, and a plan is derived only once.
LEMMA PlanStays ==
  ASSUME TypeOK, [Next]_vars, rstatus # "none"
  PROVE  /\ rstatus' # "none"
         /\ lead["plan"] = "idle" => lead'["plan"] = "idle"
<1> USE DEF TypeOK, LeadOp, LeadPc, Step
<1>1. CASE UNCHANGED <<rstatus, lead>>
  BY <1>1
<1>2. ASSUME NEW c \in Callers, CallStep(c)
      PROVE  rstatus' # "none" /\ lead' = lead
  BY <1>2
  DEF CallStep, CompleteWrite, CompleteRelease, CompleteHeal, CompleteDone, AutoCheck,
      AutoClose, CompleteReload, CompleteUnblock, CompleteFinish, CompleteClose,
      ResetWrite, CallFrame
<1>3. ASSUME NEW i \in Item, DispatchStep(i) \/ BuildMoves(i)
      PROVE  UNCHANGED <<rstatus, lead>>
  BY <1>3
  DEF DispatchStep, DispatchInsert, DispatchLink, DispatchActive, BuildMoves, DispatchFrame
<1>4. CASE Requests
  BY <1>4
  DEF Requests, PlanBegin, StartRead, HaltRead, CancelRead, ResumeRead, DispatchCheck,
      ResetRead, CompleteRead, UserCloses, CallFrame, DispatchFrame
<1>5. CASE PlanStep \/ StartWrite
  BY <1>5 DEF PlanStep, PlanFails, PlanItem, PlanDone, StartWrite
<1>6. CASE StopStep
  <2>1. rstatus' \in {rstatus, "halted", "cancelled"}
    BY <1>6 DEF StopStep, StopStatus, HaltItems, CancelItems, StopRuns, StopLocks
  <2>2. PICK o \in {"halt", "cancel"}, pc \in LeadPc : lead' = [lead EXCEPT ![o] = pc]
    BY <1>6 DEF StopStep, StopStatus, HaltItems, CancelItems, StopRuns, StopLocks
  <2> QED  BY <2>1, <2>2
<1>7. CASE ResumeStep
  BY <1>7
  DEF ResumeStep, ResumeSnapshot, ResumeLock, ResumeStatus, SweepSelect, ResumeItem,
      SweepCall
<1>8. CASE Deaths
  BY <1>8 DEF Deaths, CallDies, CheckFails, LeadDies, DispatchDies
<1> QED  BY <1>1, <1>2, <1>3, <1>4, <1>5, <1>6, <1>7, <1>8 DEF Next, vars

\* A halt and a cancel leave nothing to do when they are through with the items,
\* and a completion closes only what is finished.
LEMMA StoppingStep ==
  ASSUME MaxDeaths = 0, TypeOK, OrderInv, StopInv, [Next]_vars
  PROVE  Stopping'
<1> SUFFICES ASSUME rstatus' \in {"halted", "cancelled", "completed"}, lead'["plan"] # "derive"
             PROVE  NoLive' \/ lead'["halt"] = "items" \/ lead'["cancel"] = "items"
  BY DEF Stopping
<1> USE DEF TypeOK, LeadOp, LeadPc, Step
<1>1. CASE /\ (rstatus = "halted" /\ rstatus' = "completed") \/ rstatus' = rstatus
           /\ \A o \in {"plan", "halt", "cancel"} : lead'[o] = lead[o]
  <2>1. lead["plan"] # "derive"
    BY <1>1
  <2>2. NoLive \/ lead["halt"] = "items" \/ lead["cancel"] = "items"
    BY <1>1, <2>1 DEF StopInv, Stopping
  <2> QED  BY <1>1, <2>1, <2>2, NoLiveStays
<1>2. ASSUME NEW c \in Callers, CallStep(c)
      PROVE  NoLive' \/ lead'["halt"] = "items" \/ lead'["cancel"] = "items"
  <2>1. lead' = lead
    BY <1>2, CallStepThere
  <2>2. CASE CompleteClose(c)
    <3>1. call[c].pc = "close" /\ call[c] # NoCall
      BY <2>2 DEF CompleteClose, NoCall
    <3>2. call[c].out # "none"
      BY <3>1, CallRecord
    <3>3. NoLive
      BY <3>1, <3>2 DEF StopInv, ClosesQuiet, Completing
    <3> QED  BY <2>1, <3>3, NoLiveStays
  <2> QED
    BY <1>1, <1>2, <2>1, <2>2
    DEF CallStep, CompleteWrite, CompleteRelease, CompleteHeal, CompleteDone, AutoCheck,
        AutoClose, CompleteReload, CompleteUnblock, CompleteFinish, ResetWrite
<1>3. ASSUME NEW i \in Item, DispatchStep(i) \/ BuildMoves(i)
      PROVE  UNCHANGED <<rstatus, lead>>
  BY <1>3
  DEF DispatchStep, DispatchInsert, DispatchLink, DispatchActive, BuildMoves, DispatchFrame
<1>4. CASE HaltRead \/ CancelRead
  <2>1. rstatus' = rstatus /\ istatus' = istatus
    BY <1>4 DEF HaltRead, CancelRead
  <2>2. \A o \in {"plan", "halt", "cancel"} :
          lead[o] \in {"derive", "items"} => lead'[o] = lead[o]
    BY <1>4 DEF HaltRead, CancelRead
  <2>3. NoLive \/ lead["halt"] = "items" \/ lead["cancel"] = "items" \/ lead["plan"] = "derive"
    BY <2>1 DEF StopInv, Stopping
  <2> QED  BY <2>1, <2>2, <2>3 DEF NoLive
<1>5. CASE PlanBegin \/ StartRead \/ ResumeRead
  BY <1>1, <1>5 DEF PlanBegin, StartRead, ResumeRead
<1>6. CASE \/ \E i \in Item : DispatchCheck(i)
           \/ \E c \in Caller, i \in Item :
                \/ ResetRead(c, i)
                \/ \E out \in Outcome : CompleteRead(c, i, out)
                \/ \E s \in {"done", "cancelled"} : UserCloses(c, i, s)
  <2>1. UNCHANGED <<rstatus, lead>>
    BY <1>6 DEF DispatchCheck, DispatchFrame, ResetRead, CompleteRead, UserCloses, CallFrame
  <2> QED  BY <1>1, <2>1
<1>7. CASE PlanStep \/ StartWrite
  BY <1>7 DEF PlanStep, PlanFails, PlanItem, PlanDone, StartWrite
<1>8. ASSUME NEW o \in {"halt", "cancel"}, StopStatus(o)
      PROVE  lead'["halt"] = "items" \/ lead'["cancel"] = "items"
  BY <1>8 DEF StopStatus
<1>9. CASE HaltItems \/ CancelItems
  BY <1>9 DEF HaltItems, CancelItems, NoLive, Live
<1>10. ASSUME NEW o \in {"halt", "cancel"}, StopRuns(o) \/ StopLocks(o)
       PROVE  NoLive' \/ lead'["halt"] = "items" \/ lead'["cancel"] = "items"
  <2>1. UNCHANGED <<rstatus, istatus>>
    BY <1>10 DEF StopRuns, StopLocks
  <2>2. \A n \in LeadOp : lead[n] \in {"derive", "items"} => lead'[n] = lead[n]
    BY <1>10 DEF StopRuns, StopLocks
  <2>3. NoLive \/ lead["halt"] = "items" \/ lead["cancel"] = "items" \/ lead["plan"] = "derive"
    BY <2>1 DEF StopInv, Stopping
  <2> QED  BY <2>1, <2>2, <2>3 DEF NoLive
<1>11. ~ResumeStep
  BY DEF ResumeStep, ResumeSnapshot, ResumeLock, ResumeStatus, SweepSelect, ResumeItem,
         SweepCall, OrderInv
<1>12. CASE UNCHANGED vars
  BY <1>1, <1>12 DEF vars
<1> QED
  BY <1>1, <1>2, <1>3, <1>4, <1>5, <1>6, <1>7, <1>8, <1>9, <1>10, <1>11, <1>12, NoDeaths
  DEF Next, Requests, StopStep

LEMMA UnplannedStep ==
  ASSUME MaxDeaths = 0, TypeOK, OrderInv, StopInv, [Next]_vars
  PROVE  Unplanned'
<1> SUFFICES ASSUME rstatus' = "none"
             PROVE  lead'["plan"] = "idle" /\ \A i \in Item : istatus'[i] = "absent"
  BY DEF Unplanned
<1>1. rstatus = "none" /\ lead["plan"] = "idle" /\ \A i \in Item : istatus[i] = "absent"
  BY PlanStays DEF StopInv, Unplanned
<1> USE DEF TypeOK, LeadOp, LeadPc, Step
<1>2. CASE lead' = lead /\ istatus' = istatus
  BY <1>1, <1>2
<1>3. ASSUME NEW c \in Callers, CallStep(c)
      PROVE  lead' = lead /\ istatus' = istatus
  <2>1. call[c] # NoCall /\ lead' = lead /\ call[c].item \in Item
    BY <1>3, CallStepThere, CallRecord
  <2>2. call[c].out = "none"
    BY <1>1, <2>1 DEF StopInv, ClosesQuiet, Completing
  <2>3. call[c].pc \in {"check", "autoclose", "reset"}
    BY <2>1, <2>2, CallRecord
  <2>4. CASE ResetWrite(c)
    <3>1. istatus' = [istatus EXCEPT ![call[c].item] = istatus[call[c].item]]
      BY <1>1, <2>1, <2>4 DEF ResetWrite
    <3> QED  BY <2>1, <3>1
  <2> QED
    BY <1>3, <2>1, <2>3, <2>4
    DEF CallStep, CompleteWrite, CompleteRelease, CompleteHeal, CompleteDone, AutoCheck,
        AutoClose, CompleteReload, CompleteUnblock, CompleteFinish, CompleteClose
<1>4. ASSUME NEW i \in Item, DispatchStep(i) \/ BuildMoves(i)
      PROVE  lead' = lead /\ istatus' = istatus
  <2>1. lead' = lead
    BY <1>4
    DEF DispatchStep, DispatchInsert, DispatchLink, DispatchActive, BuildMoves, DispatchFrame
  <2>2. CASE DispatchLink(i)
    <3>1. istatus' = [istatus EXCEPT ![i] = istatus[i]]
      BY <1>1, <2>2 DEF DispatchLink
    <3> QED  BY <2>1, <3>1
  <2> QED
    BY <1>4, <2>1, <2>2 DEF DispatchStep, DispatchInsert, DispatchActive, BuildMoves
<1>5. CASE Requests
  BY <1>1, <1>2, <1>5
  DEF Requests, PlanBegin, StartRead, HaltRead, CancelRead, ResumeRead, DispatchCheck,
      ResetRead, CompleteRead, UserCloses, CallFrame, DispatchFrame
<1>6. CASE PlanStep \/ StartWrite
  BY <1>1, <1>6 DEF PlanStep, PlanFails, PlanItem, PlanDone, StartWrite
<1>7. CASE StopStep
  <2>1. \A i \in Item : istatus'[i] = "absent"
    BY <1>1, <1>7 DEF StopStep, StopStatus, HaltItems, CancelItems, StopRuns, StopLocks, Live
  <2>2. PICK o \in {"halt", "cancel"}, pc \in LeadPc : lead' = [lead EXCEPT ![o] = pc]
    BY <1>7 DEF StopStep, StopStatus, HaltItems, CancelItems, StopRuns, StopLocks
  <2> QED  BY <1>1, <2>1, <2>2
<1>8. ~ResumeStep
  BY DEF ResumeStep, ResumeSnapshot, ResumeLock, ResumeStatus, SweepSelect, ResumeItem,
         SweepCall, OrderInv
<1>9. CASE UNCHANGED vars
  BY <1>2, <1>9 DEF vars
<1> QED  BY <1>2, <1>3, <1>4, <1>5, <1>6, <1>7, <1>8, <1>9, NoDeaths DEF Next

LEMMA ClosesQuietStep ==
  ASSUME Undisturbed, TypeOK, TypeOK', OrderInv, StopInv, [Next]_vars, NEW c \in Callers
  PROVE  ClosesQuiet(c)'
<1> SUFFICES ASSUME Completing(c)'
             PROVE  /\ lead'["plan"] = "idle" /\ rstatus' # "none"
                    /\ (call'[c].pc = "unblock" /\ call'[c].close) \/ call'[c].pc = "close"
                       => NoLive'
  BY DEF ClosesQuiet
<1>1. CASE call'[c] = call[c]
  <2>1. /\ lead["plan"] = "idle" /\ rstatus # "none"
        /\ (call[c].pc = "unblock" /\ call[c].close) \/ call[c].pc = "close" => NoLive
    BY <1>1 DEF StopInv, ClosesQuiet, Completing
  <2> QED  BY <1>1, <2>1, PlanStays, NoLiveStays
<1>2. CASE CallStep(c)
  <2>1. /\ call'[c] # NoCall /\ call'[c].out = call[c].out /\ call[c] # NoCall
        /\ call'[c].pc = "unblock" => \/ call[c].pc = "unblock" /\ call'[c].close = call[c].close
                                      \/ CompleteReload(c)
        /\ call'[c].pc = "close" => call[c].pc = "unblock" /\ call[c].close
    BY <1>2, CallGoes DEF Completing
  <2>2. /\ lead["plan"] = "idle" /\ rstatus # "none"
        /\ (call[c].pc = "unblock" /\ call[c].close) \/ call[c].pc = "close" => NoLive
    BY <2>1 DEF StopInv, ClosesQuiet, Completing
  <2>3. ASSUME CompleteReload(c), call'[c].close
        PROVE  NoLive
    <3>1. call[c].pc = "reload" /\ call[c].out # "none" /\ call[c] \in Call
      BY <2>1, <2>3, CallRecord DEF Completing, CompleteReload
    <3>2. istatus[call[c].item] \in Outcome
      BY <3>1 DEF OrderInv, CallInOrder
    <3>3. call'[c].close = AllFinished(Reloaded(c))
      BY <2>3, <3>1 DEF CompleteReload, TypeOK, Call
    <3>4. \A i \in Item : i # call[c].item => istatus[i] \in Finished \cup {"absent"}
      BY <2>3, <3>3 DEF AllFinished, Reloaded, TypeOK
    <3> QED  BY <3>2, <3>4 DEF NoLive, Finished, Outcome, Live
  <2> QED  BY <2>1, <2>2, <2>3, PlanStays, NoLiveStays
<1>3. ASSUME NEW i \in Item, NEW out \in Outcome, CompleteRead(c, i, out)
      PROVE  /\ lead'["plan"] = "idle" /\ rstatus' # "none"
             /\ call'[c].pc \notin {"unblock", "close"}
  <2>1. lead["plan"] = "idle" /\ UNCHANGED <<rstatus, lead>> /\ Accepted(i, out) # "idle"
    BY <1>3 DEF CompleteRead, Known, Undisturbed, CallFrame, BeginComplete
  <2>2. istatus[i] # "absent" /\ Accepted(i, out) \notin {"unblock", "close"}
    BY <2>1 DEF Accepted, Outcome
  <2>3. rstatus # "none"
    BY <2>2 DEF StopInv, Unplanned
  <2>4. call'[c] = NewCall(Accepted(i, out), i, out)
    BY <1>3 DEF CompleteRead, BeginComplete, TypeOK
  <2> QED  BY <2>1, <2>2, <2>3, <2>4 DEF NewCall
<1>4. ASSUME NEW i \in Item, ResetRead(c, i) \/ \E s \in {"done", "cancelled"} : UserCloses(c, i, s)
      PROVE  FALSE
  BY <1>4 DEF ResetRead, UserCloses, NewCall, Completing, TypeOK
<1>5. ASSUME NEW i \in Item, SweepCall(i)
      PROVE  FALSE
  BY <1>5 DEF SweepCall, OrderInv
<1> QED  BY <1>1, <1>2, <1>3, <1>4, <1>5, CallsMove, NoDeaths DEF Undisturbed

\* Once the requests are over, a rollout that was halted, cancelled or completed
\* has no item left that a manager would work on, however they overlapped.
THEOREM StoppedQuiet ==
  ASSUME "resume" \notin Ops, Undisturbed
  PROVE  Spec => []StoppedIsQuiet
<1>1. Init => StopInv
  BY DEF Init, StopInv, Stopping, Unplanned, ClosesQuiet, Completing, LeadOp
<1>2. TypeOK /\ TypeOK' /\ OrderInv /\ StopInv /\ [Next]_vars => StopInv'
  BY StoppingStep, UnplannedStep, ClosesQuietStep DEF StopInv, Undisturbed
<1>3. StopInv => StoppedIsQuiet
  BY DEF StopInv, Stopping, StoppedIsQuiet, Quiet, NoLive, LeadOp
<1> QED  BY <1>1, <1>2, <1>3, RolloutTypeCorrect, OrderInductive, PTL DEF Spec

-----------------------------------------------------------------------------
(* Completions that overlap *)

\* Without halts and cancels a rollout is planned, started, swept and completed,
\* and its items are completed only in between.
Fresh == \A c \in Callers : call[c] # NoCall => call[c].out = "none"
Stages ==
  /\ rstatus \in {"none", "planning", "pending", "running", "completed", "failed"}
  /\ lead["plan"] = IF rstatus = "planning" THEN "derive" ELSE "idle"
  /\ rstatus \in {"none", "failed"} => \A i \in Item : istatus[i] = "absent"
  /\ rstatus \in {"none", "planning", "failed"} =>
       Fresh /\ \A i \in Item : istatus[i] \notin Outcome
  /\ lead["start"] # "idle" => lead["start"] = "write" /\ rstatus = "pending" /\ Fresh
  /\ lead["resume"] # "idle" => lead["resume"] = "sweep" /\ rstatus \in {"running", "completed"}
  /\ lead["halt"] = "idle" /\ lead["cancel"] = "idle"
Rooted == \A i \in Item : istatus[i] = "pending" => Preds(i) # {}

\* A completion that has written its item has yet to look at the others, or has
\* seen which of them it must unblock and whether it must close the rollout.
Waiting(c) ==
  call[c].pc \in {"release", "done", "check", "autoclose", "reload"} /\ call[c].out # "none"
Serves(c, i) ==
  \/ Waiting(c) /\ call[c].item \in Preds(i)
  \/ call[c].pc = "unblock" /\ i \in call[c].todo
Closes(c) ==
  \/ Waiting(c) /\ call[c].out \in Finished
  \/ call[c].pc = "unblock" /\ call[c].close
  \/ call[c].pc = "close"
Answered ==
  /\ \A i \in Item : istatus[i] = "pending" /\ PredsClosed(i) => \E c \in Callers : Serves(c, i)
  /\ rstatus \in {"pending", "running"} /\ AllFinished(istatus) => \E c \in Callers : Closes(c)

WaitInv == Stages /\ Rooted /\ Answered

\* What becomes of one row of rollout_items when nothing is halted or cancelled.
RowMoves(i) ==
  \/ istatus'[i] = istatus[i]
  \/ /\ istatus[i] = "absent" /\ rstatus = "planning"
     /\ istatus'[i] = IF Preds(i) = {} THEN "ready" ELSE "pending"
  \/ istatus[i] \in Live /\ istatus'[i] \in {"ready", "dispatched"}
  \/ \E c \in Callers : CompleteWrite(c) /\ call[c].item = i

LEMMA RowsMove ==
  ASSUME MaxDeaths = 0, TypeOK, Stages, [Next]_vars, NEW i \in Item
  PROVE  RowMoves(i)
<1> USE DEF TypeOK, Live, Step
<1>1. CASE istatus' = istatus
  BY <1>1 DEF RowMoves
<1>2. ASSUME NEW c \in Callers, CallStep(c)
      PROVE  RowMoves(i)
  <2>1. CASE CompleteWrite(c)
    <3>1. call[c].item \in Item
      BY <1>2, CallStepThere, CallRecord
    <3>2. i # call[c].item => istatus'[i] = istatus[i]
      BY <2>1, <3>1 DEF CompleteWrite
    <3> QED  BY <2>1, <3>2 DEF RowMoves
  <2>2. ASSUME NEW d \in Item, CompleteUnblock(c, d)
        PROVE  RowMoves(i)
    BY <2>2 DEF CompleteUnblock, RowMoves
  <2>3. CASE ResetWrite(c)
    BY <2>3 DEF ResetWrite, RowMoves
  <2> QED
    BY <1>1, <1>2, <2>1, <2>2, <2>3
    DEF CallStep, CompleteRelease, CompleteHeal, CompleteDone, AutoCheck, AutoClose,
        CompleteReload, CompleteFinish, CompleteClose
<1>3. ASSUME NEW j \in Item, DispatchStep(j) \/ BuildMoves(j)
      PROVE  RowMoves(i)
  <2>1. CASE DispatchLink(j)
    BY <2>1 DEF DispatchLink, RowMoves
  <2> QED
    BY <1>1, <1>3, <2>1 DEF DispatchStep, DispatchInsert, DispatchActive, BuildMoves
<1>4. CASE PlanStep \/ StartWrite
  <2>1. ASSUME NEW j \in Item, PlanItem(j)
        PROVE  RowMoves(i)
    BY <2>1 DEF PlanItem, Stages, RowMoves
  <2> QED  BY <1>1, <1>4, <2>1 DEF PlanStep, PlanFails, PlanDone, StartWrite
<1>5. ~StopStep
  BY DEF StopStep, StopStatus, HaltItems, CancelItems, StopRuns, StopLocks, Stages
<1>6. CASE ResumeStep
  BY <1>1, <1>6
  DEF ResumeStep, ResumeSnapshot, ResumeLock, ResumeStatus, SweepSelect, ResumeItem,
      SweepCall, Stages
<1>7. CASE Requests
  BY <1>1, <1>7
  DEF Requests, PlanBegin, StartRead, HaltRead, CancelRead, ResumeRead, DispatchCheck,
      ResetRead, CompleteRead, UserCloses
<1>8. CASE UNCHANGED vars
  BY <1>1, <1>8 DEF vars
<1> QED  BY <1>2, <1>3, <1>4, <1>5, <1>6, <1>7, <1>8, NoDeaths DEF Next

\* How the rollout and the requests on it move on.
LeadMoves ==
  \/ UNCHANGED <<rstatus, lead>>
  \/ /\ rstatus = "none" /\ rstatus' = "planning"
     /\ lead' = [lead EXCEPT !["plan"] = "derive"]
  \/ /\ rstatus = "planning" /\ rstatus' = "failed" /\ (\A i \in Item : istatus[i] = "absent")
     /\ istatus' = istatus /\ lead' = [lead EXCEPT !["plan"] = "idle"]
  \/ /\ rstatus = "planning" /\ rstatus' = "pending" /\ (\A i \in Item : istatus[i] # "absent")
     /\ istatus' = istatus /\ lead' = [lead EXCEPT !["plan"] = "idle"]
  \/ /\ rstatus = "pending" /\ rstatus' = "pending" /\ call' = call
     /\ (\A c \in Callers : call[c].pc = "idle") /\ lead' = [lead EXCEPT !["start"] = "write"]
  \/ /\ rstatus = "pending" /\ rstatus' = "running"
     /\ UNCHANGED <<istatus, call>> /\ lead' = [lead EXCEPT !["start"] = "idle"]
  \/ /\ rstatus \in {"running", "completed"} /\ rstatus' = rstatus
     /\ \E pc \in {"idle", "sweep"} : lead' = [lead EXCEPT !["resume"] = pc]
  \/ /\ (\E c \in Callers : CompleteClose(c)) /\ rstatus' = "completed" /\ lead' = lead

LEMMA LeadsMove ==
  ASSUME Undisturbed, "halt" \notin Ops, "cancel" \notin Ops, TypeOK, Stages, [Next]_vars
  PROVE  LeadMoves
<1> USE DEF TypeOK, Step, LeadOp, LeadPc
<1>1. ASSUME NEW c \in Callers, CallStep(c)
      PROVE  LeadMoves
  <2>1. lead' = lead
    BY <1>1, CallStepThere
  <2>2. CASE CompleteClose(c)
    BY <2>1, <2>2 DEF CompleteClose, LeadMoves
  <2>3. CASE ~CompleteClose(c)
    <3>1. rstatus' = rstatus
      BY <1>1, <2>3
      DEF CallStep, CompleteWrite, CompleteRelease, CompleteHeal, CompleteDone, AutoCheck,
          AutoClose, CompleteReload, CompleteUnblock, CompleteFinish, ResetWrite, Stages
    <3> QED  BY <2>1, <3>1 DEF LeadMoves
  <2> QED  BY <2>2, <2>3
<1>2. ASSUME NEW i \in Item, DispatchStep(i) \/ BuildMoves(i)
      PROVE  UNCHANGED <<rstatus, lead>>
  BY <1>2
  DEF DispatchStep, DispatchInsert, DispatchLink, DispatchActive, BuildMoves, DispatchFrame
<1>3. CASE PlanStep
  <2>1. CASE PlanFails
    BY <2>1 DEF PlanFails, Stages, LeadMoves
  <2>2. CASE PlanDone
    BY <2>2 DEF PlanDone, Stages, LeadMoves
  <2>3. ASSUME NEW i \in Item, PlanItem(i)
        PROVE  LeadMoves
    BY <2>3 DEF PlanItem, LeadMoves
  <2> QED  BY <1>3, <2>1, <2>2, <2>3 DEF PlanStep
<1>4. CASE StartWrite
  BY <1>4 DEF StartWrite, PlanFrame, Stages, LeadMoves
<1>5. ~StopStep
  BY DEF StopStep, StopStatus, HaltItems, CancelItems, StopRuns, StopLocks, Stages
<1>6. CASE ResumeStep
  <2>1. CASE SweepSelect
    BY <2>1 DEF SweepSelect, Stages, LeadMoves
  <2>2. ASSUME NEW i \in Item, SweepCall(i)
        PROVE  LeadMoves
    BY <2>2 DEF SweepCall, Stages, LeadMoves
  <2> QED
    BY <1>6, <2>1, <2>2
    DEF ResumeStep, ResumeSnapshot, ResumeLock, ResumeStatus, ResumeItem, Stages
<1>7. CASE PlanBegin
  BY <1>7 DEF PlanBegin, LeadMoves
<1>8. CASE StartRead
  BY <1>8 DEF StartRead, PlanFrame, Undisturbed, LeadMoves
<1>9. CASE ResumeRead
  BY <1>9 DEF ResumeRead, Stages, LeadMoves
<1>10. CASE \/ \E i \in Item : DispatchCheck(i)
            \/ \E c \in Caller, i \in Item :
                 \/ ResetRead(c, i)
                 \/ \E out \in Outcome : CompleteRead(c, i, out)
                 \/ \E s \in {"done", "cancelled"} : UserCloses(c, i, s)
  <2>1. UNCHANGED <<rstatus, lead>>
    BY <1>10 DEF DispatchCheck, DispatchFrame, ResetRead, CompleteRead, UserCloses, CallFrame
  <2> QED  BY <2>1 DEF LeadMoves
<1>11. ~HaltRead /\ ~CancelRead
  BY DEF HaltRead, CancelRead
<1>12. CASE UNCHANGED vars
  BY <1>12 DEF vars, LeadMoves
<1>13. CASE UNCHANGED <<rstatus, lead>>
  BY <1>13 DEF LeadMoves
<1> QED
  BY <1>1, <1>2, <1>3, <1>4, <1>5, <1>6, <1>7, <1>8, <1>9, <1>10, <1>11, <1>12, <1>13, NoDeaths
  DEF Next, Requests, Undisturbed

\* No completion begins before the plan is there, nor while the rollout is started.
LEMMA FreshStays ==
  ASSUME Undisturbed, TypeOK, Stages, [Next]_vars, Fresh,
         rstatus \in {"none", "planning", "failed"} \/ lead["start"] = "write"
  PROVE  Fresh'
<1> SUFFICES ASSUME NEW c \in Callers, call'[c] # NoCall
             PROVE  call'[c].out = "none"
  BY DEF Fresh
<1>1. CASE call'[c] = call[c]
  BY <1>1 DEF Fresh
<1>2. CASE CallStep(c)
  BY <1>2, CallGoes DEF Fresh
<1>3. ASSUME NEW i \in Item, NEW out \in Outcome, CompleteRead(c, i, out)
      PROVE  FALSE
  <2>1. lead["plan"] = "idle" /\ lead["start"] = "idle" /\ Accepted(i, out) # "idle"
    BY <1>3 DEF CompleteRead, Known, Undisturbed, BeginComplete
  <2>2. istatus[i] # "absent"
    BY <2>1 DEF Accepted, Outcome
  <2> QED  BY <2>1, <2>2 DEF Stages
<1>4. ASSUME NEW i \in Item, ResetRead(c, i) \/ \E s \in {"done", "cancelled"} : UserCloses(c, i, s)
      PROVE  call'[c].out = "none"
  BY <1>4 DEF ResetRead, UserCloses, NewCall, TypeOK
<1>5. ASSUME NEW i \in Item, SweepCall(i)
      PROVE  FALSE
  BY <1>5 DEF SweepCall, Stages
<1> QED  BY <1>1, <1>2, <1>3, <1>4, <1>5, CallsMove, NoDeaths DEF Undisturbed

LEMMA StagesStep ==
  ASSUME Undisturbed, "halt" \notin Ops, "cancel" \notin Ops, TypeOK, TypeOK', Stages,
         [Next]_vars
  PROVE  Stages'
<1> USE DEF LeadOp, LeadPc
<1>0. LeadMoves /\ \A i \in Item : RowMoves(i)
  BY LeadsMove, RowsMove DEF Undisturbed
<1>1. ASSUME rstatus' \in {"none", "planning", "failed"}
      PROVE  /\ rstatus \in {"none", "planning", "failed"} /\ Fresh
             /\ rstatus' \in {"none", "failed"} => \A i \in Item : istatus'[i] = "absent"
             /\ \A i \in Item : istatus'[i] \notin Outcome
  <2>1. rstatus \in {"none", "planning", "failed"}
    BY <1>0, <1>1 DEF LeadMoves
  <2>2. Fresh
    BY <2>1 DEF Stages
  <2>3. ~\E c \in Callers : CompleteWrite(c)
    <3> SUFFICES ASSUME NEW c \in Callers, call[c].pc = "write"
                 PROVE  FALSE
      BY DEF CompleteWrite
    <3>1. call[c] # NoCall
      BY DEF NoCall
    <3> QED  BY <2>2, <3>1, CallRecord DEF Fresh
  <2>4. ASSUME NEW i \in Item
        PROVE  istatus'[i] \notin Outcome
    BY <1>0, <2>1, <2>3, <2>4 DEF RowMoves, Stages, Outcome
  <2>5. ASSUME rstatus' \in {"none", "failed"}, NEW i \in Item
        PROVE  istatus'[i] = "absent"
    <3>1. istatus[i] = "absent" /\ (rstatus = "planning" => istatus' = istatus)
      BY <1>0, <2>1, <2>5 DEF LeadMoves, Stages
    <3> QED  BY <1>0, <2>3, <3>1 DEF RowMoves, Live
  <2> QED  BY <2>1, <2>2, <2>4, <2>5
<1>2. rstatus' \in {"none", "planning", "failed"} => Fresh'
  BY <1>1, FreshStays
<1>3. lead'["start"] # "idle" => lead'["start"] = "write" /\ rstatus' = "pending" /\ Fresh'
  <2> SUFFICES ASSUME lead'["start"] # "idle"
               PROVE  lead'["start"] = "write" /\ rstatus' = "pending" /\ Fresh'
    OBVIOUS
  <2>1. CASE lead["start"] = "write"
    <3>1. Fresh'
      BY <2>1, FreshStays DEF Stages
    <3>2. rstatus = "pending" /\ Fresh
      BY <2>1 DEF Stages
    <3>3. ~\E c \in Callers : CompleteClose(c)
      <4> SUFFICES ASSUME NEW c \in Callers, call[c].pc = "close"
                   PROVE  FALSE
        BY DEF CompleteClose
      <4>1. call[c] # NoCall
        BY DEF NoCall
      <4> QED  BY <3>2, <4>1, CallRecord DEF Fresh
    <3> QED  BY <1>0, <2>1, <3>1, <3>2, <3>3 DEF LeadMoves, TypeOK
  <2>2. CASE lead["start"] # "write"
    <3>1. /\ rstatus' = "pending" /\ call' = call /\ \A c \in Callers : call[c].pc = "idle"
          /\ lead'["start"] = "write"
      BY <1>0, <2>2 DEF LeadMoves, Stages, TypeOK
    <3>2. \A c \in Callers : call[c] = NoCall
      BY <3>1, CallRecord DEF CallPc
    <3> QED  BY <3>1, <3>2 DEF Fresh
  <2> QED  BY <2>1, <2>2
<1>4. /\ rstatus' \in {"none", "planning", "pending", "running", "completed", "failed"}
      /\ lead'["plan"] = IF rstatus' = "planning" THEN "derive" ELSE "idle"
  <2>1. (\E c \in Callers : CompleteClose(c)) => rstatus # "planning"
    <3> SUFFICES ASSUME NEW c \in Callers, call[c].pc = "close", rstatus = "planning"
                 PROVE  FALSE
      BY DEF CompleteClose
    <3>1. call[c] # NoCall
      BY DEF NoCall
    <3> QED  BY <3>1, CallRecord DEF Stages, Fresh
  <2> QED  BY <1>0, <2>1 DEF LeadMoves, Stages, TypeOK
<1>5. /\ lead'["resume"] # "idle"
         => lead'["resume"] = "sweep" /\ rstatus' \in {"running", "completed"}
      /\ lead'["halt"] = "idle" /\ lead'["cancel"] = "idle"
  BY <1>0 DEF LeadMoves, Stages, TypeOK
<1> QED  BY <1>1, <1>2, <1>3, <1>4, <1>5 DEF Stages

LEMMA RootedStep ==
  ASSUME MaxDeaths = 0, TypeOK, Stages, Rooted, [Next]_vars
  PROVE  Rooted'
<1> SUFFICES ASSUME NEW i \in Item, istatus'[i] = "pending"
             PROVE  Preds(i) # {}
  BY DEF Rooted, Preds
<1>1. RowMoves(i)
  BY RowsMove
<1>2. ASSUME NEW c \in Callers, CompleteWrite(c), call[c].item = i
      PROVE  FALSE
  <2>1. call[c].pc = "write" /\ call[c] # NoCall
    BY <1>2 DEF CompleteWrite, NoCall
  <2>2. call[c].out \in Outcome
    BY <2>1, CallRecord
  <2> QED  BY <1>2, <2>2 DEF CompleteWrite, TypeOK, Outcome
<1> QED  BY <1>1, <1>2 DEF RowMoves, Rooted, Live

\* A completion that waits goes on waiting until it looks at the others.
LEMMA WaitingStep ==
  ASSUME TypeOK, NEW c \in Callers, CallStep(c), Waiting(c), ~CompleteReload(c)
  PROVE  Waiting(c)' /\ call'[c].item = call[c].item /\ call'[c].out = call[c].out
<1>1. call[c] # NoCall /\ call[c].pc \in {"release", "done", "check", "autoclose", "reload"}
  BY CallStepThere DEF Waiting
<1>2. PICK pc \in {"done", "check", "autoclose", "reload"} : Goto(c, pc)
  BY <1>1
  DEF CallStep, CompleteWrite, CompleteRelease, CompleteHeal, CompleteDone, AutoCheck,
      AutoClose, CompleteUnblock, CompleteFinish, CompleteClose, ResetWrite, AfterCheck,
      Waiting
<1> QED  BY <1>1, <1>2, GotoFields DEF Waiting

\* The outcomes and the pending rows before a step, by those after it.
LEMMA PendingStep ==
  ASSUME MaxDeaths = 0, TypeOK, Stages, [Next]_vars, NEW i \in Item
  PROVE  /\ istatus[i] \in Outcome => istatus'[i] \in Outcome
         /\ istatus'[i] = "pending" => istatus[i] = "pending" \/ rstatus = "planning"
         /\ istatus'[i] \in Outcome /\ istatus'[i] # istatus[i]
            => \E c \in Callers : CompleteWrite(c) /\ call[c].item = i
<1>1. RowMoves(i)
  BY RowsMove
<1>2. ASSUME NEW c \in Callers, CompleteWrite(c), call[c].item = i
      PROVE  istatus'[i] \in Outcome
  <2>1. call[c].pc = "write" /\ call[c] # NoCall
    BY <1>2 DEF CompleteWrite, NoCall
  <2>2. call[c].out \in Outcome
    BY <2>1, CallRecord
  <2> QED  BY <1>2, <2>2 DEF CompleteWrite, TypeOK
<1> QED  BY <1>1, <1>2 DEF RowMoves, Live, Outcome

\* A completion that has written is waiting.
LEMMA WritesThenWaits ==
  ASSUME TypeOK, NEW c \in Callers, CompleteWrite(c)
  PROVE  /\ Waiting(c)' /\ call'[c].item = call[c].item /\ call'[c].out = call[c].out
         /\ istatus'[call[c].item] = call[c].out
         /\ \A d \in Callers : d # c => call'[d] = call[d]
<1>1. call[c].pc = "write" /\ call[c] # NoCall /\ Goto(c, "release")
  BY DEF CompleteWrite, NoCall
<1>2. call[c].item \in Item /\ call[c].out \in Outcome
  BY <1>1, CallRecord
<1> QED  BY <1>1, <1>2, GotoFields DEF Waiting, CompleteWrite, TypeOK, Outcome

\* What a completion is to see to is seen to, or the completion goes on.
LEMMA ServesStep ==
  ASSUME MaxDeaths = 0, TypeOK, Stages, [Next]_vars, NEW c \in Callers, NEW i \in Item,
         Serves(c, i), istatus[i] = "pending", istatus'[i] = "pending", PredsClosed(i)
  PROVE  Serves(c, i)'
<1>0. call[c] # NoCall
  BY DEF Serves, Waiting, NoCall
<1>1. CASE call'[c] = call[c]
  BY <1>1 DEF Serves, Waiting, Preds
<1>2. CASE CallStep(c)
  <2>1. CASE Waiting(c) /\ call[c].item \in Preds(i) /\ ~CompleteReload(c)
    BY <1>2, <2>1, WaitingStep DEF Serves, Preds
  <2>2. CASE Waiting(c) /\ call[c].item \in Preds(i) /\ CompleteReload(c)
    <3>1. call'[c].pc = "unblock" /\ call'[c].todo = Unblocked(Reloaded(c), call[c].item)
      BY <1>0, <2>2, CallRecord DEF CompleteReload, TypeOK, Call
    <3>2. <<call[c].item, i>> \in Edges /\ call[c].item # i
      BY <2>2 DEF Preds, PredsClosed, Outcome
    <3>3. call[c].out \in Outcome
      BY <1>0, <2>2, CallRecord DEF Waiting
    <3>4. Reloaded(c)[i] = "pending" /\ \A p \in Preds(i) : Reloaded(c)[p] \in Outcome
      BY <2>2, <3>2, <3>3 DEF Reloaded, PredsClosed, Preds, TypeOK
    <3> QED  BY <3>1, <3>2, <3>4 DEF Unblocked, Serves
  <2>3. CASE call[c].pc = "unblock" /\ i \in call[c].todo
    <3>1. PICK d \in Item : CompleteUnblock(c, d)
      BY <1>2, <2>3
      DEF CallStep, CompleteWrite, CompleteRelease, CompleteHeal, CompleteDone, AutoCheck,
          AutoClose, CompleteReload, CompleteFinish, CompleteClose, ResetWrite
    <3>2. d # i
      BY <3>1 DEF CompleteUnblock, TypeOK
    <3>3. call'[c] = [call[c] EXCEPT !.todo = call[c].todo \ {d}]
      BY <3>1 DEF CompleteUnblock, TypeOK
    <3>4. call'[c].pc = "unblock" /\ call'[c].todo = call[c].todo \ {d}
      BY <1>0, <2>3, <3>3, CallRecord DEF Call
    <3> QED  BY <2>3, <3>2, <3>4 DEF Serves
  <2> QED  BY <2>1, <2>2, <2>3 DEF Serves
<1> QED  BY <1>0, <1>1, <1>2, CallsMove, NoDeaths

LEMMA ClosesStep ==
  ASSUME MaxDeaths = 0, TypeOK, Stages, [Next]_vars, NEW c \in Callers,
         Closes(c), AllFinished(istatus), rstatus \in {"pending", "running"},
         rstatus' # "completed"
  PROVE  Closes(c)'
<1>0. call[c] # NoCall
  BY DEF Closes, Waiting, NoCall
<1>1. CASE call'[c] = call[c]
  BY <1>1 DEF Closes, Waiting
<1>2. CASE CallStep(c)
  <2>1. CASE Waiting(c) /\ call[c].out \in Finished /\ ~CompleteReload(c)
    BY <1>2, <2>1, WaitingStep DEF Closes
  <2>2. CASE Waiting(c) /\ call[c].out \in Finished /\ CompleteReload(c)
    <3>1. call'[c].pc = "unblock" /\ call'[c].close = AllFinished(Reloaded(c))
      BY <1>0, <2>2, CallRecord DEF CompleteReload, TypeOK, Call
    <3>2. AllFinished(Reloaded(c))
      BY <2>2 DEF Reloaded, AllFinished, TypeOK
    <3> QED  BY <3>1, <3>2 DEF Closes
  <2>3. CASE call[c].pc = "unblock" /\ call[c].close
    <3>1. CASE CompleteFinish(c)
      <4>1. Goto(c, "close")
        BY <2>3, <3>1 DEF CompleteFinish
      <4> QED  BY <1>0, <4>1, GotoFields DEF Closes
    <3>2. ASSUME NEW d \in Item, CompleteUnblock(c, d)
          PROVE  Closes(c)'
      <4>1. call'[c] = [call[c] EXCEPT !.todo = call[c].todo \ {d}]
        BY <3>2 DEF CompleteUnblock, TypeOK
      <4>2. call'[c].pc = "unblock" /\ call'[c].close = call[c].close
        BY <1>0, <2>3, <4>1, CallRecord DEF Call
      <4> QED  BY <2>3, <4>2 DEF Closes
    <3> QED
      BY <1>2, <2>3, <3>1, <3>2
      DEF CallStep, CompleteWrite, CompleteRelease, CompleteHeal, CompleteDone, AutoCheck,
          AutoClose, CompleteReload, CompleteClose, ResetWrite
  <2>4. CASE call[c].pc = "close"
    BY <1>2, <2>4
    DEF CallStep, CompleteWrite, CompleteRelease, CompleteHeal, CompleteDone, AutoCheck,
        AutoClose, CompleteReload, CompleteUnblock, CompleteFinish, CompleteClose, ResetWrite
  <2> QED  BY <2>1, <2>2, <2>3, <2>4 DEF Closes
<1> QED  BY <1>0, <1>1, <1>2, CallsMove, NoDeaths

\* So no pending item whose predecessors are closed is ever forgotten,
LEMMA ServedStep ==
  ASSUME MaxDeaths = 0, TypeOK, WaitInv, [Next]_vars, Rooted', NEW i \in Item,
         istatus'[i] = "pending", PredsClosed(i)'
  PROVE  \E c \in Callers : Serves(c, i)'
<1>1. CASE istatus[i] = "pending" /\ PredsClosed(i)
  BY <1>1, ServesStep DEF WaitInv, Answered
<1>2. CASE ~PredsClosed(i)
  <2>1. PICK p \in Preds(i) : istatus[p] \notin Outcome /\ istatus'[p] \in Outcome /\ p \in Item
    BY <1>2 DEF PredsClosed, Preds
  <2>2. PICK c \in Callers : CompleteWrite(c) /\ call[c].item = p
    BY <2>1, PendingStep DEF WaitInv
  <2> QED  BY <2>1, <2>2, WritesThenWaits DEF Serves, Preds
<1>3. CASE rstatus = "planning" /\ PredsClosed(i)
  <2>1. PICK p \in Item : p \in Preds(i)
    BY DEF Rooted, Preds
  <2> QED  BY <1>3, <2>1 DEF WaitInv, Stages, PredsClosed
<1> QED  BY <1>1, <1>2, <1>3, PendingStep DEF WaitInv

\* and no rollout whose items are all finished stays open.
LEMMA ClosingStep ==
  ASSUME Undisturbed, "halt" \notin Ops, "cancel" \notin Ops, Item # {},
         TypeOK, WaitInv, [Next]_vars,
         rstatus' \in {"pending", "running"}, AllFinished(istatus')
  PROVE  \E c \in Callers : Closes(c)'
<1>0. MaxDeaths = 0 /\ Stages
  BY DEF Undisturbed, WaitInv
<1>1. rstatus # "completed"
  BY <1>0, LeadsMove DEF LeadMoves
<1>2. CASE ~AllFinished(istatus)
  <2>1. PICK i \in Item : istatus[i] \notin Finished \cup {"absent"}
    BY <1>2 DEF AllFinished
  <2>2. istatus[i] # "absent" /\ istatus'[i] \in Finished
    <3>1. RowMoves(i)
      BY <1>0, RowsMove
    <3>2. ASSUME NEW c \in Callers, CompleteWrite(c), call[c].item = i
          PROVE  istatus'[i] # "absent"
      BY <3>2, PendingStep, WritesThenWaits, CallRecord, <1>0, <2>1
      DEF Waiting, AllFinished, CompleteWrite, NoCall, Outcome
    <3> QED  BY <2>1, <3>1, <3>2 DEF RowMoves, AllFinished
  <2>3. PICK c \in Callers : CompleteWrite(c) /\ call[c].item = i
    BY <1>0, <2>1, <2>2, PendingStep DEF Finished, Outcome
  <2> QED  BY <2>2, <2>3, WritesThenWaits DEF Closes
<1>3. CASE AllFinished(istatus) /\ rstatus \in {"pending", "running"}
  BY <1>0, <1>3, ClosesStep DEF WaitInv, Answered
<1>4. CASE AllFinished(istatus) /\ rstatus = "planning"
  <2>1. istatus' = istatus /\ \A i \in Item : istatus[i] # "absent"
    BY <1>0, <1>4, LeadsMove DEF LeadMoves
  <2>2. \A i \in Item : istatus[i] \notin Outcome
    BY <1>0, <1>4 DEF Stages
  <2> QED  BY <1>4, <2>1, <2>2 DEF AllFinished, Finished, Outcome
<1> QED  BY <1>0, <1>1, <1>2, <1>3, <1>4, LeadsMove DEF Stages, LeadMoves

\* Completions that overlap lose nothing between them, nor do the resume's sweep,
\* resets and users' updates: when all is quiet in a running rollout, an item is
\* pending only behind one that is not closed, and some item is not finished.
\* plan_rollout refuses an empty list of items.
THEOREM NoneWaits ==
  ASSUME Undisturbed, "halt" \notin Ops, "cancel" \notin Ops, Item # {}
  PROVE  Spec => []NoneWaitsInVain
<1>1. Init => WaitInv
  BY DEF Init, WaitInv, Stages, Rooted, Answered, Fresh, LeadOp, Outcome
<1>2. TypeOK /\ TypeOK' /\ WaitInv /\ [Next]_vars => WaitInv'
  <2> SUFFICES ASSUME TypeOK, TypeOK', WaitInv, [Next]_vars
               PROVE  WaitInv'
    OBVIOUS
  <2>1. Stages' /\ Rooted'
    BY StagesStep, RootedStep DEF WaitInv, Undisturbed
  <2>2. Answered'
    BY <2>1, ServedStep, ClosingStep DEF Answered, Undisturbed
  <2> QED  BY <2>1, <2>2 DEF WaitInv
<1>3. WaitInv => NoneWaitsInVain
  <2> SUFFICES ASSUME WaitInv, Quiet, rstatus = "running"
               PROVE  NoneWaitsInVain
    BY DEF NoneWaitsInVain
  <2>1. \A c \in Callers : ~Closes(c) /\ \A i \in Item : ~Serves(c, i)
    BY DEF Quiet, Closes, Serves, Waiting
  <2> QED  BY <2>1 DEF WaitInv, Answered, NoneWaitsInVain, PredsClosed
<1> QED  BY <1>1, <1>2, <1>3, RolloutTypeCorrect, PTL DEF Spec

-----------------------------------------------------------------------------
(* Requests that overlap: what may overwrite the outcome of an item *)

\* A completion writes only what it found unfinished.
SeenUnfinished(c) == call[c].pc = "write" => call[c].seen \notin Finished

LEMMA BeginsUnfinished ==
  ASSUME TypeOK, NEW c \in Callers, NEW i \in Item, NEW out \in Outcome,
         BeginComplete(c, i, out)
  PROVE  SeenUnfinished(c)'
<1>1. call'[c] = NewCall(Accepted(i, out), i, out)
  BY DEF BeginComplete, TypeOK
<1>2. call'[c].pc = Accepted(i, out) /\ call'[c].seen = istatus[i]
  BY <1>1 DEF NewCall
<1>3. Accepted(i, out) = "write" => istatus[i] \notin Finished
  BY DEF Accepted, Finished
<1> QED  BY <1>2, <1>3 DEF SeenUnfinished

LEMMA DeathsEndCalls ==
  ASSUME TypeOK, Deaths, NEW c \in Callers
  PROVE  call'[c] = call[c] \/ call'[c] = NoCall \/ call'[c].pc = "reload"
<1>1. ASSUME NEW d \in Callers, CallDies(d)
      PROVE  call'[c] = call[c] \/ call'[c] = NoCall
  BY <1>1, GotoIdle DEF CallDies
<1>2. ASSUME NEW d \in Callers, CheckFails(d)
      PROVE  call'[c] = call[c] \/ call'[c] = NoCall \/ call'[c].pc = "reload"
  <2>1. call[d] # NoCall
    BY <1>2 DEF CheckFails, NoCall
  <2>2. CASE Goto(d, "idle")
    BY <2>2, GotoIdle
  <2>3. CASE Goto(d, "reload")
    BY <2>1, <2>3, GotoFields
  <2> QED  BY <1>2, <2>2, <2>3 DEF CheckFails, AfterCheck
<1>3. ASSUME NEW o \in LeadOp, LeadDies(o)
      PROVE  call'[c] = call[c]
  BY <1>3 DEF LeadDies
<1>4. ASSUME NEW i \in Item, DispatchDies(i)
      PROVE  call'[c] = call[c]
  BY <1>4 DEF DispatchDies
<1> QED  BY <1>1, <1>2, <1>3, <1>4 DEF Deaths

LEMMA UnfinishedKept ==
  ASSUME TypeOK, [Next]_vars, NEW c \in Callers, SeenUnfinished(c)
  PROVE  SeenUnfinished(c)'
<1>1. CASE call'[c] = call[c]
  BY <1>1 DEF SeenUnfinished
<1>2. CASE call'[c] = NoCall
  BY <1>2 DEF SeenUnfinished, NoCall
<1>3. CASE Deaths
  BY <1>1, <1>2, <1>3, DeathsEndCalls DEF SeenUnfinished
<1>4. CASE CallStep(c)
  BY <1>2, <1>4, CallGoes DEF SeenUnfinished
<1>5. ASSUME NEW i \in Item, ResetRead(c, i) \/ \E s \in {"done", "cancelled"} : UserCloses(c, i, s)
      PROVE  SeenUnfinished(c)'
  BY <1>5 DEF ResetRead, UserCloses, NewCall, TypeOK, SeenUnfinished
<1>6. ASSUME NEW i \in Item, NEW out \in Outcome, CompleteRead(c, i, out)
      PROVE  SeenUnfinished(c)'
  BY <1>6, BeginsUnfinished DEF CompleteRead
<1>7. ASSUME NEW i \in Item, SweepCall(i), c = Sweep
      PROVE  SeenUnfinished(c)'
  <2>1. BeginComplete(Sweep, i, "completed") \/ call' = call
    BY <1>7 DEF SweepCall
  <2> QED  BY <1>1, <1>7, <2>1, BeginsUnfinished DEF Outcome
<1> QED  BY <1>1, <1>3, <1>4, <1>5, <1>6, <1>7, CallsMove

\* Whatever requests overlap and wherever they stop, a finished item is
\* overwritten only by a completion or a resume that had read it before it was.
THEOREM StaleOverwrites == Spec => OutcomeYieldsToStale
<1> DEFINE Seen == \A c \in Callers : SeenUnfinished(c)
           Yields(i) == (\E c \in Callers : LateWrite(c, i)) \/ LateRestore(i)
<1>1. Init => Seen
  BY DEF Init, SeenUnfinished, NoCall
<1>2. TypeOK /\ Seen /\ [Next]_vars => Seen'
  <2> SUFFICES ASSUME TypeOK, Seen, [Next]_vars, NEW c \in Callers
               PROVE  SeenUnfinished(c)'
    OBVIOUS
  <2> QED  BY UnfinishedKept
<1>3. TypeOK /\ Seen /\ [Next]_vars
      => \A i \in Item : istatus[i] \in Finished /\ istatus'[i] # istatus[i] => Yields(i)
  <2> SUFFICES ASSUME TypeOK, Seen, [Next]_vars, NEW i \in Item, istatus[i] \in Finished,
                      istatus'[i] # istatus[i]
               PROVE  Yields(i)
    OBVIOUS
  <2> USE DEF TypeOK, Finished
  <2>1. CASE istatus' = istatus
    BY <2>1
  <2>2. ASSUME NEW c \in Callers, CallStep(c)
        PROVE  Yields(i)
    <3>1. CASE CompleteWrite(c)
      <4>1. /\ call[c].pc = "write" /\ call[c].seen \notin Finished
            /\ istatus' = [istatus EXCEPT ![call[c].item] = call[c].out]
        BY <3>1 DEF CompleteWrite, SeenUnfinished
      <4>2. call[c].item = i /\ istatus'[i] = call[c].out
        BY <4>1
      <4> QED  BY <4>1, <4>2 DEF LateWrite
    <3>2. CASE ~CompleteWrite(c)
      BY <2>1, <2>2, <3>2
      DEF CallStep, CompleteRelease, CompleteHeal, CompleteDone, AutoCheck, AutoClose,
          CompleteReload, CompleteUnblock, CompleteFinish, CompleteClose, ResetWrite
    <3> QED  BY <3>1, <3>2
  <2>3. ASSUME NEW j \in Item, DispatchStep(j) \/ BuildMoves(j)
        PROVE  Yields(i)
    BY <2>1, <2>3 DEF DispatchStep, DispatchInsert, DispatchLink, DispatchActive, BuildMoves
  <2>4. CASE PlanStep \/ StartWrite
    BY <2>1, <2>4 DEF PlanStep, PlanFails, PlanDone, PlanItem, StartWrite
  <2>5. CASE StopStep
    BY <2>1, <2>5 DEF StopStep, StopStatus, HaltItems, CancelItems, StopRuns, StopLocks, Live
  <2>6. CASE ResumeStep
    <3>1. ASSUME NEW j \in Item, ResumeItem(j)
          PROVE  LateRestore(i)
      BY <3>1 DEF ResumeItem, LateRestore
    <3> QED  BY <2>1, <2>6, <3>1
             DEF ResumeStep, ResumeSnapshot, ResumeLock, ResumeStatus, SweepSelect, SweepCall
  <2>7. CASE Requests
    BY <2>1, <2>7
    DEF Requests, PlanBegin, StartRead, HaltRead, CancelRead, ResumeRead, DispatchCheck,
        ResetRead, CompleteRead, UserCloses
  <2>8. CASE Deaths
    BY <2>1, <2>8 DEF Deaths, CallDies, CheckFails, LeadDies, DispatchDies
  <2>9. CASE UNCHANGED vars
    BY <2>1, <2>9 DEF vars
  <2> QED  BY <2>2, <2>3, <2>4, <2>5, <2>6, <2>7, <2>8, <2>9 DEF Next
<1> QED  BY <1>1, <1>2, <1>3, RolloutTypeCorrect, PTL DEF Spec, OutcomeYieldsToStale

====
