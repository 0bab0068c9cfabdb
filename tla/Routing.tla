------------------------------ MODULE Routing ------------------------------
(***************************************************************************)
(* Which dispatch host a run goes to: the rows of the registry that were   *)
(* read, the capability labels the run requires, and what each host says   *)
(* of itself when asked.  pick_dispatch_host is a function of these and    *)
(* changes nothing; LoopLaunch calls it.                                   *)
(***************************************************************************)
EXTENDS Naturals

CONSTANTS
  Host,  \* dispatch hosts, by URL
  Label  \* capability labels, lower case and stripped

\* dispatch_hosts: id is the primary key, drained is drain_reason IS NOT NULL.
Row  == [id : Nat, drained : BOOLEAN, labels : SUBSET Label]
\* What get_dispatch_hosts returns.
Rows == UNION {[H -> Row] : H \in SUBSET Host}
\* GET /info: the host answers and has the engine and the agent; its free slots:
\* max_concurrent_runs - active_runs - parked_rollout_loops, 0 for none or fewer.
Info == [fit : BOOLEAN, free : Nat]
Refusal == {"missing", "draining", "unmet", "incompatible", "full"}

Qualified(row, required) == required \subseteq row.labels
MutantUndrained(rows) == DOMAIN rows
Undrained(rows) == {h \in DOMAIN rows : ~rows[h].drained}
WithId(rows, id) == {h \in DOMAIN rows : rows[h].id = id}

-----------------------------------------------------------------------------
(* A pinned run: one host, with all it takes, or a refusal *)

\* Drain is looked at before labels, and both before the host is asked.
PinnedRefusals(rows, id, required, allow, info) ==
  {why \in Refusal :
     \/ why = "missing" /\ WithId(rows, id) = {}
     \/ \E h \in WithId(rows, id) :
          \/ why = "draining" /\ rows[h].drained /\ ~allow
          \/ /\ allow \/ ~rows[h].drained
             /\ \/ why = "unmet" /\ ~Qualified(rows[h], required)
                \/ /\ Qualified(rows[h], required)
                   /\ \/ why = "incompatible" /\ ~info[h].fit
                      \/ why = "full" /\ info[h].fit /\ info[h].free = 0}

-----------------------------------------------------------------------------
(* An auto-routed run: drained hosts are partitioned out, then the labels, *)
(* then what the hosts say, then the most free slots                       *)

LabelOk(rows, required) == {h \in Undrained(rows) : Qualified(rows[h], required)}
Candidates(rows, required, excluded, info) ==
  {h \in LabelOk(rows, required) : h \notin excluded /\ info[h].fit}
\* max by free slots; the order of the rows decides among equals, and a full
\* host is not left out: it answers 503 and is excluded then.
Best(hosts, info) == {h \in hosts : \A g \in hosts : info[g].free <= info[h].free}

\* Every host drained, labels or no labels, is "draining".  No host left has
\* the labels: when a drained one has them, that is the reason to give.

AutoRefusals(rows, required, excluded, info) ==
  LET parked == {h \in DOMAIN rows : rows[h].drained /\ Qualified(rows[h], required)} IN
  {why \in Refusal :
     \/ why = "draining" /\ DOMAIN rows # {} /\ Undrained(rows) = {}
     \/ /\ DOMAIN rows = {} \/ Undrained(rows) # {}
        /\ \/ /\ required # {} /\ LabelOk(rows, required) = {}
              /\ why = IF parked # {} THEN "draining" ELSE "unmet"
           \/ /\ why = "incompatible" /\ (required = {} \/ LabelOk(rows, required) # {})
              /\ Candidates(rows, required, excluded, info) = {}}

-----------------------------------------------------------------------------
\* pick_dispatch_host: the hosts it may return, and the refusals it may raise;
\* one of the two is empty.  id 0 is no pin.
Refused(rows, id, required, allow, excluded, info) ==
  IF id # 0 THEN PinnedRefusals(rows, id, required, allow, info)
  ELSE AutoRefusals(rows, required, excluded, info)
Picked(rows, id, required, allow, excluded, info) ==
  IF Refused(rows, id, required, allow, excluded, info) # {} THEN {}
  ELSE IF id # 0 THEN WithId(rows, id)
  ELSE Best(Candidates(rows, required, excluded, info), info)
=============================================================================
