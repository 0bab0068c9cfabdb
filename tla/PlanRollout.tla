---------------------------- MODULE PlanRollout -----------------------------
(***************************************************************************)
(* Planning a rollout (plan_rollout of services/rollout_service.py): the   *)
(* legality contract, the derivation of the graph, the rows it leaves, and *)
(* the manager that works through them.  People go on editing the items    *)
(* while a request is planning, and afterwards.                            *)
(*                                                                         *)
(* An action is the code between two awaits.  What Rollout models in its   *)
(* steps (start, dispatch, completion, each with its own interleavings) is *)
(* one step here; event rows are the subject of RolloutLog.                *)
(***************************************************************************)
EXTENDS RolloutDag

CONSTANTS
  Item,    \* the items on the board
  Project, \* the projects they belong to
  Name,    \* the components of paths
  File,    \* the files of the repository, as paths
  Mixes,   \* bound: inputs, edits and crashes of a behaviour
  Nil

\* What an item names in files_to_modify, and the columns a plan reads.
Entry   == [names : SUBSET Seq(Name), is : Shape]
ItemRow == [status : {"ready", "open", "done"}, groomed : BOOLEAN,
            files : SUBSET Entry, project : Project]

ASSUME PlanAssumption ==
  /\ IsFiniteSet(Item) /\ File \subseteq Seq(Name)
  /\ Nil \notin {"planning", "failed", "pending", "running", "completed", "ready",
                "dispatched", "skipped"}
  /\ Nil \notin ItemRow /\ \A edges \in SUBSET (Item \X Item) : edges # Nil
  /\ \A mix \in Mixes :
       /\ mix.items \subseteq [Item -> ItemRow \cup {Nil}] /\ mix.rows \subseteq ItemRow
       /\ mix.blockers \subseteq SUBSET (Item \X Item) /\ mix.orders \subseteq Seq(Item)
       /\ mix.edits \in Nat /\ mix.deaths \in Nat

VARIABLES
  items,    \* table items: a row, or Nil when it was deleted
  blockers, \* table item_dependencies: <<blocked, blocker>>
  config,   \* the owner has configured a dispatch service
  plan,     \* the request: item_ids, where it is and what it has read
  status,   \* autonomous_rollouts.status, Nil before the INSERT
  graph,    \* rollout_plans: nodes and edges, Nil before the INSERT
  rows,     \* rollout_items.status, Nil for no row
  bounds,   \* the mix of this behaviour
  edits     \* bound: how many edits and crashes there were

vars == <<items, blockers, config, plan, status, graph, rows, bounds, edits>>
board == <<items, blockers, config, bounds, edits>>
rollout == <<status, graph, rows>>

-----------------------------------------------------------------------------
Rule    == {"missing", "status", "groomed", "files", "blockers", "project"}
Answer  == {"planned", "illegal", "invalid", "cyclic", "error", "dead"}
Serving == {"item", "blockers", "again", "config", "insert", "derive", "failed",
            "graph", "rows", "promote"}
Outcome == {"completed", "skipped"}

PlanTypeOK ==
  /\ \A i \in Item : items[i] # Nil => items[i].status \in {"ready", "open", "done"}
  /\ blockers \subseteq Item \X Item
  /\ plan.pc \in Serving \cup Answer
  /\ plan.failures \subseteq Item \X Rule
  /\ status \in {Nil, "planning", "failed", "pending", "running", "completed"}
  /\ graph = Nil \/ graph \subseteq Item \X Item
  /\ rows \in [Item -> {Nil, "pending", "ready", "dispatched"} \cup Outcome]
  /\ edits \in 0..(bounds.edits + bounds.deaths)

\* The caller names items in an order, which may name one twice.
Init ==
  /\ bounds \in Mixes
  /\ items \in bounds.items
  /\ \E pairs \in bounds.blockers :
       blockers = {p \in pairs : items[p[1]] # Nil /\ items[p[2]] # Nil}
  /\ config \in bounds.configs
  /\ \E order \in bounds.orders :
       plan = [order |-> order, pc |-> "item", k |-> 1, failures |-> {},
               found |-> {}, files |-> [i \in Item |-> {}], pairs |-> {}, edges |-> {}]
  /\ status = Nil /\ graph = Nil /\ rows = [i \in Item |-> Nil] /\ edits = 0

-----------------------------------------------------------------------------
(* The legality contract *)

Current == plan.order[plan.k]
InPlan == Members(plan.order)
Go(pc) == plan' = [plan EXCEPT !.pc = pc]

\* On to the next item of the order, or to the step after the last.
Onward(read, next) ==
  IF plan.k < Len(plan.order) THEN [read EXCEPT !.k = @ + 1]
  ELSE [read EXCEPT !.k = 1, !.pc = next]

\* Rules 2 to 4c, on one reading of the row.
OwnFailures(row) ==
  {why \in Rule : \/ why = "status" /\ row.status # "ready"
                  \/ why = "groomed" /\ ~row.groomed
                  \/ why = "files" /\ row.files = {}}

\* Rule 6, over the items that were found.
Mismatches(found) ==
  IF Cardinality({f[2] : f \in found}) > 1 THEN {<<f[1], "project">> : f \in found}
  ELSE {}

\* Every item is looked at before the request is refused.
Judged(read) ==
  LET all == read.failures \cup Mismatches(read.found)
      next == Onward([read EXCEPT !.pc = "item"], IF all = {} THEN "again" ELSE "illegal")
  IN IF plan.k < Len(plan.order) THEN next ELSE [next EXCEPT !.failures = all]

NothingAsked ==
  /\ plan.pc = "item" /\ plan.order = <<>>
  /\ Go("invalid")
  /\ UNCHANGED <<board, rollout>>

ReadItem ==
  /\ plan.pc = "item" /\ plan.order # <<>>
  /\ LET row == items[Current]
     IN plan' = IF row = Nil
                THEN Judged([plan EXCEPT !.failures = @ \cup {<<Current, "missing">>}])
                ELSE [plan EXCEPT !.pc = "blockers",
                        !.found = @ \cup {<<Current, row.project>>},
                        !.failures = @ \cup ({Current} \X OwnFailures(row))]
  /\ UNCHANGED <<board, rollout>>

\* get_unresolved_blockers
Unresolved(i) == {b \in Item : <<i, b>> \in blockers /\ items[b].status # "done"}

\* Rule 5: a blocker inside the rollout is an edge, one outside a failure.
ReadBlockers ==
  /\ plan.pc = "blockers"
  /\ plan' = Judged([plan EXCEPT !.failures = @ \cup
                       {f \in {<<Current, "blockers">>} : Unresolved(Current) \ InPlan # {}}])
  /\ UNCHANGED <<board, rollout>>

\* The items are read again, one by one; one that is gone by now raises.
ReadAgain ==
  /\ plan.pc = "again"
  /\ IF items[Current] = Nil THEN Go("error")
     ELSE plan' = Onward([plan EXCEPT !.files[Current] = items[Current].files], "config")
  /\ UNCHANGED <<board, rollout>>

-----------------------------------------------------------------------------
(* The rows of a rollout *)

\* Without a dispatch service the rollout could never run.
LookAtConfig ==
  /\ plan.pc = "config"
  /\ Go(IF config THEN "insert" ELSE "invalid")
  /\ UNCHANGED <<board, rollout>>

InsertRollout ==
  /\ plan.pc = "insert"
  /\ status' = "planning"
  /\ Go("derive")
  /\ UNCHANGED <<board, graph, rows>>

\* derive_edges: the blockers as they are now, the files as they were read.
DeriveEdges ==
  /\ plan.pc = "derive"
  /\ LET edges == MergeEdges(plan.files, blockers, plan.order)
     IN plan' = [plan EXCEPT !.pairs = DependencyPairs(blockers, plan.order),
                   !.edges = edges,
                   !.pc = IF AssertAcyclic(edges, plan.order) THEN "graph" ELSE "failed"]
  /\ UNCHANGED <<board, rollout>>

\* The rollout is kept, as failed, for the lead to see why.
FailPlan ==
  /\ plan.pc = "failed"
  /\ status' = "failed"
  /\ Go("cyclic")
  /\ UNCHANGED <<board, graph, rows>>

InsertGraph ==
  /\ plan.pc = "graph"
  /\ graph' = plan.edges
  /\ Go("rows")
  /\ UNCHANGED <<board, status, rows>>

RowStatus(i) == IF Preds(plan.edges, i) = {} THEN "ready" ELSE "pending"

\* The primary key (rollout_id, item_id) and the reference to items.
RowIsRefused(i) == rows[i] # Nil \/ items[i] = Nil

InsertRow ==
  /\ plan.pc = "rows"
  /\ IF RowIsRefused(Current) THEN Go("error") /\ UNCHANGED rows
     ELSE /\ rows' = [rows EXCEPT ![Current] = RowStatus(Current)]
          /\ plan' = Onward(plan, "promote")
  /\ UNCHANGED <<board, status, graph>>

Promote ==
  /\ plan.pc = "promote"
  /\ status' = "pending"
  /\ Go("planned")
  /\ UNCHANGED <<board, graph, rows>>

PlanStep ==
  \/ NothingAsked \/ ReadItem \/ ReadBlockers \/ ReadAgain \/ LookAtConfig
  \/ InsertRollout \/ DeriveEdges \/ FailPlan \/ InsertGraph \/ InsertRow \/ Promote

-----------------------------------------------------------------------------
(* People at the board *)

Edit == edits < bounds.edits /\ edits' = edits + 1

\* The columns of an item, its project and its files included.
EditItem(i) ==
  /\ Edit /\ items[i] # Nil
  /\ \E row \in bounds.rows : row # items[i] /\ items' = [items EXCEPT ![i] = row]
  /\ UNCHANGED <<blockers, config, plan, rollout, bounds>>

\* Two of these at once may close a cycle (see Board).
EditBlockers(i, b) ==
  /\ Edit /\ bounds.rewires /\ i # b /\ items[i] # Nil /\ items[b] # Nil
  /\ blockers' = IF <<i, b>> \in blockers THEN blockers \ {<<i, b>>}
                 ELSE blockers \cup {<<i, b>>}
  /\ UNCHANGED <<items, config, plan, rollout, bounds>>

\* The rows that refer to an item go with it; the plan's JSON still names it.
DeleteItem(i) ==
  /\ Edit /\ bounds.deletes /\ items[i] # Nil
  /\ items' = [items EXCEPT ![i] = Nil]
  /\ blockers' = {pair \in blockers : i \notin {pair[1], pair[2]}}
  /\ rows' = [rows EXCEPT ![i] = Nil]
  /\ UNCHANGED <<config, plan, status, graph, bounds>>

Crash ==
  /\ plan.pc \in Serving
  /\ edits < bounds.edits + bounds.deaths /\ edits' = edits + 1
  /\ Go("dead")
  /\ UNCHANGED <<items, blockers, config, rollout, bounds>>

-----------------------------------------------------------------------------
(* The manager *)

Planned == {i \in Item : rows[i] # Nil}
Over(i) == rows[i] \in Outcome

MutantStartable(i) == rows[i] = "pending"

Startable(i) == rows[i] \in {"pending", "ready"}
Expected(i) == Preds(graph, i)

\* advance_rollout: a predecessor without a row counts as pending.
NextReady == {i \in Item : Startable(i) /\ \A p \in Expected(i) : Over(p)}
Blocked   == {i \in Item : Startable(i)} \ NextReady

Start ==
  /\ status = "pending"
  /\ status' = "running"
  /\ UNCHANGED <<board, plan, graph, rows>>

\* What advance_rollout names, unless create_run refuses it.
Dispatch(i) ==
  /\ status = "running" /\ i \in NextReady
  /\ items[i].status # "done" /\ Unresolved(i) = {}
  /\ rows' = [rows EXCEPT ![i] = "dispatched"]
  /\ UNCHANGED <<board, plan, status, graph>>

MutantUnblocked(done, i) ==
  {j \in Item : done[j] = "pending" /\ i \in Expected(j)}

\* _unblock_successors
Unblocked(done, i) ==
  {j \in Item : /\ done[j] = "pending" /\ i \in Expected(j)
                /\ \A p \in Expected(j) : done[p] \in Outcome}

\* complete_item_in_rollout
Complete(i, out) ==
  /\ status = "running" /\ rows[i] = "dispatched"
  /\ LET done == [rows EXCEPT ![i] = out]
         freed == Unblocked(done, i)
     IN /\ rows' = [j \in Item |-> IF j \in freed THEN "ready" ELSE done[j]]
        /\ status' = IF \A j \in Planned : done[j] \in Outcome THEN "completed"
                     ELSE status
  /\ items' = IF out = "completed" THEN [items EXCEPT ![i].status = "done"] ELSE items
  /\ UNCHANGED <<blockers, config, plan, graph, bounds, edits>>

-----------------------------------------------------------------------------
(* Readers *)

\* get_rollout_plan, when there is a plan: the dialog that shows the graph.
PlanView == [i \in Planned |-> [status |-> rows[i], predecessors |-> Expected(i)]]

\* get_active_rollout_for_project: the banner's progress bar.
Progress == [total |-> Cardinality(Planned), done |-> Cardinality({i \in Planned : Over(i)})]

-----------------------------------------------------------------------------
Next ==
  \/ PlanStep \/ Crash \/ Start
  \/ \E i \in Item : \/ EditItem(i) \/ DeleteItem(i) \/ Dispatch(i)
                     \/ \E b \in Item : EditBlockers(i, b)
                     \/ \E out \in Outcome : Complete(i, out)

Spec == Init /\ [][Next]_vars

\* The request runs on; a manager that is launched dispatches what it is told
\* is ready, and each build ends.
FairSpec ==
  /\ Spec
  /\ WF_vars(PlanStep)
  /\ \A i \in Item : WF_vars(Dispatch(i)) /\ WF_vars(\E out \in Outcome : Complete(i, out))

-----------------------------------------------------------------------------
(* What a plan promises.                                                   *)

\* The files an item will change, if it does what its grooming says: the
\* named ones, and all that is below a named directory, whatever its name, or
\* below the path of a glob.
Touched(files) ==
  {f \in File : \E a \in ItemPaths(files) : Within(a.at, f) /\ (a.is = "glob" => a.at # f)}

\* _is_directory_entry takes a name with a dot and no slash for a file.
NamesDottedDirectory(files) ==
  \E a \in ItemPaths(files), f \in File : a.is = "file" /\ Within(a.at, f) /\ a.at # f

\* Two items that are being built at the same time change no common file, by
\* what the plan read of them.
OneBuilderPerFile ==
  \A i, j \in Item :
    (i # j /\ rows[i] = "dispatched" /\ rows[j] = "dispatched")
      => \/ Touched(plan.files[i]) \cap Touched(plan.files[j]) = {}
         \/ \E k \in {i, j} : NamesDottedDirectory(plan.files[k])

\* An item is being built, or built, only after every item of the rollout
\* that blocked it when the plan was made.
BlockersComeFirst ==
  \A pair \in plan.pairs :
    (rows[pair[1]] \in {"dispatched"} \cup Outcome)
      => (Over(pair[2]) \/ items[pair[2]] = Nil)

\* There is an order in which the edges can be worked through.
Workable(edges) ==
  \E rank \in [Item -> 1..Cardinality(Item)] : \A e \in edges : rank[e[1]] < rank[e[2]]

\* A rollout that can be started has a plan that can be worked through, and a
\* row for every item that still exists.
PlansAreWhole ==
  status \in {"pending", "running", "completed"}
    => /\ graph # Nil /\ Workable(graph)
       /\ \A i \in InPlan : items[i] # Nil => rows[i] # Nil

\* The accounts of what is ready agree: the one the manager is given, the
\* stored one, and what the plan dialog shows; and the banner of a running
\* rollout never has all of its items done.
AccountsAgree ==
  (status = "running" /\ \A i \in InPlan : items[i] # Nil)
    => /\ NextReady = {i \in Item : rows[i] = "ready"}
       /\ NextReady = {i \in DOMAIN PlanView :
                         /\ PlanView[i].status \notin Outcome \cup {"dispatched"}
                         /\ \A p \in PlanView[i].predecessors :
                              PlanView[p].status \in Outcome}
       /\ Progress.done < Progress.total

\* A plan is refused for a cycle only when it has one, and never when the
\* caller names each item once and its blockers before it.
RefusedForCause ==
  plan.pc \in {"failed", "cyclic"}
    => /\ ~Workable(plan.edges) \/ Cardinality(InPlan) < Len(plan.order)
       /\ \E j, k \in DOMAIN plan.order :
            /\ j <= k
            /\ \/ <<plan.order[j], plan.order[k]>> \in plan.pairs
               \/ j # k /\ plan.order[j] = plan.order[k]

\* The contract, of the docstring of validate_legality_contract.
Broken ==
  {f \in InPlan \X Rule :
     LET row == items[f[1]] IN
     IF row = Nil THEN f[2] = "missing"
     ELSE \/ f[2] \in OwnFailures(row)
          \/ f[2] = "blockers" /\ Unresolved(f[1]) \ InPlan # {}
          \/ /\ f[2] = "project"
             /\ \E j \in InPlan : items[j] # Nil /\ items[j].project # row.project}

\* When nobody edits the items, a request is answered by the contract: it is
\* refused exactly when a rule is broken, with all the rules that are.
ContractDecides ==
  (edits = 0 /\ status # "running" /\ status # "completed")
    => /\ plan.pc = "illegal" => plan.failures = Broken /\ Broken # {}
       /\ plan.pc \in (Serving \cup Answer) \ {"item", "blockers", "illegal", "invalid"}
            => Broken = {}

\* A refused request leaves nothing behind, and a rollout stays half-planned
\* only when the process died, an item was deleted under it, or the caller
\* named an item twice.
HalfPlansAreExcused ==
  /\ plan.pc \in {"illegal", "invalid"} => status = Nil
  /\ (plan.pc \in Answer /\ status = "planning")
       => \/ plan.pc = "dead"
          \/ \E i \in InPlan : items[i] = Nil
          \/ Cardinality(InPlan) < Len(plan.order)

\* What keeps a running rollout from going on without a person: an item that
\* is gone, one that is done already, or a blocker the plan does not know.
NeedsAPerson ==
  \/ \E i \in InPlan : items[i] = Nil
  \/ \E i \in Blocked \cup NextReady :
       \/ items[i].status = "done"
       \/ \E b \in Unresolved(i) : rows[b] = Nil \/ Over(b) \/ b \notin Expected(i)

\* Every rollout that runs comes to its end.
PlansFinish == (status = "running") ~> (status = "completed" \/ NeedsAPerson)

\* No two builders share a file, and none begins before the item's blockers.
BuildsAreSafe == OneBuilderPerFile /\ BlockersComeFirst

\* A request that plans leaves what it answers: a whole plan, a refusal for
\* the reasons given, and a half-made plan only for a cause.
PlanInv ==
  PlanTypeOK /\ PlansAreWhole /\ RefusedForCause /\ ContractDecides /\ HalfPlansAreExcused
=============================================================================
