---------------------------- MODULE RunContract -----------------------------
(***************************************************************************)
(* What dispatching promises about a run, whatever the board does to keep  *)
(* it: what the run's row reports, and what becomes of the agent's work.   *)
(* Work starts at most once and only for a run that was dispatched; a      *)
(* success is reported only of work that succeeded; and once work has      *)
(* started, the report does not stay open for ever.                        *)
(*                                                                         *)
(* Runs are independent, and one step of the board may move several (a     *)
(* shutdown does), so the next-state relation is a conjunction over runs.  *)
(***************************************************************************)
CONSTANT Run

VARIABLES
  report, \* [Run -> {"absent", "open", "success", "closed"}]
  work    \* [Run -> {"none", "active", "succeeded", "ended"}]

vars == <<report, work>>

Init ==
  /\ report = [r \in Run |-> "absent"]
  /\ work = [r \in Run |-> "none"]

\* How the work of run r may move.  Nothing leads back to "none" or "active".
WorkMoves(r) ==
  \/ work'[r] = work[r]
  \/ work[r] = "none" /\ report[r] # "absent" /\ work'[r] = "active"
  \/ work[r] = "active" /\ work'[r] \in {"succeeded", "ended"}

\* How its report may move.  A closed report may be opened again by the launch
\* that its closing came too late to stop, and may be corrected.
ReportMoves(r) ==
  \/ report'[r] = report[r]
  \/ report[r] = "absent" /\ report'[r] = "open"
  \/ report[r] # "absent" /\ report'[r] = "closed"
  \/ report[r] # "absent" /\ report'[r] = "success" /\ work[r] = "succeeded"
  \/ report[r] = "closed" /\ report'[r] = "open" /\ work[r] # "none"

Next == \A r \in Run : WorkMoves(r) /\ ReportMoves(r)

\* A launched run is settled.
Settled == \A r \in Run :
  (report[r] = "open" /\ work[r] # "none") ~> (report[r] # "open")

Spec == Init /\ [][Next]_vars /\ Settled

=============================================================================
