-------------------------- MODULE RolloutContract --------------------------
(***************************************************************************)
(* What a rollout promises about the order of its items, whatever requests *)
(* act on it: an item waits, is opened for work once everything before it  *)
(* is closed, and is closed for good.  Closing needs no permission: an     *)
(* item may be halted or skipped at any time, and others along with it.    *)
(***************************************************************************)
CONSTANTS Item, Edges   \* <<p, i>> \in Edges: p comes before i

VARIABLE stage          \* [Item -> {"waiting", "open", "closed"}]

Init == stage = [i \in Item |-> "waiting"]

Moves(i) ==
  \/ stage'[i] = stage[i]
  \/ /\ stage[i] = "waiting" /\ stage'[i] = "open"
     /\ \A p \in Item : <<p, i>> \in Edges => stage[p] = "closed"
  \/ stage[i] \in {"waiting", "open"} /\ stage'[i] = "closed"

Next == \A i \in Item : Moves(i)

Spec == Init /\ [][Next]_stage

=============================================================================
