----------------------------- MODULE MCRollout -----------------------------
(***************************************************************************)
(* Instances of Rollout for TLC.                                           *)
(***************************************************************************)
EXTENDS Rollout

CONSTANTS a, b, c

\* One item before another, and a join of two.
Pair  == {<<a, b>>}
Join  == {<<a, c>>, <<b, c>>}
None  == {}
=============================================================================
