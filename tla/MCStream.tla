----------------------------- MODULE MCStream ------------------------------
(***************************************************************************)
(* Instances of RolloutLog and EventStream for TLC.                        *)
(***************************************************************************)
EXTENDS RolloutLog

CONSTANTS lead, member, s1, s2

\* A shared item by either user, and a private one of the member.
Shared  == [kind |-> "item_created", owner |-> lead, shared |-> TRUE]
Guest   == [kind |-> "item_created", owner |-> member, shared |-> TRUE]
Private == [kind |-> "item_created", owner |-> member, shared |-> FALSE]

Nothing == [browsers |-> {}, connects |-> 0, events |-> 0, emits |-> {},
            failures |-> 0, starts |-> 0, ops |-> {}, calls |-> 0]

\* One browser that comes back while three events are published.
Resuming == [Nothing EXCEPT !.browsers = {s1}, !.connects = 2, !.events = 3,
                            !.emits = {Shared}]

\* Two browsers, two events, a failing statement.
Sharing == [Nothing EXCEPT !.browsers = {s1, s2}, !.connects = 1,
                           !.events = 2, !.emits = {Shared, Private},
                           !.failures = 1]

\* A shutdown, a crash, and a browser that comes back after either.
Closing == [Nothing EXCEPT !.browsers = {s1}, !.connects = 2, !.events = 2,
                           !.emits = {Shared, Guest}, !.starts = 1]

\* Requests on the rollout that overlap; with a crash; with a browser.
Finishing == [Nothing EXCEPT !.ops = {"complete"}, !.calls = 3]
Reporting == [Nothing EXCEPT !.ops = {"update", "answer"}, !.calls = 3]
Dying     == [Nothing EXCEPT !.ops = Op, !.calls = 2, !.starts = 1]
Showing   == [Nothing EXCEPT !.ops = Op, !.calls = 1, !.events = 2,
                             !.browsers = {s1}, !.connects = 1]

MCMixes == {Resuming, Sharing, Closing, Finishing, Reporting, Dying,
            Showing}
=============================================================================
