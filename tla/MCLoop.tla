------------------------------- MODULE MCLoop -------------------------------
(***************************************************************************)
(* An instance of LoopLaunch for TLC: two hosts and one label.  A          *)
(* behaviour has the operations of one mix; in most of them the rollout is *)
(* running at first and its loop, run 1, is at work on a host.             *)
(***************************************************************************)
EXTENDS LoopLaunch

CONSTANTS h1, h2, l1

Launching  == {"launch", "lead", "cancel", "halt"}
Relaunch   == {"resume", "halt", "crash", "close", "lost"}
Moving     == {"resume", "crash", "drain", "undrain"}
Stopping   == {"build", "cancel", "resume", "lost"}
Halting    == {"build", "halt", "stop", "lost"}
Draining   == {"build", "add", "drain", "undrain", "labels", "remove"}
Restarting == {"launch", "resume", "restart"}
Unlisting  == {"stop", "remove"}
Leading    == {"resume", "halt", "build"}
Recalling  == {"stop", "cancel", "lost"}
MCMixes == {Launching, Relaunch, Moving, Stopping, Halting, Draining, Restarting,
            Unlisting, Leading, Recalling}

\* A loop on h1, launched with a pin or without.
Launched ==
  \E pin \in {0, Number[h1]} :
    /\ rollout = [status |-> "running", pin |-> pin]
    /\ runs = <<[mode |-> "launch", pin |-> pin, allow |-> FALSE, status |-> "running",
                 url |-> h1, remote |-> TRUE]>>
    /\ live = [r \in RunId |-> IF r = 1 THEN h1 ELSE Nil]
    /\ held = [h \in Host |-> IF h = h1 THEN 1 ELSE 0]
    /\ task = [r \in RunId |-> IF r = 1 THEN [NoTask EXCEPT !.at = "watch", !.host = h1]
                               ELSE NoTask]

\* And a build of it on h1.
Working ==
  /\ rollout = [status |-> "running", pin |-> 0]
  /\ runs = [r \in 1..2 |-> [mode |-> IF r = 1 THEN "launch" ELSE "build", pin |-> 0,
                            allow |-> FALSE, status |-> "running", url |-> h1,
                            remote |-> TRUE]]
  /\ live = [r \in RunId |-> IF r <= 2 THEN h1 ELSE Nil]
  /\ held = [h \in Host |-> IF h = h1 THEN 1 ELSE 0]
  /\ task = [r \in RunId |-> IF r <= 2 THEN [NoTask EXCEPT !.at = "watch", !.host = h1]
                             ELSE NoTask]

\* The lead drives the rollout: there was never a loop.
Led ==
  /\ rollout = [status |-> "running", pin |-> 0]
  /\ runs = <<>>
  /\ live = [r \in RunId |-> Nil]
  /\ held = [h \in Host |-> 0]
  /\ task = [r \in RunId |-> NoTask]

MCInit ==
  /\ Idle
  /\ asked = IF mix = Draining THEN 1 ELSE 0
  /\ CASE mix \in {Launching, Restarting} -> Unlaunched
       [] mix = Leading -> Led
       [] mix = Recalling -> Working /\ h1 \in DOMAIN reg
       [] OTHER -> Launched /\ h1 \in DOMAIN reg
  /\ \A h \in DOMAIN reg : reg[h].labels = Label \/ (mix = Draining /\ h = h2)
  /\ mix = Draining => (rollout.pin = 0 <=> h2 \in DOMAIN reg)
MCSpec == MCInit /\ [][Next]_vars /\ Fairness
=============================================================================
