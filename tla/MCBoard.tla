----------------------------- MODULE MCBoard ------------------------------
(***************************************************************************)
(* An instance of Board and Accounts for TLC: the first user owns both     *)
(* projects.  A behaviour serves calls and requests of one mix, two at a   *)
(* time.                                                                   *)
(***************************************************************************)
EXTENDS Accounts, TLC

CONSTANTS u1, u2, u3, p1, p2, m1, m2, m3, w1

MCOwner == p1 :> u1 @@ p2 :> u1
MCHome  == u1 :> m1 @@ u2 :> m2 @@ u3 :> m3

Blockers == {u1, "add_blocker", "remove_blocker"}
Moves    == {u1, "add_blocker", "project", "update", "share"}
Shares   == {u1, u2, "project", "update", "share", "unshare"}
Claims   == {u1, "update", "claim", "assigned", "version"}
Engines  == {u1, "update", "engine"}
Starts   == {u1, "update", "status", "add_blocker"}
Locks    == {u1, "update", "project", "lock", "delete_project"}
Removals == {u1, "add_blocker", "delete"}
Files    == {u1, "upload", "delete_file", "delete", "delete_project"}
Parents  == {u1, "create", "post", "unpost", "delete", "delete_project"}
Settings == {u1, "create_project", "update_project", "delete_project"}

\* Accounts: registrations, passwords, keys, and users deleted meanwhile.
Joining  == {u1, u2, u3, "register", "revoke"}
Heirs    == {u1, u2, "register", "delete_user"}
Passing  == {u1, u2, "password", "reset", "issue"}
Keys     == {u1, "new_key", "drop_key", "password"}
Deleting == {u1, u2, "delete_user", "create", "publish"}
Evicting == {u1, u2, "delete_user", "create_project"}
Issuing  == {u1, u2, "delete_user", "invite", "issue"}
Promoting == {u1, u2, "delete_user", "promote", "new_key"}
Guests   == {u1, u2, "delete_user", "share", "post", "update", "assigned", "publish"}

\* Mixes that start with any rights and keys, one call already served.
Ending == {Keys, Deleting, Evicting, Issuing, Promoting}

MCMixes == {Blockers, Moves, Shares, Claims, Engines, Starts, Locks, Removals, Files,
             Parents, Settings, Joining, Heirs, Passing, Keys, Deleting, Evicting, Issuing,
             Promoting, Guests}

\* The items there are at first: three to draw a cycle through, and room for a
\* new one where items are created.  Registrations need users that are not there.
MCInit ==
  /\ Init
  /\ asked = IF mix \in Ending THEN 1 ELSE 0
  /\ mix = Evicting \/ project[p1].live
  /\ project[p2].live <=> mix \notin {Settings, Evicting}
  /\ \A i \in Item : Live(i) => item[i].project = p1
  /\ Cardinality({i \in Item : Live(i)}) =
       CASE mix = Blockers -> 3
         [] mix \in {Moves, Starts, Removals} -> 2
         [] mix \in Ending \cup {Settings, Joining, Heirs, Passing} -> 0
         [] OTHER -> 1
  /\ \E admins \in IF mix \in Ending \ {Keys} THEN {{u1}, {u1, u2}} ELSE {{u1}} :
       account = [u \in User |->
                    IF u = u1 \/ (u = u2 /\ mix \notin {Joining, Heirs})
                    THEN [NoAccount EXCEPT !.state = "live", !.word = w1, !.mail = Home[u],
                                           !.admin = u \in admins]
                    ELSE NoAccount]
  /\ invite = [t \in Token |-> IF mix \in {Joining, Heirs}
                               THEN [NoInvite EXCEPT !.state = "open", !.by = u1]
                               ELSE NoInvite]
  /\ link = [l \in Link |-> IF mix = Passing
                            THEN [NoReset EXCEPT !.state = "open", !.of = u2] ELSE NoReset]
  /\ \E held \in IF mix = Keys THEN SUBSET Key ELSE {{}} :
       key = [k \in Key |-> IF k \in held THEN [state |-> "open", of |-> u1] ELSE NoKey]
  /\ worked \in IF mix \in {Deleting, Evicting} /\ ~account[u2].admin THEN SUBSET {u2} ELSE {{}}
  /\ told = IF "publish" \in mix THEN {u \in User : Alive(u)} ELSE {}
  /\ AccountsInit
MCSpec == MCInit /\ [][AccountsNext]_accountsVars

Symmetry == Permutations(Item) \cup Permutations(Caller)
=============================================================================
