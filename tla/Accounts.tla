------------------------------ MODULE Accounts -----------------------------
(***************************************************************************)
(* Accounts on the board: invites, registration, password-reset links,     *)
(* passwords, API keys, and what an administrator does to other users      *)
(* (auth.py, routes/auth_routes.py, routes/admin_routes.py).               *)
(*                                                                         *)
(* As on the Board, an action is one statement and the code up to the      *)
(* next, and requests of both kinds are served together.  Registration and *)
(* the use of a reset link are the two requests with a transaction; what   *)
(* one writes shows when it commits, so its writes are one action, and     *)
(* until then FOR UPDATE keeps the invite or the link to itself.  (This is *)
(* PostgreSQL; the SQLite pool of local mode has neither.)                 *)
(***************************************************************************)
EXTENDS Board

CONSTANTS
  Address,  \* e-mail addresses
  Home,     \* [User -> Address], the address of a user there is at the start
  Word,     \* passwords
  Token, Link, Key  \* ids for invites, password resets and API keys

ASSUME AccountsAssumption ==
  /\ Home \in [User -> Address]
  /\ \A u, v \in User : Home[u] = Home[v] => u = v
  /\ Nil \notin Address \cup Word \cup Token \cup Link \cup Key

VARIABLES
  account,  \* [User -> Account], users
  invite,   \* [Token -> Invite], invites
  link,     \* [Link -> Reset], password_resets
  key,      \* [Key -> [state, of]], api_keys
  author,   \* [Child -> User \cup {Nil}], the user_id of a note or comment
  worked,   \* SUBSET User, those with a run or a rollout: nothing deletes these rows
  told,     \* SUBSET User, those that a row of events names
  req,      \* [Caller -> Request], the requests being served and their locals
  telling,  \* [Caller -> User \cup {Nil}], for whom a call has yet to publish its event
  \* History, read by the properties only:
  since,    \* [Caller -> ...], what was written since the request was authenticated
  duel      \* an administrator was deleted while deleting

accountVars == <<account, invite, link, key, author, worked, told>>
accountsVars == <<vars, accountVars, req, telling, since, duel>>

-----------------------------------------------------------------------------
Account == [state : {"none", "live", "gone"}, mail : Address \cup {Nil},
            admin : BOOLEAN, word : Word \cup {Nil}, invite : Token \cup {Nil}]
Stage   == {"unused", "open", "used", "gone"}
Invite  == [state : Stage, by : User \cup {Nil}, of : User \cup {Nil}]
Reset   == [state : Stage, of : User \cup {Nil}, expired : BOOLEAN]

NoAccount == [state |-> "none", mail |-> Nil, admin |-> FALSE, word |-> Nil,
              invite |-> Nil]
NoInvite  == [state |-> "unused", by |-> Nil, of |-> Nil]
NoReset   == [state |-> "unused", of |-> Nil, expired |-> FALSE]
NoKey     == [state |-> "unused", of |-> Nil]
NoReq     == [op |-> "none"]

Alive(u) == account[u].state = "live"
Stored(r)  == r.state \in {"open", "used"}

Request ==
  {NoReq}
    \cup [op : {"register"}, at : {"invite", "mail", "commit"}, by : User, t : Token,
          mail : Address, word : Word]
    \cup [op : {"reset"}, at : {"link", "commit"}, by : {Nil}, l : Link, word : Word,
          expired : BOOLEAN]
    \cup [op : {"password"}, at : {"auth", "write"}, by : User, via : Key \cup {Nil},
          old : Word, word : Word]
    \cup [op : {"new_key"}, at : {"auth", "insert"}, by : User, via : Key \cup {Nil}]
    \cup [op : {"drop_key"}, at : {"auth", "read", "row"}, by : User,
          via : Key \cup {Nil}, k : Key]
    \cup [op : {"invite"}, at : {"auth", "insert"}, by : User, via : Key \cup {Nil}]
    \cup [op : {"revoke"}, at : {"auth", "read", "row"}, by : User,
          via : Key \cup {Nil}, t : Token]
    \cup [op : {"issue", "promote"}, at : {"auth", "read", "write"}, by : User,
          via : Key \cup {Nil}, u : User]
    \cup [op : {"delete_user"}, at : {"auth", "read", "projects", "items", "resets",
          "invites", "keys", "posts", "row"}, by : User, via : Key \cup {Nil}, u : User]

AccountsTypeOK ==
  /\ TypeOK
  /\ account \in [User -> Account]
  /\ \A u \in User : Alive(u) => account[u].mail # Nil /\ account[u].word # Nil
  /\ invite \in [Token -> Invite]
  /\ \A t \in Token : /\ Stored(invite[t]) => invite[t].by # Nil
                      /\ invite[t].state = "used" => invite[t].of # Nil
  /\ link \in [Link -> Reset]
  /\ key \in [Key -> [state : {"unused", "open", "gone"}, of : User \cup {Nil}]]
  /\ author \in [Child -> User \cup {Nil}]
  /\ worked \subseteq User /\ told \subseteq User
  /\ req \in [Caller -> Request]
  /\ telling \in [Caller -> User \cup {Nil}]
  /\ since \in [Caller -> SUBSET ({"word", "row"} \X User \cup {"used"} \X Token)]
  /\ duel \in BOOLEAN

AccountsInit ==
  /\ Init
  /\ \E founders \in SUBSET User, admins \in SUBSET User, w \in Word :
       account = [u \in User |-> IF u \notin founders THEN NoAccount
                                 ELSE [NoAccount EXCEPT !.state = "live", !.word = w,
                                         !.mail = Home[u], !.admin = u \in admins]]
  /\ LET there == {u \in User : Alive(u)} IN
     /\ \A p \in Project : project[p].live => Owner[p] \in there
     /\ invite \in [Token -> {NoInvite} \cup {[NoInvite EXCEPT !.state = "open", !.by = u] :
                                                u \in there}]
     /\ link \in [Link -> {NoReset} \cup {[NoReset EXCEPT !.state = "open", !.of = u] :
                                            u \in there}]
     /\ key \in [Key -> {NoKey} \cup {[state |-> "open", of |-> u] : u \in there}]
     /\ worked \in SUBSET there /\ told \in SUBSET there
  /\ author = [k \in Child |-> Nil]
  /\ req = [c \in Caller |-> NoReq] /\ telling = [c \in Caller |-> Nil]
  /\ since = [c \in Caller |-> {}] /\ duel = FALSE

-----------------------------------------------------------------------------
(* The course of a request *)

Serving(c) == req[c].op # "none"
AtReq(c, op, at) == req[c].op = op /\ req[c].at = at

Demand(c, r) ==
  /\ ~Busy(c) /\ ~Serving(c) /\ telling[c] = Nil
  /\ asked < MaxCalls /\ {r.op, r.by} \ {Nil} \subseteq mix
  /\ req' = [req EXCEPT ![c] = r]
  /\ asked' = asked + 1
  /\ UNCHANGED <<tables, call, used, crashes, mix, late, history, accountVars, telling,
                 since, duel>>

Proceed(c, at) == req' = [req EXCEPT ![c].at = at]
Answer(c)      == req' = [req EXCEPT ![c] = NoReq]

\* The other requests in progress have now seen something older than this.
Noted(c, writes) ==
  since' = [d \in Caller |-> IF req'[d].op = "none" THEN {}
                             ELSE IF d = c \/ ~Serving(d) THEN since[d]
                             ELSE since[d] \cup writes]
BoardKept == UNCHANGED <<tables, call, used, asked, crashes, mix, late, history, telling>>
\* A statement that only reads.
LookStep(c) == BoardKept /\ UNCHANGED <<accountVars, duel>> /\ Noted(c, {})

\* FOR UPDATE, to the end of the transaction.
HoldsInvite(c, t) == req[c].op = "register" /\ req[c].at # "invite" /\ req[c].t = t
HoldsLink(c, l)   == req[c].op = "reset" /\ req[c].at # "link" /\ req[c].l = l

MutantLocked(x) == FALSE

\* Somebody's transaction has the row: who would lock, update or delete it waits.
Locked(x) == \E d \in Caller : HoldsInvite(d, x) \/ HoldsLink(d, x)

-----------------------------------------------------------------------------
(* Authentication: get_current_user, require_admin *)

\* A JWT of the user, or an API key looked up with its hash.
Authentic(r) == /\ Alive(r.by)
                /\ r.via # Nil => key[r.via] = [state |-> "open", of |-> r.by]
Admin(r) == Authentic(r) /\ account[r.by].admin

\* The first step of every request but registration and the reset link: from
\* here on it relies on the users row it has read.
Authenticate(c, ok, at) ==
  /\ req[c].op # "none" /\ req[c].at = "auth"
  /\ IF ok THEN Proceed(c, at) ELSE Answer(c)
  /\ since' = [since EXCEPT ![c] = {}]
  /\ BoardKept /\ UNCHANGED <<accountVars, duel>>

\* The credentials a user has: a token from login or register, its keys.
Credential(u) == {Nil} \cup {k \in Key : key[k] = [state |-> "open", of |-> u]}

-----------------------------------------------------------------------------
(* register_user_with_invite *)

\* The id is a new uuid.
AskRegister(c) ==
  \E u \in User, t \in Token, a \in Address, w \in Word :
    /\ account[u].state = "none"
    /\ \A d \in Caller : req[d].op = "register" => req[d].by # u
    /\ Demand(c, [op |-> "register", at |-> "invite", by |-> u, t |-> t, mail |-> a,
                  word |-> w])

RegisterInvite(c) ==
  /\ AtReq(c, "register", "invite") /\ ~Locked(req[c].t)
  /\ IF invite[req[c].t].state = "open" THEN Proceed(c, "mail") ELSE Answer(c)
  /\ LookStep(c)

Taken(a) == \E u \in User : Alive(u) /\ account[u].mail = a

RegisterMail(c) ==
  /\ AtReq(c, "register", "mail")
  /\ IF Taken(req[c].mail) THEN Answer(c) ELSE Proceed(c, "commit")
  /\ LookStep(c)

\* UPDATE invites SET used_at, used_by
Consumed(r, u) == [r EXCEPT !.state = "used", !.of = u]

\* INSERT, UPDATE and COMMIT.  An address registered in between is refused by
\* the UNIQUE column, and the transaction leaves nothing.
RegisterCommit(c) ==
  /\ AtReq(c, "register", "commit")
  /\ Answer(c)
  /\ LET r == req[c] IN
     IF Taken(r.mail)
     THEN UNCHANGED <<account, invite>> /\ Noted(c, {})
     ELSE /\ account' = [account EXCEPT ![r.by] =
                           [state |-> "live", mail |-> r.mail, admin |-> FALSE,
                            word |-> r.word, invite |-> r.t]]
          /\ invite' = [invite EXCEPT ![r.t] = Consumed(@, r.by)]
          /\ Noted(c, {<<"used", r.t>>})
  /\ BoardKept /\ UNCHANGED <<link, key, author, worked, told, duel>>

-----------------------------------------------------------------------------
(* consume_password_reset, change_password *)

\* 12 hours pass.
LinkExpires(l) ==
  /\ "reset" \in mix /\ link[l].state = "open" /\ ~link[l].expired
  /\ link' = [link EXCEPT ![l].expired = TRUE]
  /\ BoardKept /\ UNCHANGED <<account, invite, key, author, worked, told, req, since, duel>>

\* The time that the link is compared with is taken before the link is waited for.
AskReset(c) ==
  \E l \in Link, w \in Word :
    /\ link[l].state # "unused"
    /\ Demand(c, [op |-> "reset", at |-> "link", by |-> Nil, l |-> l, word |-> w,
                  expired |-> link[l].expired])

ResetRefused(r) == link[r.l].state # "open" \/ r.expired

ResetLink(c) ==
  /\ AtReq(c, "reset", "link") /\ ~Locked(req[c].l)
  /\ IF ResetRefused(req[c]) THEN Answer(c) ELSE Proceed(c, "commit")
  /\ LookStep(c)

\* Both UPDATEs and COMMIT.
ResetCommit(c) ==
  /\ AtReq(c, "reset", "commit")
  /\ Answer(c)
  /\ LET r == req[c]  u == link[r.l].of IN
     /\ account' = [account EXCEPT ![u].word = r.word]
     /\ link' = [link EXCEPT ![r.l].state = "used"]
     /\ Noted(c, {<<"word", u>>})
  /\ BoardKept /\ UNCHANGED <<invite, key, author, worked, told, duel>>

AskPassword(c) ==
  \E u \in User, old, w \in Word : \E k \in Credential(u) :
    Demand(c, [op |-> "password", at |-> "auth", by |-> u, via |-> k, old |-> old,
               word |-> w])

\* The current password is verified against the row that authentication read.
PasswordAuth(c) ==
  /\ req[c].op = "password"
  /\ Authenticate(c, Authentic(req[c]) /\ account[req[c].by].word = req[c].old, "write")

\* UPDATE users SET hashed_password WHERE id
PasswordWrite(c) ==
  /\ AtReq(c, "password", "write")
  /\ Answer(c)
  /\ LET r == req[c] IN
     /\ account' = IF Alive(r.by) THEN [account EXCEPT ![r.by].word = r.word] ELSE account
     /\ Noted(c, {<<"word", r.by>>})
  /\ BoardKept /\ UNCHANGED <<invite, link, key, author, worked, told, duel>>

-----------------------------------------------------------------------------
(* create_api_key, revoke_api_key *)

AskNewKey(c) ==
  \E u \in User : \E k \in Credential(u) :
    Demand(c, [op |-> "new_key", at |-> "auth", by |-> u, via |-> k])
NewKeyAuth(c) == req[c].op = "new_key" /\ Authenticate(c, Authentic(req[c]), "insert")

\* The foreign key refuses a user deleted in between.
NewKeyInsert(c) ==
  /\ AtReq(c, "new_key", "insert")
  /\ Answer(c)
  /\ LET u == req[c].by IN
     IF ~Alive(u) THEN UNCHANGED key /\ Noted(c, {})
     ELSE \E k \in Key : /\ key[k].state = "unused"
                         /\ key' = [key EXCEPT ![k] = [state |-> "open", of |-> u]]
                         /\ Noted(c, {<<"row", u>>})
  /\ BoardKept /\ UNCHANGED <<account, invite, link, author, worked, told, duel>>

AskDropKey(c) ==
  \E u \in User, k \in Key : \E via \in Credential(u) :
    Demand(c, [op |-> "drop_key", at |-> "auth", by |-> u, via |-> via, k |-> k])
DropKeyAuth(c) == req[c].op = "drop_key" /\ Authenticate(c, Authentic(req[c]), "read")

DropKeyRead(c) ==
  /\ AtReq(c, "drop_key", "read")
  /\ IF key[req[c].k] = [state |-> "open", of |-> req[c].by] THEN Proceed(c, "row")
     ELSE Answer(c)
  /\ LookStep(c)

DropKeyRow(c) ==
  /\ AtReq(c, "drop_key", "row")
  /\ Answer(c)
  /\ key' = [key EXCEPT ![req[c].k].state = "gone"]
  /\ BoardKept /\ UNCHANGED <<account, invite, link, author, worked, told, duel>> /\ Noted(c, {})

-----------------------------------------------------------------------------
(* create_invite, revoke_invite, issue_password_reset, promote_user *)

AskInvite(c) ==
  \E u \in User : \E k \in Credential(u) :
    Demand(c, [op |-> "invite", at |-> "auth", by |-> u, via |-> k])
InviteAuth(c) == req[c].op = "invite" /\ Authenticate(c, Admin(req[c]), "insert")

InviteInsert(c) ==
  /\ AtReq(c, "invite", "insert")
  /\ Answer(c)
  /\ LET u == req[c].by IN
     IF ~Alive(u) THEN UNCHANGED invite /\ Noted(c, {})
     ELSE \E t \in Token :
            /\ invite[t].state = "unused"
            /\ invite' = [invite EXCEPT ![t] = [NoInvite EXCEPT !.state = "open", !.by = u]]
            /\ Noted(c, {<<"row", u>>})
  /\ BoardKept /\ UNCHANGED <<account, link, key, author, worked, told, duel>>

AskRevoke(c) ==
  \E u \in User, t \in Token : \E k \in Credential(u) :
    Demand(c, [op |-> "revoke", at |-> "auth", by |-> u, via |-> k, t |-> t])
RevokeAuth(c) == req[c].op = "revoke" /\ Authenticate(c, Admin(req[c]), "read")

MutantRevokeRead(c) ==
  /\ AtReq(c, "revoke", "read")
  /\ IF Stored(invite[req[c].t]) THEN Proceed(c, "row") ELSE Answer(c)
  /\ LookStep(c)

RevokeRead(c) ==
  /\ AtReq(c, "revoke", "read")
  /\ IF invite[req[c].t].state = "open" THEN Proceed(c, "row") ELSE Answer(c)
  /\ LookStep(c)

\* DELETE FROM invites WHERE token: used or not by now.
RevokeRow(c) ==
  /\ AtReq(c, "revoke", "row") /\ ~Locked(req[c].t)
  /\ Answer(c)
  /\ invite' = [invite EXCEPT ![req[c].t].state = "gone"]
  /\ BoardKept /\ UNCHANGED <<account, link, key, author, worked, told, duel>> /\ Noted(c, {})

AskOnUser(c) ==
  \E op \in {"issue", "promote", "delete_user"}, u, v \in User : \E k \in Credential(u) :
    /\ account[v].state # "none"
    /\ Demand(c, [op |-> op, at |-> "auth", by |-> u, via |-> k, u |-> v])
OnUserAuth(c) ==
  req[c].op \in {"issue", "promote"} /\ Authenticate(c, Admin(req[c]), "read")

OnUserRead(c) ==
  /\ req[c].op \in {"issue", "promote"} /\ req[c].at = "read"
  /\ IF Alive(req[c].u) THEN Proceed(c, "write") ELSE Answer(c)
  /\ LookStep(c)

IssueInsert(c) ==
  /\ AtReq(c, "issue", "write")
  /\ Answer(c)
  /\ LET u == req[c].u IN
     IF ~Alive(u) THEN UNCHANGED link /\ Noted(c, {})
     ELSE \E l \in Link :
            /\ link[l].state = "unused"
            /\ link' = [link EXCEPT ![l] = [NoReset EXCEPT !.state = "open", !.of = u]]
            /\ Noted(c, {<<"row", u>>})
  /\ BoardKept /\ UNCHANGED <<account, invite, key, author, worked, told, duel>>

PromoteWrite(c) ==
  /\ AtReq(c, "promote", "write")
  /\ Answer(c)
  /\ account' = IF Alive(req[c].u) THEN [account EXCEPT ![req[c].u].admin = TRUE] ELSE account
  /\ BoardKept /\ UNCHANGED <<invite, link, key, author, worked, told, duel>> /\ Noted(c, {})

-----------------------------------------------------------------------------
(* delete_user: two counts, then a DELETE for each table *)

DeleteAuth(c) ==
  /\ req[c].op = "delete_user"
  /\ Authenticate(c, Admin(req[c]) /\ req[c].u # req[c].by, "read")

DeleteUserRead(c) ==
  /\ AtReq(c, "delete_user", "read")
  /\ IF Alive(req[c].u) THEN Proceed(c, "projects") ELSE Answer(c)
  /\ LookStep(c)

OwnsProject(u) == \E p \in Project : project[p].live /\ Owner[p] = u
OwnsItem(u)    == \E i \in Item : Live(i) /\ item[i].owner = u

DeleteUserProjects(c) ==
  /\ AtReq(c, "delete_user", "projects")
  /\ IF OwnsProject(req[c].u) THEN Answer(c) ELSE Proceed(c, "items")
  /\ LookStep(c)

MutantDeleteUserItems(c) ==
  /\ AtReq(c, "delete_user", "items")
  /\ Proceed(c, "resets")
  /\ LookStep(c)

DeleteUserItems(c) ==
  /\ AtReq(c, "delete_user", "items")
  /\ IF OwnsItem(req[c].u) THEN Answer(c) ELSE Proceed(c, "resets")
  /\ LookStep(c)

DeleteUserResets(c) ==
  /\ AtReq(c, "delete_user", "resets")
  /\ LET its == {l \in Link : link[l].of = req[c].u} IN
     /\ \A l \in its : ~Locked(l)
     /\ link' = [l \in Link |-> IF l \in its THEN [link[l] EXCEPT !.state = "gone"]
                                ELSE link[l]]
  /\ Proceed(c, "invites")
  /\ BoardKept /\ UNCHANGED <<account, invite, key, author, worked, told, duel>> /\ Noted(c, {})

\* Those the user issued; an invite that the user came by stays.
DeleteUserInvites(c) ==
  /\ AtReq(c, "delete_user", "invites")
  /\ LET its == {t \in Token : invite[t].by = req[c].u} IN
     /\ \A t \in its : ~Locked(t)
     /\ invite' = [t \in Token |-> IF t \in its THEN [invite[t] EXCEPT !.state = "gone"]
                                   ELSE invite[t]]
  /\ Proceed(c, "keys")
  /\ BoardKept /\ UNCHANGED <<account, link, key, author, worked, told, duel>> /\ Noted(c, {})

DeleteUserKeys(c) ==
  /\ AtReq(c, "delete_user", "keys")
  /\ key' = [k \in Key |-> IF key[k].of = req[c].u THEN [key[k] EXCEPT !.state = "gone"]
                           ELSE key[k]]
  /\ Proceed(c, "posts")
  /\ BoardKept /\ UNCHANGED <<account, invite, link, author, worked, told, duel>> /\ Noted(c, {})

\* Events, comments and notes, three statements taken as one.
DeleteUserPosts(c) ==
  /\ AtReq(c, "delete_user", "posts")
  /\ child' = [k \in Child |-> IF author[k] = req[c].u THEN Nil ELSE child[k]]
  /\ told' = told \ {req[c].u}
  /\ Proceed(c, "row")
  /\ UNCHANGED <<project, members, item, deps, row, disk, call, used, asked, crashes, mix,
                 late, history, account, invite, link, key, author, worked, telling, duel>>
  /\ Noted(c, {})

\* The foreign keys of users that do not cascade.
Referenced(u) ==
  \/ OwnsProject(u) \/ OwnsItem(u) \/ u \in worked \cup told
  \/ \E k \in Child : child[k] # Nil /\ author[k] = u
  \/ \E k \in Key : key[k] = [state |-> "open", of |-> u]
  \/ \E l \in Link : Stored(link[l]) /\ link[l].of = u
  \/ \E t \in Token : Stored(invite[t]) /\ u \in {invite[t].by, invite[t].of}

\* DELETE FROM users, with the memberships; refused, the rest stays deleted.
DeleteUserRow(c) ==
  /\ AtReq(c, "delete_user", "row")
  /\ Answer(c)
  /\ LET u == req[c].u IN
     IF Referenced(u) THEN UNCHANGED <<account, members, duel>>
     ELSE /\ account' = [account EXCEPT ![u].state = "gone"]
          /\ members' = {m \in members : m[2] # u}
          /\ duel' = (duel \/ \E d \in Caller \ {c} :
                                req[d].op = "delete_user" /\ req[d].by = u)
  /\ UNCHANGED <<project, item, deps, child, row, disk, call, used, asked, crashes, mix,
                 late, history, invite, link, key, author, worked, told, telling>>
  /\ Noted(c, {})

-----------------------------------------------------------------------------
(* The board's calls by these users *)

\* A call about to insert a row with a user_id.
Inserts(c) == call[c].op \in {"create", "create_project", "post", "share"}
                /\ call[c].at = "insert"
Owing(c)   == IF call[c].op = "share" THEN call[c].m ELSE call[c].by

\* A statement after which a call publishes an event of its user: a write that
\* took effect, a deletion in any case, and the refusal of a build engine.
Publishes(c) ==
  \/ /\ call[c].op \in {"create", "create_project", "post", "update", "claim"}
     /\ call[c].at \in {"insert", "write"} /\ tables' # tables
  \/ At(c, "update_project", "write") /\ project[call[c].p].live
  \/ call[c].op \in {"delete", "unpost", "delete_project", "unshare"} /\ call[c].at = "row"
  \/ At(c, "share", "insert") /\ members' # members /\ call'[c] = NoCall
  \/ At(c, "share", "purge") /\ call'[c] = NoCall
  \/ At(c, "update", "read") /\ OverridesEngine(item[call[c].i], call[c].want)

\* A call begins with a user there is (and shares with one).  Its event comes
\* before anything else that it does, and is dropped if anything fails.
BoardStep(c) ==
  /\ ~Serving(c) /\ telling[c] = Nil /\ (Inserts(c) => Alive(Owing(c)))
  /\ CallStep(c)
  /\ (~Busy(c) /\ call'[c].op # "none")
       => Alive(call'[c].by) /\ (call'[c].op = "share" => Alive(call'[c].m))
  /\ author' = IF At(c, "post", "insert") THEN [author EXCEPT ![call[c].k] = call[c].by]
               ELSE author
  /\ telling' \in {telling} \cup
       (IF Publishes(c) /\ "publish" \in mix
        THEN {[telling EXCEPT ![c] = call[c].by]} ELSE {})
  /\ since' = [d \in Caller |-> IF Serving(d) /\ Inserts(c) /\ call[c].op # "share"
                                THEN since[d] \cup {<<"row", call[c].by>>} ELSE since[d]]
  /\ UNCHANGED <<account, invite, link, key, worked, told, req, duel>>

\* INSERT INTO events, best effort: the foreign key refuses a user deleted in between.
Publish(c) ==
  /\ telling[c] # Nil
  /\ telling' = [telling EXCEPT ![c] = Nil]
  /\ LET u == telling[c] IN
     IF ~Alive(u) THEN UNCHANGED <<told, since>>
     ELSE /\ told' = told \cup {u}
          /\ since' = [d \in Caller |-> IF Serving(d) THEN since[d] \cup {<<"row", u>>}
                                        ELSE since[d]]
  /\ UNCHANGED <<vars, account, invite, link, key, author, worked, req, duel>>

\* The foreign key refuses a user deleted in between.
InsertRefused(c) ==
  /\ Inserts(c) /\ ~Alive(Owing(c))
  /\ End(c)
  /\ ReadStep(c)
  /\ UNCHANGED <<accountVars, req, telling, since, duel>>

\* A transaction that has not committed leaves nothing, any other request what
\* it has written.
AccountsRestart ==
  /\ Restart
  /\ req' = [c \in Caller |-> NoReq] /\ telling' = [c \in Caller |-> Nil]
  /\ since' = [c \in Caller |-> {}]
  /\ UNCHANGED <<accountVars, duel>>

RequestStep(c) ==
  \/ AskRegister(c) \/ RegisterInvite(c) \/ RegisterMail(c) \/ RegisterCommit(c)
  \/ AskReset(c) \/ ResetLink(c) \/ ResetCommit(c)
  \/ AskPassword(c) \/ PasswordAuth(c) \/ PasswordWrite(c)
  \/ AskNewKey(c) \/ NewKeyAuth(c) \/ NewKeyInsert(c)
  \/ AskDropKey(c) \/ DropKeyAuth(c) \/ DropKeyRead(c) \/ DropKeyRow(c)
  \/ AskInvite(c) \/ InviteAuth(c) \/ InviteInsert(c)
  \/ AskRevoke(c) \/ RevokeAuth(c) \/ RevokeRead(c) \/ RevokeRow(c)
  \/ AskOnUser(c) \/ OnUserAuth(c) \/ OnUserRead(c) \/ IssueInsert(c) \/ PromoteWrite(c)
  \/ DeleteAuth(c) \/ DeleteUserRead(c) \/ DeleteUserProjects(c) \/ DeleteUserItems(c)
  \/ DeleteUserResets(c) \/ DeleteUserInvites(c) \/ DeleteUserKeys(c)
  \/ DeleteUserPosts(c) \/ DeleteUserRow(c)

AccountsNext ==
  \/ AccountsRestart
  \/ \E l \in Link : LinkExpires(l)
  \/ \E c \in Caller : BoardStep(c) \/ Publish(c) \/ InsertRefused(c) \/ RequestStep(c)
AccountsSpec == AccountsInit /\ [][AccountsNext]_accountsVars

-----------------------------------------------------------------------------
(* Properties *)

\* An invite admits one user and an address has one account, whatever
\* registrations run side by side.
InvitesAdmitOne ==
  \A u, v \in User :
    u # v => /\ Alive(u) /\ Alive(v) => account[u].mail # account[v].mail
             /\ account[u].invite # Nil => account[u].invite # account[v].invite

\* An invite that was used is the record of who came by it: only the deletion
\* of the administrator who issued it removes it, and a revocation that had
\* found it unused.
UsedInvitesStay ==
  [][\A t \in Token :
       invite[t].state = "used" /\ invite'[t].state = "gone" =>
         \E c \in Caller :
           \/ AtReq(c, "delete_user", "invites") /\ req[c].u = invite[t].by
           \/ AtReq(c, "revoke", "row") /\ req[c].t = t /\ <<"used", t>> \in since[c]
    ]_accountsVars

\* A reset link sets the password once, of a user that is there, and not when
\* it had expired before the request.
ResetsSetOnce ==
  [][\A c \in Caller :
       AtReq(c, "reset", "commit") /\ account' # account =>
         LET l == req[c].l IN link[l].state = "open" /\ ~req[c].expired /\ Alive(link[l].of)
    ]_accountsVars

\* A user changes a password that the request knew, unless another change or a
\* reset came while it was served.
PasswordsAreKnown ==
  [][\A c \in Caller :
       AtReq(c, "password", "write") /\ req'[c] # req[c] /\ Alive(req[c].by) =>
         \/ account[req[c].by].word = req[c].old
         \/ <<"word", req[c].by>> \in since[c]
    ]_accountsVars

\* A deletion that has begun to delete goes through, unless the user came by
\* an invite that is still there, has a run or a rollout, or meanwhile a row was
\* written that names the user, an event of any call included: then the account
\* stays, without its keys, notes and comments.
HalfDeletionsAreExcused ==
  [][\A c \in Caller :
       AtReq(c, "delete_user", "row") /\ req'[c] # req[c] /\ account' = account =>
         LET u == req[c].u IN
         \/ ~Alive(u) \/ crashes' # crashes
         \/ u \in worked \/ \E t \in Token : Stored(invite[t]) /\ invite[t].of = u
         \/ <<"row", u>> \in since[c]
    ]_accountsVars

\* There is always an administrator: nobody deletes his own account, unless
\* two who delete each other are served at the same time.
AnAdminRemains ==
  (\E u \in User : account[u].admin /\ account[u].state # "none")
    => duel \/ \E u \in User : Alive(u) /\ account[u].admin

\* The accounts: the types, one user for each invite and address, and an
\* administrator, whatever registrations and deletions meet.
AccountsInv == AccountsTypeOK /\ InvitesAdmitOne /\ AnAdminRemains

\* What lets a user in is given, used and changed as promised: invites stay as
\* a record, a link works once, and a password changes for one who knew it.
CredentialsKept == UsedInvitesStay /\ ResetsSetOnce /\ PasswordsAreKnown
=============================================================================
