--------------------------- MODULE Accounts_proofs ---------------------------
(***************************************************************************)
(* Proofs about Accounts: what a request relies on between the statement   *)
(* that checks and the one that writes, and so what invites, links,        *)
(* passwords and administrators keep.                                      *)
(***************************************************************************)
EXTENDS Board_proofs

-----------------------------------------------------------------------------
(* What a request relies on *)

\* The id of a registration is its own, and from the SELECT FOR UPDATE to the
\* COMMIT so is the invite, which is unused.
RegisterOK(c) ==
  req[c].op = "register" =>
    /\ account[req[c].by].state = "none"
    /\ \A d \in Caller : req[d].op = "register" /\ d # c => req[d].by # req[c].by
    /\ req[c].at # "invite" => /\ invite[req[c].t].state = "open"
                               /\ \A d \in Caller : HoldsInvite(d, req[c].t) => d = c

\* So is a reset link, which had not expired.
ResetOK(c) ==
  AtReq(c, "reset", "commit") =>
    /\ link[req[c].l].state = "open" /\ ~req[c].expired
    /\ \A d \in Caller : HoldsLink(d, req[c].l) => d = c

\* The password that was verified is the user's, the invite that was found
\* unused is unused: or it changed since.
PasswordOK(c) ==
  LET u == req[c].by IN
  AtReq(c, "password", "write") =>
    /\ account[u].state # "none"
    /\ account[u].word = req[c].old \/ <<"word", u>> \in since[c]
RevokeOK(c) ==
  AtReq(c, "revoke", "row") =>
    invite[req[c].t].state # "used" \/ <<"used", req[c].t>> \in since[c]

\* Who deletes a user is an administrator and there, and is not that user; but
\* for one who is deleted meanwhile.
DeleterOK(c) ==
  LET u == req[c].u  a == req[c].by IN
  req[c].op = "delete_user" =>
    /\ account[u].state # "none"
    /\ req[c].at # "auth" => /\ a # u /\ account[a].admin /\ account[a].state # "none"
                             /\ Alive(a) \/ duel

\* What a deletion has checked or deleted is not there, but for new rows.
SweepOK(c) ==
  LET u == req[c].u  new == <<"row", u>> \in since[c] IN
  req[c].op = "delete_user" =>
    /\ req[c].at \in {"items", "resets", "invites", "keys", "posts", "row"}
         => new \/ ~OwnsProject(u)
    /\ req[c].at \in {"resets", "invites", "keys", "posts", "row"} => new \/ ~OwnsItem(u)
    /\ req[c].at \in {"invites", "keys", "posts", "row"}
         => new \/ \A l \in Link : Stored(link[l]) => link[l].of # u
    /\ req[c].at \in {"keys", "posts", "row"}
         => new \/ \A t \in Token : Stored(invite[t]) => invite[t].by # u
    /\ req[c].at \in {"posts", "row"}
         => new \/ \A k \in Key : key[k] # [state |-> "open", of |-> u]
    /\ req[c].at = "row" => new \/ \A k \in Child : child[k] # Nil => author[k] # u

\* Nor is an event that names the user, once the events have been deleted.
EventsOK ==
  /\ told \subseteq User /\ telling \in [Caller -> User \cup {Nil}]
  /\ \A c \in Caller : AtReq(c, "delete_user", "row") =>
       req[c].u \notin told \/ <<"row", req[c].u>> \in since[c]

\* A reset link leads to a user that is there, an account came by an invite that
\* was used, and a project is created for its owner.
LinksLead == \A l \in Link : Stored(link[l]) => link[l].of \in User /\ Alive(link[l].of)
InvitesLead ==
  \A u \in User : account[u].invite # Nil =>
    account[u].state # "none" /\ invite[account[u].invite].state \in {"used", "gone"}
CreatorsOwn ==
  \A c \in Caller : call[c].op = "create_project" => Owner[call[c].p] = call[c].by

-----------------------------------------------------------------------------
(* The course of a request *)

\* What the requests of each kind carry.
LEMMA RequestLocals ==
  ASSUME NEW r \in Request
  PROVE  /\ "op" \in DOMAIN r /\ r = [x \in DOMAIN r |-> r[x]]
         /\ r.op # "none" => "at" \in DOMAIN r
         /\ r.op \notin {"none", "reset"} => r.by \in User /\ "by" \in DOMAIN r
         /\ r.op = "register" => /\ r.t \in Token /\ r.mail \in Address /\ r.word \in Word
                                 /\ {"t", "mail", "word"} \subseteq DOMAIN r
         /\ r.op = "reset" => /\ r.l \in Link /\ r.word \in Word
                              /\ {"l", "word", "expired"} \subseteq DOMAIN r
         /\ r.op = "password" => r.word \in Word /\ {"old", "word"} \subseteq DOMAIN r
         /\ r.op = "drop_key" => r.k \in Key /\ "k" \in DOMAIN r
         /\ r.op = "revoke" => r.t \in Token /\ "t" \in DOMAIN r
         /\ r.op \in {"issue", "promote", "delete_user"} => r.u \in User /\ "u" \in DOMAIN r
         /\ r.op \in {"none", "register", "reset", "password", "new_key", "drop_key", "invite",
                      "revoke", "issue", "promote", "delete_user"}
<1> DEFINE Reg == [op : {"register"}, at : {"invite", "mail", "commit"}, by : User, t : Token,
                   mail : Address, word : Word]
           Res == [op : {"reset"}, at : {"link", "commit"}, by : {Nil}, l : Link, word : Word,
                   expired : BOOLEAN]
           Pas == [op : {"password"}, at : {"auth", "write"}, by : User, via : Key \cup {Nil},
                   old : Word, word : Word]
           New == [op : {"new_key"}, at : {"auth", "insert"}, by : User, via : Key \cup {Nil}]
           Drp == [op : {"drop_key"}, at : {"auth", "read", "row"}, by : User,
                   via : Key \cup {Nil}, k : Key]
           Inv == [op : {"invite"}, at : {"auth", "insert"}, by : User, via : Key \cup {Nil}]
           Rev == [op : {"revoke"}, at : {"auth", "read", "row"}, by : User,
                   via : Key \cup {Nil}, t : Token]
           OnU == [op : {"issue", "promote"}, at : {"auth", "read", "write"}, by : User,
                   via : Key \cup {Nil}, u : User]
           Del == [op : {"delete_user"}, at : {"auth", "read", "projects", "items", "resets",
                   "invites", "keys", "posts", "row"}, by : User, via : Key \cup {Nil}, u : User]
<1>1. \/ r = NoReq \/ r \in Reg \/ r \in Res \/ r \in Pas \/ r \in New \/ r \in Drp
      \/ r \in Inv \/ r \in Rev \/ r \in OnU \/ r \in Del
  BY DEF Request
<1>2. CASE r = NoReq  BY <1>2 DEF NoReq
<1>3. CASE r \in Reg  BY <1>3
<1>4. CASE r \in Res  BY <1>4
<1>5. CASE r \in Pas  BY <1>5
<1>6. CASE r \in New  BY <1>6
<1>7. CASE r \in Drp  BY <1>7
<1>8. CASE r \in Inv  BY <1>8
<1>9. CASE r \in Rev  BY <1>9
<1>10. CASE r \in OnU  BY <1>10
<1>11. CASE r \in Del  BY <1>11
<1> HIDE DEF Reg, Res, Pas, New, Drp, Inv, Rev, OnU, Del
<1> QED  BY <1>1, <1>2, <1>3, <1>4, <1>5, <1>6, <1>7, <1>8, <1>9, <1>10, <1>11

ReqsOK == req \in [Caller -> Request]

\* The next statement is of the same request, the last one ends it, and neither
\* touches the requests of the others.
LEMMA Proceeds ==
  ASSUME ReqsOK, NEW c \in Caller, NEW at, Proceed(c, at), Serving(c)
  PROVE  /\ req'[c].at = at
         /\ \A f \in DOMAIN req[c] : f # "at" => req'[c][f] = req[c][f]
         /\ DOMAIN req'[c] = DOMAIN req[c]
         /\ \A d \in Caller : d # c => req'[d] = req[d]
<1>1. req[c] \in Request
  BY DEF ReqsOK
<1>2. req' = [req EXCEPT ![c] = [req[c] EXCEPT !.at = at]]
  BY DEF Proceed, ReqsOK
<1>3. req'[c] = [req[c] EXCEPT !.at = at] /\ \A d \in Caller : d # c => req'[d] = req[d]
  BY <1>2 DEF ReqsOK
<1>4. "at" \in DOMAIN req[c] /\ req[c] = [x \in DOMAIN req[c] |-> req[c][x]]
  BY <1>1, RequestLocals DEF Serving
<1> QED  BY <1>3, <1>4

LEMMA Answers ==
  ASSUME ReqsOK, NEW c \in Caller, Answer(c)
  PROVE  req'[c].op = "none" /\ \A d \in Caller : d # c => req'[d] = req[d]
BY DEF Answer, ReqsOK, NoReq

LEMMA Demands ==
  ASSUME ReqsOK, NEW c \in Caller, NEW r, Demand(c, r)
  PROVE  /\ req'[c] = r /\ \A d \in Caller : d # c => req'[d] = req[d]
         /\ req[c].op = "none"
         /\ UNCHANGED <<tables, call, accountVars, since, duel>>
BY DEF Demand, ReqsOK, Serving

LEMMA SameRequest ==
  ASSUME ReqsOK, NEW c \in Caller, NEW at, Proceed(c, at), Serving(c)
  PROVE  /\ req'[c].op = req[c].op /\ req'[c].at = at
         /\ \A d \in Caller : d # c => req'[d] = req[d]
         /\ req[c].op # "reset" => req'[c].by = req[c].by
         /\ req[c].op = "register" => /\ req'[c].t = req[c].t /\ req'[c].mail = req[c].mail
                                      /\ req'[c].word = req[c].word
         /\ req[c].op = "reset" => /\ req'[c].l = req[c].l /\ req'[c].word = req[c].word
                                   /\ req'[c].expired = req[c].expired
         /\ req[c].op = "password" => req'[c].old = req[c].old /\ req'[c].word = req[c].word
         /\ req[c].op = "drop_key" => req'[c].k = req[c].k
         /\ req[c].op = "revoke" => req'[c].t = req[c].t
         /\ req[c].op \in {"issue", "promote", "delete_user"} => req'[c].u = req[c].u
<1>1. req[c] \in Request
  BY DEF ReqsOK
<1>2. /\ req'[c].at = at
      /\ \A f \in DOMAIN req[c] : f # "at" => req'[c][f] = req[c][f]
      /\ \A d \in Caller : d # c => req'[d] = req[d]
  BY Proceeds
<1> QED  BY <1>1, <1>2, RequestLocals DEF Serving

\* The kinds of statement: the request is taken, authenticated, reads, writes.
Demanded(c) ==
  \/ AskRegister(c) \/ AskReset(c) \/ AskPassword(c) \/ AskNewKey(c) \/ AskDropKey(c)
  \/ AskInvite(c) \/ AskRevoke(c) \/ AskOnUser(c)
Authenticated(c) ==
  \/ PasswordAuth(c) \/ NewKeyAuth(c) \/ DropKeyAuth(c) \/ InviteAuth(c) \/ RevokeAuth(c)
  \/ OnUserAuth(c) \/ DeleteAuth(c)
Looks(c) ==
  \/ RegisterInvite(c) \/ RegisterMail(c) \/ ResetLink(c) \/ DropKeyRead(c) \/ RevokeRead(c)
  \/ OnUserRead(c) \/ DeleteUserRead(c) \/ DeleteUserProjects(c) \/ DeleteUserItems(c)
Stores(c) ==
  \/ RegisterCommit(c) \/ ResetCommit(c) \/ PasswordWrite(c) \/ NewKeyInsert(c)
  \/ DropKeyRow(c) \/ InviteInsert(c) \/ RevokeRow(c) \/ IssueInsert(c) \/ PromoteWrite(c)
  \/ DeleteUserRow(c)
Sweeps(c) ==
  \/ DeleteUserResets(c) \/ DeleteUserInvites(c) \/ DeleteUserKeys(c) \/ DeleteUserPosts(c)

LEMMA RequestKinds ==
  ASSUME NEW c \in Caller, RequestStep(c)
  PROVE  Demanded(c) \/ Authenticated(c) \/ Looks(c) \/ Stores(c) \/ Sweeps(c)
BY DEF RequestStep, Demanded, Authenticated, Looks, Stores, Sweeps

LEMMA DemandedIs ==
  ASSUME NEW c \in Caller, Demanded(c)
  PROVE  \E r : Demand(c, r)
<1>1. CASE AskRegister(c)  BY <1>1 DEF AskRegister
<1>2. CASE AskReset(c)  BY <1>2 DEF AskReset
<1>3. CASE AskPassword(c)  BY <1>3 DEF AskPassword
<1>4. CASE AskNewKey(c)  BY <1>4 DEF AskNewKey
<1>5. CASE AskDropKey(c)  BY <1>5 DEF AskDropKey
<1>6. CASE AskInvite(c)  BY <1>6 DEF AskInvite
<1>7. CASE AskRevoke(c)  BY <1>7 DEF AskRevoke
<1>8. CASE AskOnUser(c)  BY <1>8 DEF AskOnUser
<1> QED  BY <1>1, <1>2, <1>3, <1>4, <1>5, <1>6, <1>7, <1>8 DEF Demanded

LEMMA AuthenticatedIs ==
  ASSUME NEW c \in Caller, Authenticated(c)
  PROVE  \E ok, at : Authenticate(c, ok, at)
BY DEF Authenticated, PasswordAuth, NewKeyAuth, DropKeyAuth, InviteAuth, RevokeAuth,
       OnUserAuth, DeleteAuth

LEMMA LooksIs ==
  ASSUME NEW c \in Caller, Looks(c)
  PROVE  LookStep(c) /\ Serving(c) /\ (Answer(c) \/ \E at : Proceed(c, at))
BY DEF Looks, RegisterInvite, RegisterMail, ResetLink, DropKeyRead, RevokeRead, OnUserRead,
       DeleteUserRead, DeleteUserProjects, DeleteUserItems, AtReq, Serving

LEMMA StoresIs ==
  ASSUME NEW c \in Caller, Stores(c)
  PROVE  Answer(c) /\ Serving(c) /\ \E writes : Noted(c, writes)
<1>1. Answer(c) /\ Serving(c)
  BY DEF Stores, RegisterCommit, ResetCommit, PasswordWrite, NewKeyInsert, DropKeyRow,
         InviteInsert, RevokeRow, IssueInsert, PromoteWrite, DeleteUserRow, AtReq, Serving
<1>2. \E writes : Noted(c, writes)
  <2>1. CASE RegisterCommit(c)
    <3>1. Noted(c, {}) \/ Noted(c, {<<"used", req[c].t>>})
      BY <2>1 DEF RegisterCommit
    <3> QED  BY <3>1
  <2>2. CASE NewKeyInsert(c)
    <3>1. Noted(c, {}) \/ Noted(c, {<<"row", req[c].by>>})
      BY <2>2 DEF NewKeyInsert
    <3> QED  BY <3>1
  <2>3. CASE InviteInsert(c)
    <3>1. Noted(c, {}) \/ Noted(c, {<<"row", req[c].by>>})
      BY <2>3 DEF InviteInsert
    <3> QED  BY <3>1
  <2>4. CASE IssueInsert(c)
    <3>1. Noted(c, {}) \/ Noted(c, {<<"row", req[c].u>>})
      BY <2>4 DEF IssueInsert
    <3> QED  BY <3>1
  <2>5. CASE ResetCommit(c)  BY <2>5 DEF ResetCommit
  <2>6. CASE PasswordWrite(c)  BY <2>6 DEF PasswordWrite
  <2>7. CASE DropKeyRow(c)  BY <2>7 DEF DropKeyRow
  <2>8. CASE RevokeRow(c)  BY <2>8 DEF RevokeRow
  <2>9. CASE PromoteWrite(c)  BY <2>9 DEF PromoteWrite
  <2>10. CASE DeleteUserRow(c)  BY <2>10 DEF DeleteUserRow
  <2> QED  BY <2>1, <2>2, <2>3, <2>4, <2>5, <2>6, <2>7, <2>8, <2>9, <2>10 DEF Stores
<1> QED  BY <1>1, <1>2

LEMMA SweepsIs ==
  ASSUME NEW c \in Caller, Sweeps(c)
  PROVE  Noted(c, {}) /\ Serving(c) /\ \E at : Proceed(c, at)
BY DEF Sweeps, DeleteUserResets, DeleteUserInvites, DeleteUserKeys, DeleteUserPosts, AtReq,
       Serving

\* The requests of the others stay, and note what this one writes.
LEMMA OthersNote ==
  ASSUME ReqsOK, NEW c \in Caller, RequestStep(c), NEW d \in Caller, d # c
  PROVE  req'[d] = req[d] /\ (Serving(d) => since[d] \subseteq since'[d])
<1>1. ASSUME NEW writes, Noted(c, writes), req'[d] = req[d]
      PROVE  Serving(d) => since[d] \subseteq since'[d]
  BY <1>1 DEF Noted, Serving
<1>2. CASE Demanded(c)
  <2>1. PICK r : Demand(c, r)
    BY <1>2, DemandedIs
  <2> QED  BY <2>1, Demands
<1>3. CASE Authenticated(c)
  <2>1. PICK ok, at : Authenticate(c, ok, at)
    BY <1>3, AuthenticatedIs
  <2>2. Serving(c) /\ (Answer(c) \/ Proceed(c, at)) /\ since' = [since EXCEPT ![c] = {}]
    BY <2>1 DEF Authenticate, Serving
  <2>3. req'[d] = req[d]
    BY <2>2, Answers, SameRequest
  <2>4. Serving(d) => since[d] \subseteq since'[d]
    BY <2>2
  <2> QED  BY <2>3, <2>4
<1>4. CASE Looks(c) \/ Stores(c) \/ Sweeps(c)
  <2>1. Serving(c) /\ (Answer(c) \/ \E at : Proceed(c, at)) /\ \E writes : Noted(c, writes)
    BY <1>4, LooksIs, StoresIs, SweepsIs DEF LookStep
  <2>2. req'[d] = req[d]
    BY <2>1, Answers, SameRequest
  <2> QED  BY <1>1, <2>1, <2>2
<1> QED  BY <1>2, <1>3, <1>4, RequestKinds

-----------------------------------------------------------------------------
(* What becomes of an account, an invite, a link, a key in one request *)

AccountRowsOK ==
  /\ account \in [User -> Account]
  /\ \A u \in User : Alive(u) => account[u].mail # Nil /\ account[u].word # Nil
  /\ invite \in [Token -> Invite]
  /\ \A t \in Token : /\ Stored(invite[t]) => invite[t].by # Nil
                      /\ invite[t].state = "used" => invite[t].of # Nil
  /\ link \in [Link -> Reset]
  /\ key \in [Key -> [state : {"unused", "open", "gone"}, of : User \cup {Nil}]]
  /\ author \in [Child -> User \cup {Nil}]
  /\ worked \subseteq User

SameBut(u, f) ==
  \A g \in {"state", "mail", "admin", "word", "invite"} \ {f} : account'[u][g] = account[u][g]

Joins(c, u) ==
  /\ RegisterCommit(c) /\ u = req[c].by /\ ~Taken(req[c].mail)
  /\ account'[u] = [state |-> "live", mail |-> req[c].mail, admin |-> FALSE,
                    word |-> req[c].word, invite |-> req[c].t]
SetsWord(c, u) ==
  /\ \/ ResetCommit(c) /\ u = link[req[c].l].of
     \/ PasswordWrite(c) /\ u = req[c].by /\ Alive(u)
  /\ Noted(c, {<<"word", u>>})
  /\ account'[u].word = req[c].word /\ SameBut(u, "word")
Promotes(c, u) ==
  PromoteWrite(c) /\ Alive(u) /\ account'[u].admin = TRUE /\ SameBut(u, "admin")
Leaves(c, u) ==
  /\ DeleteUserRow(c) /\ u = req[c].u /\ ~Referenced(u)
  /\ account'[u].state = "gone" /\ SameBut(u, "state")

LEMMA AccountMoves ==
  ASSUME AccountRowsOK, LinksLead, ReqsOK, NEW c \in Caller, RequestStep(c), NEW u \in User
  PROVE  /\ \/ account'[u] = account[u]
            \/ Joins(c, u) \/ SetsWord(c, u) \/ Promotes(c, u) \/ Leaves(c, u)
         /\ account'[u] \in Account
<1>0. /\ account[u] \in Account
      /\ account[u] = [state |-> account[u].state, mail |-> account[u].mail,
                       admin |-> account[u].admin, word |-> account[u].word,
                       invite |-> account[u].invite]
  BY DEF AccountRowsOK, Account
<1>1. CASE RegisterCommit(c)
  <2>1. req[c].mail \in Address /\ req[c].word \in Word /\ req[c].t \in Token
    BY <1>1, RequestLocals DEF ReqsOK, RegisterCommit, AtReq
  <2>2. CASE account'[u] = account[u]
    BY <1>0, <2>2
  <2>3. CASE Joins(c, u)
    BY <2>1, <2>3 DEF Joins, Account
  <2>4. account'[u] = account[u] \/ Joins(c, u)
    BY <1>1 DEF RegisterCommit, Joins, AccountRowsOK
  <2> QED  BY <2>2, <2>3, <2>4
<1>2. CASE ResetCommit(c)
  <2>1. account' = [account EXCEPT ![link[req[c].l].of].word = req[c].word]
    BY <1>2 DEF ResetCommit
  <2>4. req[c].word \in Word
    BY <1>2, RequestLocals DEF ReqsOK, ResetCommit, AtReq
  <2>2. CASE u = link[req[c].l].of
    <3>1. account'[u] = [account[u] EXCEPT !.word = req[c].word]
      BY <2>1, <2>2 DEF AccountRowsOK
    <3>2. account'[u].word = req[c].word /\ SameBut(u, "word") /\ account'[u] \in Account
      BY <1>0, <2>4, <3>1 DEF SameBut, Account
    <3> QED  BY <1>2, <2>2, <3>2 DEF SetsWord, ResetCommit
  <2>3. CASE u # link[req[c].l].of
    BY <1>0, <2>1, <2>3 DEF AccountRowsOK
  <2> QED  BY <2>2, <2>3
<1>3. CASE PasswordWrite(c)
  <2>1. account' = IF Alive(req[c].by) THEN [account EXCEPT ![req[c].by].word = req[c].word]
                   ELSE account
    BY <1>3 DEF PasswordWrite
  <2>4. req[c].word \in Word
    BY <1>3, RequestLocals DEF ReqsOK, PasswordWrite, AtReq
  <2>2. CASE u = req[c].by /\ Alive(u)
    <3>1. account'[u] = [account[u] EXCEPT !.word = req[c].word]
      BY <2>1, <2>2 DEF AccountRowsOK
    <3>2. account'[u].word = req[c].word /\ SameBut(u, "word") /\ account'[u] \in Account
      BY <1>0, <2>4, <3>1 DEF SameBut, Account
    <3> QED  BY <1>3, <2>2, <3>2 DEF SetsWord, PasswordWrite
  <2>3. CASE ~(u = req[c].by /\ Alive(u))
    BY <1>0, <2>1, <2>3 DEF AccountRowsOK
  <2> QED  BY <2>2, <2>3
<1>4. CASE PromoteWrite(c)
  <2>1. account' = IF Alive(req[c].u) THEN [account EXCEPT ![req[c].u].admin = TRUE]
                   ELSE account
    BY <1>4 DEF PromoteWrite
  <2>2. CASE u = req[c].u /\ Alive(u)
    <3>1. account'[u] = [account[u] EXCEPT !.admin = TRUE]
      BY <2>1, <2>2 DEF AccountRowsOK
    <3>2. account'[u].admin = TRUE /\ SameBut(u, "admin") /\ account'[u] \in Account
      BY <1>0, <3>1 DEF SameBut, Account
    <3> QED  BY <1>4, <2>2, <3>2 DEF Promotes
  <2>3. CASE ~(u = req[c].u /\ Alive(u))
    BY <1>0, <2>1, <2>3 DEF AccountRowsOK
  <2> QED  BY <2>2, <2>3
<1>5. CASE DeleteUserRow(c)
  <2>1. CASE account' = account
    BY <1>0, <2>1
  <2>2. CASE ~Referenced(req[c].u) /\ account' = [account EXCEPT ![req[c].u].state = "gone"]
    <3>1. CASE u = req[c].u
      <4>1. account'[u] = [account[u] EXCEPT !.state = "gone"]
        BY <2>2, <3>1 DEF AccountRowsOK
      <4>2. account'[u].state = "gone" /\ SameBut(u, "state") /\ account'[u] \in Account
        BY <1>0, <4>1 DEF SameBut, Account
      <4> QED  BY <1>5, <2>2, <3>1, <4>2 DEF Leaves
    <3>2. CASE u # req[c].u
      BY <1>0, <2>2, <3>2 DEF AccountRowsOK
    <3> QED  BY <3>1, <3>2
  <2> QED  BY <1>5, <2>1, <2>2 DEF DeleteUserRow
<1>6. CASE ~RegisterCommit(c) /\ ~ResetCommit(c) /\ ~PasswordWrite(c) /\ ~PromoteWrite(c)
           /\ ~DeleteUserRow(c)
  <2>1. account' = account
    BY <1>6 DEF RequestStep, AskRegister, RegisterInvite, RegisterMail,
     AskReset, ResetLink, AskPassword, PasswordAuth,
     AskNewKey, NewKeyAuth, NewKeyInsert, AskDropKey, DropKeyAuth, DropKeyRead, DropKeyRow,
     AskInvite, InviteAuth, InviteInsert, AskRevoke, RevokeAuth, RevokeRead, RevokeRow,
     AskOnUser, OnUserAuth, OnUserRead, IssueInsert, DeleteAuth,
     DeleteUserRead, DeleteUserProjects, DeleteUserItems, DeleteUserResets,
     DeleteUserInvites, DeleteUserKeys, DeleteUserPosts,
     Demand, Authenticate, LookStep, accountVars
  <2> QED  BY <1>0, <2>1
<1> QED  BY <1>1, <1>2, <1>3, <1>4, <1>5, <1>6

Uses(c, t) ==
  /\ RegisterCommit(c) /\ t = req[c].t /\ Noted(c, {<<"used", t>>})
  /\ invite'[t].state = "used" /\ invite'[t].by = invite[t].by /\ invite'[t].of = req[c].by
  /\ \E u \in User : Joins(c, u)
Issues(c, t) ==
  /\ InviteInsert(c) /\ invite[t].state = "unused"
  /\ invite'[t].state = "open" /\ invite'[t].by = req[c].by /\ invite'[t].of = Nil
  /\ Alive(req[c].by) /\ Noted(c, {<<"row", req[c].by>>})
Voids(c, t) ==
  /\ \/ RevokeRow(c) /\ t = req[c].t
     \/ DeleteUserInvites(c) /\ invite[t].by = req[c].u
  /\ ~Locked(t)
  /\ invite'[t].state = "gone" /\ invite'[t].by = invite[t].by /\ invite'[t].of = invite[t].of

LEMMA InviteMoves ==
  ASSUME AccountRowsOK, ReqsOK, NEW c \in Caller, RequestStep(c), NEW t \in Token
  PROVE  /\ invite'[t] = invite[t] \/ Uses(c, t) \/ Issues(c, t) \/ Voids(c, t)
         /\ invite'[t] \in Invite
<1>0. /\ invite[t] \in Invite
      /\ invite[t] = [state |-> invite[t].state, by |-> invite[t].by, of |-> invite[t].of]
  BY DEF AccountRowsOK, Invite
<1>1. CASE RegisterCommit(c)
  <2>1. CASE invite' = invite
    BY <1>0, <2>1
  <2>2. CASE /\ ~Taken(req[c].mail)
             /\ account' = [account EXCEPT ![req[c].by] =
                              [state |-> "live", mail |-> req[c].mail, admin |-> FALSE,
                               word |-> req[c].word, invite |-> req[c].t]]
             /\ invite' = [invite EXCEPT ![req[c].t] = Consumed(@, req[c].by)]
             /\ Noted(c, {<<"used", req[c].t>>})
    <3>1. CASE t = req[c].t
      <4>1. invite'[t] = [invite[t] EXCEPT !.state = "used", !.of = req[c].by]
        BY <2>2, <3>1 DEF AccountRowsOK, Consumed
      <4>3. req[c].by \in User
        BY <1>1, RequestLocals DEF ReqsOK, RegisterCommit, AtReq
      <4>2. /\ invite'[t].state = "used" /\ invite'[t].by = invite[t].by
            /\ invite'[t].of = req[c].by /\ invite'[t] \in Invite
        BY <1>0, <4>1, <4>3 DEF Invite, Stage
      <4>4. Joins(c, req[c].by)
        BY <1>1, <2>2, <4>3 DEF Joins, AccountRowsOK
      <4> QED  BY <1>1, <2>2, <3>1, <4>2, <4>3, <4>4 DEF Uses
    <3>2. CASE t # req[c].t
      BY <1>0, <2>2, <3>2 DEF AccountRowsOK
    <3> QED  BY <3>1, <3>2
  <2> QED  BY <1>1, <2>1, <2>2 DEF RegisterCommit
<1>2. CASE InviteInsert(c)
  <2>1. CASE invite' = invite
    BY <1>0, <2>1
  <2>2. CASE ~(invite' = invite)
    <3>1. PICK s \in Token :
            /\ invite[s].state = "unused" /\ Alive(req[c].by)
            /\ invite' = [invite EXCEPT ![s] = [NoInvite EXCEPT !.state = "open", !.by = req[c].by]]
            /\ Noted(c, {<<"row", req[c].by>>})
      BY <1>2, <2>2 DEF InviteInsert
    <3>2. CASE t = s
      <4>1. invite'[t] = [NoInvite EXCEPT !.state = "open", !.by = req[c].by]
        BY <3>1, <3>2 DEF AccountRowsOK
      <4>3. req[c].by \in User
        BY <1>2, RequestLocals DEF ReqsOK, InviteInsert, AtReq
      <4>2. /\ invite'[t].state = "open" /\ invite'[t].by = req[c].by /\ invite'[t].of = Nil
            /\ invite'[t] \in Invite
        BY <4>1, <4>3 DEF NoInvite, Invite, Stage
      <4> QED  BY <1>2, <3>1, <3>2, <4>2 DEF Issues
    <3>3. CASE t # s
      BY <1>0, <3>1, <3>3 DEF AccountRowsOK
    <3> QED  BY <3>2, <3>3
  <2> QED  BY <2>1, <2>2
<1>3. CASE RevokeRow(c)
  <2>1. invite' = [invite EXCEPT ![req[c].t].state = "gone"] /\ ~Locked(req[c].t)
    BY <1>3 DEF RevokeRow
  <2>2. CASE t = req[c].t
    <3>1. invite'[t] = [invite[t] EXCEPT !.state = "gone"]
      BY <2>1, <2>2 DEF AccountRowsOK
    <3>2. /\ invite'[t].state = "gone" /\ invite'[t].by = invite[t].by
          /\ invite'[t].of = invite[t].of /\ invite'[t] \in Invite
      BY <1>0, <3>1 DEF Invite, Stage
    <3> QED  BY <1>3, <2>1, <2>2, <3>2 DEF Voids
  <2>3. CASE t # req[c].t
    BY <1>0, <2>1, <2>3 DEF AccountRowsOK
  <2> QED  BY <2>2, <2>3
<1>4. CASE DeleteUserInvites(c)
  <2>1. CASE invite[t].by = req[c].u
    <3>1. invite'[t] = [invite[t] EXCEPT !.state = "gone"] /\ ~Locked(t)
      BY <1>4, <2>1 DEF DeleteUserInvites
    <3>2. /\ invite'[t].state = "gone" /\ invite'[t].by = invite[t].by
          /\ invite'[t].of = invite[t].of /\ invite'[t] \in Invite
      BY <1>0, <3>1 DEF Invite, Stage
    <3> QED  BY <1>4, <2>1, <3>1, <3>2 DEF Voids
  <2>2. CASE invite[t].by # req[c].u
    BY <1>0, <1>4, <2>2 DEF DeleteUserInvites
  <2> QED  BY <2>1, <2>2
<1>5. CASE ~RegisterCommit(c) /\ ~InviteInsert(c) /\ ~RevokeRow(c) /\ ~DeleteUserInvites(c)
  <2>1. invite' = invite
    BY <1>5 DEF RequestStep, AskRegister, RegisterInvite, RegisterMail,
     AskReset, ResetLink, ResetCommit, AskPassword, PasswordAuth, PasswordWrite,
     AskNewKey, NewKeyAuth, NewKeyInsert, AskDropKey, DropKeyAuth, DropKeyRead, DropKeyRow,
     AskInvite, InviteAuth, AskRevoke, RevokeAuth, RevokeRead,
     AskOnUser, OnUserAuth, OnUserRead, IssueInsert, PromoteWrite, DeleteAuth,
     DeleteUserRead, DeleteUserProjects, DeleteUserItems, DeleteUserResets,
     DeleteUserKeys, DeleteUserPosts, DeleteUserRow,
     Demand, Authenticate, LookStep, accountVars
  <2> QED  BY <1>0, <2>1
<1> QED  BY <1>1, <1>2, <1>3, <1>4, <1>5

Resets(c, l) ==
  /\ ResetCommit(c) /\ l = req[c].l
  /\ link'[l].state = "used" /\ link'[l].of = link[l].of
Sends(c, l) ==
  /\ IssueInsert(c) /\ link[l].state = "unused"
  /\ link'[l].state = "open" /\ link'[l].of = req[c].u
  /\ Alive(req[c].u) /\ Noted(c, {<<"row", req[c].u>>})
Unlinks(c, l) ==
  /\ DeleteUserResets(c) /\ link[l].of = req[c].u /\ ~Locked(l)
  /\ link'[l].state = "gone" /\ link'[l].of = link[l].of

LEMMA LinkMoves ==
  ASSUME AccountRowsOK, ReqsOK, NEW c \in Caller, RequestStep(c), NEW l \in Link
  PROVE  /\ link'[l] = link[l] \/ Resets(c, l) \/ Sends(c, l) \/ Unlinks(c, l)
         /\ link'[l] \in Reset
<1>0. /\ link[l] \in Reset
      /\ link[l] = [state |-> link[l].state, of |-> link[l].of, expired |-> link[l].expired]
  BY DEF AccountRowsOK, Reset
<1>1. CASE ResetCommit(c)
  <2>1. link' = [link EXCEPT ![req[c].l].state = "used"]
    BY <1>1 DEF ResetCommit
  <2>2. CASE l = req[c].l
    <3>1. link'[l] = [link[l] EXCEPT !.state = "used"]
      BY <2>1, <2>2 DEF AccountRowsOK
    <3>2. link'[l].state = "used" /\ link'[l].of = link[l].of /\ link'[l] \in Reset
      BY <1>0, <3>1 DEF Reset, Stage
    <3> QED  BY <1>1, <2>2, <3>2 DEF Resets
  <2>3. CASE l # req[c].l
    BY <1>0, <2>1, <2>3 DEF AccountRowsOK
  <2> QED  BY <2>2, <2>3
<1>2. CASE IssueInsert(c)
  <2>1. CASE link' = link
    BY <1>0, <2>1
  <2>2. CASE ~(link' = link)
    <3>1. PICK s \in Link :
            /\ link[s].state = "unused" /\ Alive(req[c].u)
            /\ link' = [link EXCEPT ![s] = [NoReset EXCEPT !.state = "open", !.of = req[c].u]]
            /\ Noted(c, {<<"row", req[c].u>>})
      BY <1>2, <2>2 DEF IssueInsert
    <3>2. CASE l = s
      <4>1. link'[l] = [NoReset EXCEPT !.state = "open", !.of = req[c].u]
        BY <3>1, <3>2 DEF AccountRowsOK
      <4>2. req[c].u \in User
        BY <1>2, RequestLocals DEF ReqsOK, IssueInsert, AtReq
      <4>3. link'[l].state = "open" /\ link'[l].of = req[c].u /\ link'[l] \in Reset
        BY <4>1, <4>2 DEF NoReset, Reset, Stage
      <4> QED  BY <1>2, <3>1, <3>2, <4>3 DEF Sends
    <3>3. CASE l # s
      BY <1>0, <3>1, <3>3 DEF AccountRowsOK
    <3> QED  BY <3>2, <3>3
  <2> QED  BY <2>1, <2>2
<1>3. CASE DeleteUserResets(c)
  <2>1. CASE link[l].of = req[c].u
    <3>1. link'[l] = [link[l] EXCEPT !.state = "gone"] /\ ~Locked(l)
      BY <1>3, <2>1 DEF DeleteUserResets
    <3>2. link'[l].state = "gone" /\ link'[l].of = link[l].of /\ link'[l] \in Reset
      BY <1>0, <3>1 DEF Reset, Stage
    <3> QED  BY <1>3, <2>1, <3>1, <3>2 DEF Unlinks
  <2>2. CASE link[l].of # req[c].u
    BY <1>0, <1>3, <2>2 DEF DeleteUserResets
  <2> QED  BY <2>1, <2>2
<1>4. CASE ~ResetCommit(c) /\ ~IssueInsert(c) /\ ~DeleteUserResets(c)
  <2>1. link' = link
    BY <1>4 DEF RequestStep, AskRegister, RegisterInvite, RegisterMail, RegisterCommit,
     AskReset, ResetLink, AskPassword, PasswordAuth, PasswordWrite,
     AskNewKey, NewKeyAuth, NewKeyInsert, AskDropKey, DropKeyAuth, DropKeyRead, DropKeyRow,
     AskInvite, InviteAuth, InviteInsert, AskRevoke, RevokeAuth, RevokeRead, RevokeRow,
     AskOnUser, OnUserAuth, OnUserRead, PromoteWrite, DeleteAuth,
     DeleteUserRead, DeleteUserProjects, DeleteUserItems,
     DeleteUserInvites, DeleteUserKeys, DeleteUserPosts, DeleteUserRow,
     Demand, Authenticate, LookStep, accountVars
  <2> QED  BY <1>0, <2>1
<1> QED  BY <1>1, <1>2, <1>3, <1>4

Opens(c, k) ==
  /\ NewKeyInsert(c) /\ key'[k] = [state |-> "open", of |-> req[c].by]
  /\ Noted(c, {<<"row", req[c].by>>})
Drops(c, k) == key'[k].state = "gone"

LEMMA KeyMoves ==
  ASSUME AccountRowsOK, ReqsOK, NEW c \in Caller, RequestStep(c), NEW k \in Key
  PROVE  /\ \/ key'[k] = key[k] /\ (DeleteUserKeys(c) => key[k].of # req[c].u)
            \/ Opens(c, k) \/ Drops(c, k)
         /\ key'[k] \in [state : {"unused", "open", "gone"}, of : User \cup {Nil}]
<1> DEFINE KeyRow == [state : {"unused", "open", "gone"}, of : User \cup {Nil}]
<1>0. key[k] \in KeyRow /\ key[k] = [state |-> key[k].state, of |-> key[k].of]
  BY DEF AccountRowsOK
<1>1. CASE NewKeyInsert(c)
  <2>0. ~DeleteUserKeys(c)
    BY <1>1 DEF NewKeyInsert, DeleteUserKeys, AtReq
  <2>1. CASE key' = key
    BY <1>0, <2>0, <2>1
  <2>2. CASE ~(key' = key)
    <3>1. PICK s \in Key : /\ key' = [key EXCEPT ![s] = [state |-> "open", of |-> req[c].by]]
                           /\ Noted(c, {<<"row", req[c].by>>})
      BY <1>1, <2>2 DEF NewKeyInsert
    <3>2. CASE k = s
      <4>1. key'[k] = [state |-> "open", of |-> req[c].by]
        BY <3>1, <3>2 DEF AccountRowsOK
      <4>2. req[c].by \in User
        BY <1>1, RequestLocals DEF ReqsOK, NewKeyInsert, AtReq
      <4>3. key'[k] \in KeyRow
        BY <4>1, <4>2
      <4> QED  BY <1>1, <3>1, <3>2, <4>1, <4>3 DEF Opens
    <3>3. CASE k # s
      BY <1>0, <2>0, <3>1, <3>3 DEF AccountRowsOK
    <3> QED  BY <3>2, <3>3
  <2> QED  BY <2>1, <2>2
<1>2. CASE DropKeyRow(c)
  <2>0. ~DeleteUserKeys(c)
    BY <1>2 DEF DropKeyRow, DeleteUserKeys, AtReq
  <2>1. key' = [key EXCEPT ![req[c].k].state = "gone"]
    BY <1>2 DEF DropKeyRow
  <2>2. CASE k = req[c].k
    <3>1. key'[k] = [key[k] EXCEPT !.state = "gone"]
      BY <2>1, <2>2 DEF AccountRowsOK
    <3>2. key'[k].state = "gone" /\ key'[k] \in KeyRow
      BY <1>0, <3>1
    <3> QED  BY <3>2 DEF Drops
  <2>3. CASE k # req[c].k
    BY <1>0, <2>0, <2>1, <2>3 DEF AccountRowsOK
  <2> QED  BY <2>2, <2>3
<1>3. CASE DeleteUserKeys(c)
  <2>1. CASE key[k].of = req[c].u
    <3>1. key'[k] = [key[k] EXCEPT !.state = "gone"]
      BY <1>3, <2>1 DEF DeleteUserKeys
    <3>2. key'[k].state = "gone" /\ key'[k] \in KeyRow
      BY <1>0, <3>1
    <3> QED  BY <3>2 DEF Drops
  <2>2. CASE key[k].of # req[c].u
    BY <1>0, <1>3, <2>2 DEF DeleteUserKeys
  <2> QED  BY <2>1, <2>2
<1>4. CASE ~NewKeyInsert(c) /\ ~DropKeyRow(c) /\ ~DeleteUserKeys(c)
  <2>1. key' = key
    BY <1>4 DEF RequestStep, AskRegister, RegisterInvite, RegisterMail, RegisterCommit,
     AskReset, ResetLink, ResetCommit, AskPassword, PasswordAuth, PasswordWrite,
     AskNewKey, NewKeyAuth, AskDropKey, DropKeyAuth, DropKeyRead,
     AskInvite, InviteAuth, InviteInsert, AskRevoke, RevokeAuth, RevokeRead, RevokeRow,
     AskOnUser, OnUserAuth, OnUserRead, IssueInsert, PromoteWrite, DeleteAuth,
     DeleteUserRead, DeleteUserProjects, DeleteUserItems, DeleteUserResets,
     DeleteUserInvites, DeleteUserPosts, DeleteUserRow,
     Demand, Authenticate, LookStep, accountVars
  <2> QED  BY <1>0, <1>4, <2>1
<1> QED  BY <1>1, <1>2, <1>3, <1>4

\* The functions stay functions, and the rest of what requests write.
LEMMA RequestShapes ==
  ASSUME AccountRowsOK, NEW c \in Caller, RequestStep(c)
  PROVE  /\ account' = [u \in User |-> account'[u]]
         /\ invite' = [t \in Token |-> invite'[t]]
         /\ link' = [l \in Link |-> link'[l]]
         /\ key' = [k \in Key |-> key'[k]]
         /\ author' = author /\ worked' = worked
<1>1. account' = [u \in User |-> account'[u]]
  BY DEF AccountRowsOK, RequestStep, AskRegister, RegisterInvite, RegisterMail, RegisterCommit,
     AskReset, ResetLink, ResetCommit, AskPassword, PasswordAuth, PasswordWrite,
     AskNewKey, NewKeyAuth, NewKeyInsert, AskDropKey, DropKeyAuth, DropKeyRead, DropKeyRow,
     AskInvite, InviteAuth, InviteInsert, AskRevoke, RevokeAuth, RevokeRead, RevokeRow,
     AskOnUser, OnUserAuth, OnUserRead, IssueInsert, PromoteWrite, DeleteAuth,
     DeleteUserRead, DeleteUserProjects, DeleteUserItems, DeleteUserResets,
     DeleteUserInvites, DeleteUserKeys, DeleteUserPosts, DeleteUserRow,
     Demand, Authenticate, LookStep, accountVars
<1>2. invite' = [t \in Token |-> invite'[t]]
  BY DEF AccountRowsOK, RequestStep, AskRegister, RegisterInvite, RegisterMail, RegisterCommit,
     AskReset, ResetLink, ResetCommit, AskPassword, PasswordAuth, PasswordWrite,
     AskNewKey, NewKeyAuth, NewKeyInsert, AskDropKey, DropKeyAuth, DropKeyRead, DropKeyRow,
     AskInvite, InviteAuth, InviteInsert, AskRevoke, RevokeAuth, RevokeRead, RevokeRow,
     AskOnUser, OnUserAuth, OnUserRead, IssueInsert, PromoteWrite, DeleteAuth,
     DeleteUserRead, DeleteUserProjects, DeleteUserItems, DeleteUserResets,
     DeleteUserInvites, DeleteUserKeys, DeleteUserPosts, DeleteUserRow,
     Demand, Authenticate, LookStep, accountVars
<1>3. link' = [l \in Link |-> link'[l]]
  BY DEF AccountRowsOK, RequestStep, AskRegister, RegisterInvite, RegisterMail, RegisterCommit,
     AskReset, ResetLink, ResetCommit, AskPassword, PasswordAuth, PasswordWrite,
     AskNewKey, NewKeyAuth, NewKeyInsert, AskDropKey, DropKeyAuth, DropKeyRead, DropKeyRow,
     AskInvite, InviteAuth, InviteInsert, AskRevoke, RevokeAuth, RevokeRead, RevokeRow,
     AskOnUser, OnUserAuth, OnUserRead, IssueInsert, PromoteWrite, DeleteAuth,
     DeleteUserRead, DeleteUserProjects, DeleteUserItems, DeleteUserResets,
     DeleteUserInvites, DeleteUserKeys, DeleteUserPosts, DeleteUserRow,
     Demand, Authenticate, LookStep, accountVars
<1>4. key' = [k \in Key |-> key'[k]]
  BY DEF AccountRowsOK, RequestStep, AskRegister, RegisterInvite, RegisterMail, RegisterCommit,
     AskReset, ResetLink, ResetCommit, AskPassword, PasswordAuth, PasswordWrite,
     AskNewKey, NewKeyAuth, NewKeyInsert, AskDropKey, DropKeyAuth, DropKeyRead, DropKeyRow,
     AskInvite, InviteAuth, InviteInsert, AskRevoke, RevokeAuth, RevokeRead, RevokeRow,
     AskOnUser, OnUserAuth, OnUserRead, IssueInsert, PromoteWrite, DeleteAuth,
     DeleteUserRead, DeleteUserProjects, DeleteUserItems, DeleteUserResets,
     DeleteUserInvites, DeleteUserKeys, DeleteUserPosts, DeleteUserRow,
     Demand, Authenticate, LookStep, accountVars
<1>5. author' = author /\ worked' = worked
  BY DEF RequestStep, AskRegister, RegisterInvite, RegisterMail, RegisterCommit,
     AskReset, ResetLink, ResetCommit, AskPassword, PasswordAuth, PasswordWrite,
     AskNewKey, NewKeyAuth, NewKeyInsert, AskDropKey, DropKeyAuth, DropKeyRead, DropKeyRow,
     AskInvite, InviteAuth, InviteInsert, AskRevoke, RevokeAuth, RevokeRead, RevokeRow,
     AskOnUser, OnUserAuth, OnUserRead, IssueInsert, PromoteWrite, DeleteAuth,
     DeleteUserRead, DeleteUserProjects, DeleteUserItems, DeleteUserResets,
     DeleteUserInvites, DeleteUserKeys, DeleteUserPosts, DeleteUserRow,
     Demand, Authenticate, LookStep, accountVars
<1> QED  BY <1>1, <1>2, <1>3, <1>4, <1>5

-----------------------------------------------------------------------------
(* Types *)

LEMMA AccountRowsKept ==
  ASSUME AccountRowsOK, LinksLead, ReqsOK, NEW c \in Caller, RequestStep(c), RegisterOK(c)
  PROVE  AccountRowsOK'
<1>1. ASSUME NEW u \in User
      PROVE  /\ account'[u] \in Account
             /\ Alive(u)' => account'[u].mail # Nil /\ account'[u].word # Nil
  <2>0. account[u] \in Account /\ (Alive(u) => account[u].mail # Nil /\ account[u].word # Nil)
    BY DEF AccountRowsOK
  <2>1. CASE account'[u] = account[u]
    BY <2>0, <2>1 DEF Alive
  <2>2. CASE Joins(c, u)
    <3>1. req[c].mail \in Address /\ req[c].word \in Word
      BY <2>2, RequestLocals DEF ReqsOK, Joins, RegisterCommit, AtReq
    <3>2. account'[u].mail = req[c].mail /\ account'[u].word = req[c].word
      BY <2>2 DEF Joins
    <3> QED  BY <3>1, <3>2, AccountMoves, AccountsAssumption
  <2>3. CASE SetsWord(c, u)
    <3>1. req[c].word \in Word
      BY <2>3, RequestLocals DEF ReqsOK, SetsWord, ResetCommit, PasswordWrite, AtReq
    <3>2. account'[u].word = req[c].word /\ account'[u].mail = account[u].mail
          /\ account'[u].state = account[u].state
      BY <2>3 DEF SetsWord, SameBut
    <3> QED  BY <2>0, <3>1, <3>2, AccountMoves, AccountsAssumption DEF Alive
  <2>4. CASE Promotes(c, u)
    <3>1. /\ account'[u].word = account[u].word /\ account'[u].mail = account[u].mail
          /\ account'[u].state = account[u].state
      BY <2>4 DEF Promotes, SameBut
    <3> QED  BY <2>0, <3>1, AccountMoves DEF Alive
  <2>5. CASE Leaves(c, u)
    BY <2>5, AccountMoves DEF Alive, Leaves
  <2> QED  BY <2>1, <2>2, <2>3, <2>4, <2>5, AccountMoves
<1>2. ASSUME NEW t \in Token
      PROVE  /\ invite'[t] \in Invite
             /\ Stored(invite'[t]) => invite'[t].by # Nil
             /\ invite'[t].state = "used" => invite'[t].of # Nil
  <2>0. /\ Stored(invite[t]) => invite[t].by # Nil
        /\ invite[t].state = "used" => invite[t].of # Nil
    BY DEF AccountRowsOK
  <2>1. CASE invite'[t] = invite[t]
    BY <2>0, <2>1, InviteMoves
  <2>2. CASE Uses(c, t)
    <3>1. req[c].by \in User
      BY <2>2, RequestLocals DEF ReqsOK, Uses, RegisterCommit, AtReq
    <3>2. invite[t].by # Nil
      BY <2>0, <2>2 DEF Uses, Stored, RegisterCommit, AtReq, RegisterOK
    <3> QED  BY <2>2, <3>1, <3>2, InviteMoves, BoardAssumption DEF Uses
  <2>3. CASE Issues(c, t)
    <3>1. req[c].by \in User
      BY <2>3, RequestLocals DEF ReqsOK, Issues, InviteInsert, AtReq
    <3> QED  BY <2>3, <3>1, InviteMoves, BoardAssumption DEF Issues
  <2>4. CASE Voids(c, t)
    BY <2>4, InviteMoves DEF Voids, Stored
  <2> QED  BY <2>1, <2>2, <2>3, <2>4, InviteMoves
<1>3. \A l \in Link : link'[l] \in Reset
  BY LinkMoves
<1>4. \A k \in Key : key'[k] \in [state : {"unused", "open", "gone"}, of : User \cup {Nil}]
  BY KeyMoves
<1>5. /\ account' \in [User -> Account] /\ invite' \in [Token -> Invite]
      /\ link' \in [Link -> Reset]
      /\ key' \in [Key -> [state : {"unused", "open", "gone"}, of : User \cup {Nil}]]
      /\ author' = author /\ worked' = worked
  BY <1>1, <1>2, <1>3, <1>4, RequestShapes
<1> QED  BY <1>1, <1>2, <1>5 DEF AccountRowsOK
\* The records that the requests are taken with, and what they go on with.
LEMMA ReqSet ==
  ASSUME ReqsOK, NEW c \in Caller, NEW r \in Request, req' = [req EXCEPT ![c] = r]
  PROVE  ReqsOK'
BY DEF ReqsOK

LEMMA ReqOver ==
  ASSUME ReqsOK, NEW c \in Caller, Answer(c)
  PROVE  ReqsOK'
<1>1. NoReq \in Request
  BY DEF Request
<1> QED  BY <1>1, ReqSet DEF Answer

LEMMA ReqGoes ==
  ASSUME ReqsOK, NEW c \in Caller, NEW at, Proceed(c, at),
         \/ req[c].op = "register" /\ at \in {"mail", "commit"}
         \/ req[c].op = "reset" /\ at = "commit"
         \/ req[c].op = "password" /\ at = "write"
         \/ req[c].op \in {"new_key", "invite"} /\ at = "insert"
         \/ req[c].op \in {"drop_key", "revoke"} /\ at \in {"read", "row"}
         \/ req[c].op \in {"issue", "promote"} /\ at \in {"read", "write"}
         \/ req[c].op = "delete_user" /\ at \in {"read", "projects", "items", "resets",
                                                 "invites", "keys", "posts", "row"}
  PROVE  ReqsOK'
<1> DEFINE r == [req[c] EXCEPT !.at = at]
<1>1. req[c] \in Request /\ req[c].op # "none"
  BY DEF ReqsOK
<1>2. req' = [req EXCEPT ![c] = r]
  BY DEF Proceed, ReqsOK
<1>3. r \in Request
  <2> DEFINE Reg == [op : {"register"}, at : {"invite", "mail", "commit"}, by : User, t : Token,
                     mail : Address, word : Word]
             Res == [op : {"reset"}, at : {"link", "commit"}, by : {Nil}, l : Link, word : Word,
                     expired : BOOLEAN]
             Pas == [op : {"password"}, at : {"auth", "write"}, by : User, via : Key \cup {Nil},
                     old : Word, word : Word]
             New == [op : {"new_key"}, at : {"auth", "insert"}, by : User, via : Key \cup {Nil}]
             Drp == [op : {"drop_key"}, at : {"auth", "read", "row"}, by : User,
                     via : Key \cup {Nil}, k : Key]
             Inv == [op : {"invite"}, at : {"auth", "insert"}, by : User, via : Key \cup {Nil}]
             Rev == [op : {"revoke"}, at : {"auth", "read", "row"}, by : User,
                     via : Key \cup {Nil}, t : Token]
             OnU == [op : {"issue", "promote"}, at : {"auth", "read", "write"}, by : User,
                     via : Key \cup {Nil}, u : User]
             Del == [op : {"delete_user"}, at : {"auth", "read", "projects", "items", "resets",
                     "invites", "keys", "posts", "row"}, by : User, via : Key \cup {Nil},
                     u : User]
  <2>1. /\ req[c] = NoReq \/ req[c] \in Reg \/ req[c] \in Res \/ req[c] \in Pas
           \/ req[c] \in New \/ req[c] \in Drp \/ req[c] \in Inv \/ req[c] \in Rev
           \/ req[c] \in OnU \/ req[c] \in Del
        /\ Reg \subseteq Request /\ Res \subseteq Request /\ Pas \subseteq Request
        /\ New \subseteq Request /\ Drp \subseteq Request /\ Inv \subseteq Request
        /\ Rev \subseteq Request /\ OnU \subseteq Request /\ Del \subseteq Request
    BY <1>1 DEF Request
  <2>2. CASE req[c] = NoReq
    BY <1>1, <2>2 DEF NoReq
  <2>3. CASE req[c] \in Reg
    <3>1. req[c].op = "register" /\ r \in Reg
      BY <2>3
    <3> QED  BY <2>1, <3>1
  <2>4. CASE req[c] \in Res
    <3>1. r \in Res
      BY <2>4
    <3> QED  BY <2>1, <3>1
  <2>5. CASE req[c] \in Pas
    <3>1. r \in Pas
      BY <2>5
    <3> QED  BY <2>1, <3>1
  <2>6. CASE req[c] \in New
    <3>1. r \in New
      BY <2>6
    <3> QED  BY <2>1, <3>1
  <2>7. CASE req[c] \in Drp
    <3>1. r \in Drp
      BY <2>7
    <3> QED  BY <2>1, <3>1
  <2>8. CASE req[c] \in Inv
    <3>1. r \in Inv
      BY <2>8
    <3> QED  BY <2>1, <3>1
  <2>9. CASE req[c] \in Rev
    <3>1. r \in Rev
      BY <2>9
    <3> QED  BY <2>1, <3>1
  <2>10. CASE req[c] \in OnU
    <3>1. r \in OnU
      BY <2>10
    <3> QED  BY <2>1, <3>1
  <2>11. CASE req[c] \in Del
    <3>1. r \in Del
      BY <2>11
    <3> QED  BY <2>1, <3>1
  <2> HIDE DEF Reg, Res, Pas, New, Drp, Inv, Rev, OnU, Del, r
  <2> QED  BY <2>1, <2>2, <2>3, <2>4, <2>5, <2>6, <2>7, <2>8, <2>9, <2>10, <2>11
<1> HIDE DEF r
<1> QED  BY <1>2, <1>3, ReqSet

LEMMA ReqsKept ==
  ASSUME AccountRowsOK, ReqsOK, NEW c \in Caller, RequestStep(c)
  PROVE  ReqsOK'
<1>1. ASSUME NEW r \in Request, Demand(c, r)
      PROVE  ReqsOK'
  BY <1>1, ReqSet DEF Demand
<1>2. \A u \in User : Credential(u) \subseteq Key \cup {Nil}
  BY DEF Credential
<1>3. CASE AskRegister(c)
  <2>1. PICK u \in User, t \in Token, a \in Address, w \in Word :
          Demand(c, [op |-> "register", at |-> "invite", by |-> u, t |-> t, mail |-> a,
                     word |-> w])
    BY <1>3 DEF AskRegister
  <2>2. [op |-> "register", at |-> "invite", by |-> u, t |-> t, mail |-> a, word |-> w]
          \in Request
    BY DEF Request
  <2> QED  BY <1>1, <2>1, <2>2
<1>4. CASE AskReset(c)
  <2>1. PICK l \in Link, w \in Word :
          Demand(c, [op |-> "reset", at |-> "link", by |-> Nil, l |-> l, word |-> w,
                     expired |-> link[l].expired])
    BY <1>4 DEF AskReset
  <2>2. link[l].expired \in BOOLEAN
    BY DEF AccountRowsOK, Reset
  <2>3. [op |-> "reset", at |-> "link", by |-> Nil, l |-> l, word |-> w,
         expired |-> link[l].expired] \in Request
    BY <2>2 DEF Request
  <2> QED  BY <1>1, <2>1, <2>3
<1>5. CASE AskPassword(c)
  <2>1. PICK u \in User, old \in Word, w \in Word, k \in Key \cup {Nil} :
          Demand(c, [op |-> "password", at |-> "auth", by |-> u, via |-> k, old |-> old,
                     word |-> w])
    BY <1>2, <1>5 DEF AskPassword
  <2>2. [op |-> "password", at |-> "auth", by |-> u, via |-> k, old |-> old, word |-> w]
          \in Request
    BY <1>2 DEF Request
  <2> QED  BY <1>1, <2>1, <2>2
<1>6. CASE AskNewKey(c) \/ AskInvite(c)
  <2>1. PICK op \in {"new_key", "invite"}, u \in User, k \in Key \cup {Nil} :
          Demand(c, [op |-> op, at |-> "auth", by |-> u, via |-> k])
    BY <1>2, <1>6 DEF AskNewKey, AskInvite
  <2>2. [op |-> op, at |-> "auth", by |-> u, via |-> k] \in Request
    BY <1>2 DEF Request
  <2> QED  BY <1>1, <2>1, <2>2
<1>7. CASE AskDropKey(c)
  <2>1. PICK u \in User, k \in Key, via \in Key \cup {Nil} :
          Demand(c, [op |-> "drop_key", at |-> "auth", by |-> u, via |-> via, k |-> k])
    BY <1>2, <1>7 DEF AskDropKey
  <2>2. [op |-> "drop_key", at |-> "auth", by |-> u, via |-> via, k |-> k] \in Request
    BY <1>2 DEF Request
  <2> QED  BY <1>1, <2>1, <2>2
<1>8. CASE AskRevoke(c)
  <2>1. PICK u \in User, t \in Token, k \in Key \cup {Nil} :
          Demand(c, [op |-> "revoke", at |-> "auth", by |-> u, via |-> k, t |-> t])
    BY <1>2, <1>8 DEF AskRevoke
  <2>2. [op |-> "revoke", at |-> "auth", by |-> u, via |-> k, t |-> t] \in Request
    BY <1>2 DEF Request
  <2> QED  BY <1>1, <2>1, <2>2
<1>9. CASE AskOnUser(c)
  <2>1. PICK op \in {"issue", "promote", "delete_user"}, u \in User, v \in User,
             k \in Key \cup {Nil} :
          Demand(c, [op |-> op, at |-> "auth", by |-> u, via |-> k, u |-> v])
    BY <1>2, <1>9 DEF AskOnUser
  <2>2. [op |-> op, at |-> "auth", by |-> u, via |-> k, u |-> v] \in Request
    BY <1>2 DEF Request
  <2> QED  BY <1>1, <2>1, <2>2
<1>10. CASE Demanded(c)
  BY <1>3, <1>4, <1>5, <1>6, <1>7, <1>8, <1>9, <1>10 DEF Demanded
<1>11. CASE Authenticated(c) /\ ~Answer(c)
  BY <1>11, ReqGoes DEF Authenticated, PasswordAuth, NewKeyAuth, DropKeyAuth, InviteAuth,
     RevokeAuth, OnUserAuth, DeleteAuth, Authenticate
<1>12. CASE Looks(c) /\ ~Answer(c)
  BY <1>12, ReqGoes DEF Looks, RegisterInvite, RegisterMail, ResetLink, DropKeyRead,
     RevokeRead, OnUserRead, DeleteUserRead, DeleteUserProjects, DeleteUserItems, AtReq
<1>13. CASE Sweeps(c)
  BY <1>13, ReqGoes DEF Sweeps, DeleteUserResets, DeleteUserInvites, DeleteUserKeys,
     DeleteUserPosts, AtReq
<1>14. CASE Answer(c)
  BY <1>14, ReqOver
<1> QED  BY <1>10, <1>11, <1>12, <1>13, <1>14, RequestKinds, StoresIs

Note    == {"word", "row"} \X User \cup {"used"} \X Token
SinceOK == since \in [Caller -> SUBSET Note]

LEMMA NotedType ==
  ASSUME SinceOK, NEW c \in Caller, NEW writes \in SUBSET Note, Noted(c, writes)
  PROVE  SinceOK'
<1> SUFFICES since' \in [Caller -> SUBSET Note]
  BY DEF SinceOK, Note
<1> QED  BY DEF SinceOK, Noted

LEMMA SinceKept ==
  ASSUME SinceOK, AccountRowsOK, LinksLead, ReqsOK, NEW c \in Caller, RequestStep(c), ResetOK(c)
  PROVE  SinceOK'
<1>1. CASE Demanded(c)
  <2>1. PICK r : Demand(c, r)
    BY <1>1, DemandedIs
  <2> QED  BY <2>1 DEF Demand, SinceOK, Note
<1>2. CASE Authenticated(c)
  <2>1. since' = [since EXCEPT ![c] = {}]
    BY <1>2, AuthenticatedIs DEF Authenticate
  <2> QED  BY <2>1 DEF SinceOK, Note
<1>3. CASE Looks(c) \/ Sweeps(c)
  <2>1. Noted(c, {})
    BY <1>3, LooksIs, SweepsIs DEF LookStep
  <2> QED  BY <2>1, NotedType
<1>4. ASSUME NEW u \in User, NEW kind \in {"word", "row"}
      PROVE  {<<kind, u>>} \in SUBSET Note
  BY DEF Note
<1>5. CASE RegisterCommit(c)
  <2>1. req[c].t \in Token
    BY <1>5, RequestLocals DEF ReqsOK, RegisterCommit, AtReq
  <2>2. {<<"used", req[c].t>>} \in SUBSET Note
    BY <2>1 DEF Note
  <2>3. Noted(c, {}) \/ Noted(c, {<<"used", req[c].t>>})
    BY <1>5 DEF RegisterCommit
  <2> QED  BY <2>2, <2>3, NotedType
<1>6. CASE ResetCommit(c)
  <2>1. req[c].l \in Link
    BY <1>6, RequestLocals DEF ReqsOK, ResetCommit, AtReq
  <2>2. link[req[c].l].of \in User
    BY <1>6, <2>1 DEF ResetCommit, ResetOK, LinksLead, Stored
  <2>3. Noted(c, {<<"word", link[req[c].l].of>>})
    BY <1>6 DEF ResetCommit
  <2> QED  BY <1>4, <2>2, <2>3, NotedType
<1>7. CASE PasswordWrite(c) \/ NewKeyInsert(c) \/ InviteInsert(c)
  <2>1. req[c].by \in User
    BY <1>7, RequestLocals DEF ReqsOK, PasswordWrite, NewKeyInsert, InviteInsert, AtReq
  <2>2. \/ Noted(c, {}) \/ Noted(c, {<<"word", req[c].by>>}) \/ Noted(c, {<<"row", req[c].by>>})
    BY <1>7 DEF PasswordWrite, NewKeyInsert, InviteInsert
  <2> QED  BY <1>4, <2>1, <2>2, NotedType
<1>8. CASE IssueInsert(c)
  <2>1. req[c].u \in User
    BY <1>8, RequestLocals DEF ReqsOK, IssueInsert, AtReq
  <2>2. \/ Noted(c, {}) \/ Noted(c, {<<"row", req[c].u>>})
    BY <1>8 DEF IssueInsert
  <2> QED  BY <1>4, <2>1, <2>2, NotedType
<1>9. CASE DropKeyRow(c) \/ RevokeRow(c) \/ PromoteWrite(c) \/ DeleteUserRow(c)
  <2>1. Noted(c, {})
    BY <1>9 DEF DropKeyRow, RevokeRow, PromoteWrite, DeleteUserRow
  <2> QED  BY <2>1, NotedType
<1> QED  BY <1>1, <1>2, <1>3, <1>5, <1>6, <1>7, <1>8, <1>9, RequestKinds DEF Stores

-----------------------------------------------------------------------------
(* What a request keeps of what the requests rely on *)

RequestsOK ==
  /\ AccountRowsOK /\ ReqsOK /\ SinceOK
  /\ LinksLead /\ InvitesLead /\ InvitesAdmitOne /\ AnAdminRemains
  /\ \A c \in Caller : /\ RegisterOK(c) /\ ResetOK(c) /\ PasswordOK(c) /\ RevokeOK(c)
                       /\ DeleterOK(c) /\ SweepOK(c)

LEMMA JoinsUses ==
  ASSUME AccountRowsOK, ReqsOK, NEW c \in Caller, NEW u, Joins(c, u)
  PROVE  req[c].t \in Token /\ invite'[req[c].t].state = "used"
<1>1. req[c].t \in Token
  BY RequestLocals DEF ReqsOK, Joins, RegisterCommit, AtReq
<1>2. invite' = [invite EXCEPT ![req[c].t] = Consumed(@, req[c].by)]
  BY DEF Joins, RegisterCommit
<1>3. invite'[req[c].t] = [invite[req[c].t] EXCEPT !.state = "used", !.of = req[c].by]
  BY <1>1, <1>2 DEF AccountRowsOK, Consumed
<1>4. invite[req[c].t] \in Invite
  BY <1>1 DEF AccountRowsOK
<1> QED  BY <1>1, <1>3, <1>4 DEF Invite

\* An id that was given to an account stays its own, and only the last statement
\* of its deletion takes the account away.
LEMMA StatesKept ==
  ASSUME RequestsOK, NEW c \in Caller, RequestStep(c), NEW u \in User
  PROVE  /\ account[u].state # "none" => account'[u].state # "none"
         /\ account[u].state = "none" /\ ~Joins(c, u) => account'[u].state = "none"
         /\ Alive(u) /\ ~Leaves(c, u) => Alive(u)'
<1>1. CASE Joins(c, u)
  BY <1>1 DEF Joins, Alive
<1>2. CASE SetsWord(c, u)
  BY <1>2 DEF SetsWord, SameBut, Alive
<1>3. CASE Promotes(c, u)
  BY <1>3 DEF Promotes, SameBut, Alive
<1>4. CASE Leaves(c, u)
  <2>1. account[u].state # "none"
    BY <1>4 DEF Leaves, DeleteUserRow, AtReq, RequestsOK, DeleterOK
  <2> QED  BY <1>4, <2>1 DEF Leaves
<1>5. CASE account'[u] = account[u]
  BY <1>5 DEF Alive
<1> QED  BY <1>1, <1>2, <1>3, <1>4, <1>5, AccountMoves DEF RequestsOK

LEMMA NotedBy ==
  ASSUME ReqsOK, NEW c \in Caller, RequestStep(c), NEW d \in Caller, d # c, Serving(d),
         NEW writes, Noted(c, writes)
  PROVE  writes \subseteq since'[d]
<1>1. req'[d] = req[d]
  BY OthersNote
<1> QED  BY <1>1 DEF Noted, Serving

LEMMA LinksKept ==
  ASSUME RequestsOK, NEW c \in Caller, RequestStep(c)
  PROVE  LinksLead'
<1> USE DEF RequestsOK
<1> SUFFICES ASSUME NEW l \in Link, Stored(link'[l])
             PROVE  link'[l].of \in User /\ account'[link'[l].of].state = "live"
  BY DEF LinksLead, Alive, Stored
<1>1. CASE link'[l] = link[l]
  <2>1. link[l].of \in User /\ Alive(link[l].of)
    BY <1>1 DEF LinksLead
  <2>2. ~Leaves(c, link[l].of)
    BY <1>1 DEF Leaves, Referenced
  <2> QED  BY <1>1, <2>1, <2>2, StatesKept DEF Alive
<1>2. CASE Resets(c, l)
  <2>1. Stored(link[l])
    BY <1>2 DEF Resets, ResetCommit, ResetOK, Stored
  <2>2. link[l].of \in User /\ Alive(link[l].of)
    BY <2>1 DEF LinksLead
  <2>3. ~Leaves(c, link[l].of)
    BY <1>2 DEF Resets, ResetCommit, Leaves, DeleteUserRow, AtReq
  <2> QED  BY <1>2, <2>2, <2>3, StatesKept DEF Resets, Alive
<1>3. CASE Sends(c, l)
  <2>1. req[c].u \in User
    BY <1>3, RequestLocals DEF ReqsOK, Sends, IssueInsert, AtReq
  <2>2. ~Leaves(c, req[c].u)
    BY <1>3 DEF Sends, IssueInsert, Leaves, DeleteUserRow, AtReq
  <2> QED  BY <1>3, <2>1, <2>2, StatesKept DEF Sends, Alive
<1>4. CASE Unlinks(c, l)
  BY <1>4 DEF Unlinks, Stored
<1> QED  BY <1>1, <1>2, <1>3, <1>4, LinkMoves

LEMMA InvitesKept ==
  ASSUME RequestsOK, NEW c \in Caller, RequestStep(c)
  PROVE  InvitesLead'
<1> USE DEF RequestsOK
<1> SUFFICES ASSUME NEW u \in User, account'[u].invite # Nil
             PROVE  /\ account'[u].state # "none"
                    /\ invite'[account'[u].invite].state \in {"used", "gone"}
  BY DEF InvitesLead
<1>1. CASE Joins(c, u)
  <2>1. account'[u].invite = req[c].t /\ account'[u].state = "live"
    BY <1>1 DEF Joins
  <2> QED  BY <1>1, <2>1, JoinsUses
<1>2. CASE ~Joins(c, u)
  <2>1. account'[u].invite = account[u].invite
    BY <1>2, AccountMoves DEF SetsWord, Promotes, Leaves, SameBut
  <2> DEFINE t == account[u].invite
  <2>2. t \in Token
    BY <2>1 DEF AccountRowsOK, Account
  <2>3. account[u].state # "none" /\ invite[t].state \in {"used", "gone"}
    BY <2>1 DEF InvitesLead
  <2>4. account'[u].state # "none"
    BY <2>3, StatesKept
  <2>5. invite'[t].state \in {"used", "gone"}
    <3> HIDE DEF t
    <3> QED  BY <2>2, <2>3, InviteMoves DEF Uses, Issues, Voids
  <2> QED  BY <2>1, <2>4, <2>5
<1> QED  BY <1>1, <1>2

LEMMA OneForEach ==
  ASSUME RequestsOK, NEW c \in Caller, RequestStep(c)
  PROVE  InvitesAdmitOne'
<1> USE DEF RequestsOK
<1>1. ASSUME NEW u \in User, ~Joins(c, u)
      PROVE  /\ account'[u].mail = account[u].mail /\ account'[u].invite = account[u].invite
             /\ Alive(u)' => Alive(u)
  <2>1. /\ account'[u].mail = account[u].mail /\ account'[u].invite = account[u].invite
        /\ account'[u].state \in {account[u].state, "gone"}
    BY <1>1, AccountMoves DEF SetsWord, Promotes, Leaves, SameBut
  <2> QED  BY <2>1 DEF Alive
<1>2. ASSUME NEW u \in User, NEW v \in User, u # v, Joins(c, u)
      PROVE  /\ Alive(v)' => account'[u].mail # account'[v].mail
             /\ account'[u].invite # account'[v].invite
  <2>1. ~Joins(c, v)
    BY <1>2 DEF Joins
  <2>2. account'[u].mail = req[c].mail /\ account'[u].invite = req[c].t /\ ~Taken(req[c].mail)
    BY <1>2 DEF Joins
  <2>3. req[c].t \in Token /\ invite[req[c].t].state = "open"
    BY <1>2, RequestLocals DEF ReqsOK, Joins, RegisterCommit, AtReq, RegisterOK
  <2>4. account[v].invite # req[c].t
    BY <2>3, AccountsAssumption DEF InvitesLead
  <2> QED  BY <1>1, <2>1, <2>2, <2>4 DEF Taken
<1> SUFFICES ASSUME NEW u \in User, NEW v \in User, u # v
             PROVE  /\ Alive(u)' /\ Alive(v)' => account'[u].mail # account'[v].mail
                    /\ account'[u].invite # Nil => account'[u].invite # account'[v].invite
  BY DEF InvitesAdmitOne, Alive
<1>3. CASE Joins(c, u)
  BY <1>2, <1>3
<1>4. CASE Joins(c, v)
  BY <1>2, <1>4
<1>5. CASE ~Joins(c, u) /\ ~Joins(c, v)
  BY <1>1, <1>5 DEF InvitesAdmitOne
<1> QED  BY <1>3, <1>4, <1>5

LEMMA DuelKept ==
  ASSUME NEW c \in Caller, RequestStep(c)
  PROVE  /\ duel => duel'
         /\ \A u : Leaves(c, u) => \A d \in Caller \ {c} :
                     req[d].op = "delete_user" /\ req[d].by = u => duel'
<1>1. CASE DeleteUserRow(c)
  <2>1. duel => duel'
    BY <1>1 DEF DeleteUserRow
  <2>2. ASSUME NEW u, Leaves(c, u), NEW d \in Caller \ {c}, req[d].op = "delete_user",
               req[d].by = u
        PROVE  duel'
    BY <1>1, <2>2 DEF DeleteUserRow, Leaves
  <2> QED  BY <2>1, <2>2
<1>2. CASE ~DeleteUserRow(c)
  <2>1. duel' = duel
    BY <1>2 DEF RequestStep, AskRegister, RegisterInvite, RegisterMail, RegisterCommit,
     AskReset, ResetLink, ResetCommit, AskPassword, PasswordAuth, PasswordWrite,
     AskNewKey, NewKeyAuth, NewKeyInsert, AskDropKey, DropKeyAuth, DropKeyRead, DropKeyRow,
     AskInvite, InviteAuth, InviteInsert, AskRevoke, RevokeAuth, RevokeRead, RevokeRow,
     AskOnUser, OnUserAuth, OnUserRead, IssueInsert, PromoteWrite, DeleteAuth,
     DeleteUserRead, DeleteUserProjects, DeleteUserItems, DeleteUserResets,
     DeleteUserInvites, DeleteUserKeys, DeleteUserPosts,
     Demand, Authenticate, LookStep
  <2> QED  BY <1>2, <2>1 DEF Leaves
<1> QED  BY <1>1, <1>2

LEMMA AdminsKept ==
  ASSUME RequestsOK, NEW c \in Caller, RequestStep(c)
  PROVE  AnAdminRemains'
<1> USE DEF RequestsOK
<1> SUFFICES ASSUME NEW u \in User, account'[u].admin, account'[u].state # "none", ~duel'
             PROVE  \E w \in User : Alive(w)' /\ account'[w].admin
  BY DEF AnAdminRemains, Alive
<1>0. ~duel
  BY DuelKept
<1>1. ASSUME NEW v \in User, Leaves(c, v)
      PROVE  \E w \in User : Alive(w)' /\ account'[w].admin
  <2> DEFINE a == req[c].by
  <2>1. a \in User /\ a # v /\ account[a].admin /\ Alive(a)
    <3>1. AtReq(c, "delete_user", "row") /\ v = req[c].u
      BY <1>1 DEF Leaves, DeleteUserRow
    <3>2. a \in User
      BY <3>1, RequestLocals DEF ReqsOK, AtReq
    <3> QED  BY <1>0, <3>1, <3>2 DEF AtReq, DeleterOK
  <2>2. account'[a] = account[a]
    <3>1. ~Joins(c, a) /\ ~SetsWord(c, a) /\ ~Promotes(c, a) /\ ~Leaves(c, a)
      BY <1>1, <2>1 DEF Leaves, DeleteUserRow, Joins, RegisterCommit, SetsWord, ResetCommit,
                        PasswordWrite, Promotes, PromoteWrite, AtReq
    <3> QED  BY <2>1, <3>1, AccountMoves
  <2> QED  BY <2>1, <2>2 DEF Alive
<1>2. CASE \A v \in User : ~Leaves(c, v)
  <2>1. ASSUME NEW w \in User, Alive(w), account[w].admin
        PROVE  Alive(w)' /\ account'[w].admin
    <3>1. Alive(w)'
      BY <1>2, <2>1, StatesKept
    <3>2. ~Joins(c, w)
      BY <2>1 DEF Joins, RegisterCommit, RegisterOK, AtReq, Alive
    <3>3. account'[w].admin
      BY <1>2, <2>1, <3>2, AccountMoves DEF SetsWord, Promotes, SameBut
    <3> QED  BY <3>1, <3>3
  <2>2. CASE Promotes(c, u)
    BY <2>2, <1>2, StatesKept DEF Promotes
  <2>3. CASE ~Promotes(c, u)
    <3>1. ~Joins(c, u)
      BY DEF Joins
    <3>2. account[u].admin /\ account[u].state # "none"
      BY <1>2, <2>3, <3>1, AccountMoves, StatesKept DEF SetsWord, SameBut
    <3>3. \E w \in User : Alive(w) /\ account[w].admin
      BY <1>0, <3>2 DEF AnAdminRemains
    <3> QED  BY <2>1, <3>3
  <2> QED  BY <2>2, <2>3
<1> QED  BY <1>1, <1>2

LEMMA LooksKeep ==
  ASSUME NEW c \in Caller, Looks(c) \/ Authenticated(c) \/ Demanded(c)
  PROVE  UNCHANGED <<account, invite, link, key, author, duel, tables>>
<1>1. CASE Looks(c)
  BY <1>1, LooksIs DEF LookStep, BoardKept, accountVars
<1>2. CASE Authenticated(c)
  BY <1>2, AuthenticatedIs DEF Authenticate, BoardKept, accountVars
<1>3. CASE Demanded(c)
  <2>1. PICK r : Demand(c, r)
    BY <1>3, DemandedIs
  <2> QED  BY <2>1 DEF Demand, accountVars
<1> QED  BY <1>1, <1>2, <1>3

\* An Answer leaves nothing to rely on.
LEMMA NothingLeft ==
  ASSUME NEW c \in Caller, req'[c].op = "none"
  PROVE  /\ RegisterOK(c)' /\ ResetOK(c)' /\ PasswordOK(c)' /\ RevokeOK(c)'
         /\ DeleterOK(c)' /\ SweepOK(c)'
BY DEF RegisterOK, ResetOK, PasswordOK, RevokeOK, DeleterOK, SweepOK, AtReq

\* What is demanded is of one kind.
LEMMA DemandedAt ==
  ASSUME ReqsOK, NEW c \in Caller, Demanded(c)
  PROVE  /\ req'[c].at \in {"auth", "invite", "link"}
         /\ req'[c].at = "invite" => req'[c].op = "register"
         /\ req'[c].op = "register" => AskRegister(c) /\ req'[c].at = "invite"
         /\ req'[c].op = "reset" => req'[c].at = "link"
         /\ req'[c].op = "delete_user" => req'[c].at = "auth" /\ account[req'[c].u].state # "none"
         /\ \A d \in Caller : d # c => req'[d] = req[d]
<1> DEFINE Here(r) ==
      /\ r.at \in {"auth", "invite", "link"}
      /\ r.at = "invite" => r.op = "register"
      /\ r.op = "register" => AskRegister(c) /\ r.at = "invite"
      /\ r.op = "reset" => r.at = "link"
      /\ r.op = "delete_user" => r.at = "auth" /\ account[r.u].state # "none"
<1>1. ASSUME NEW r, Demand(c, r), Here(r)
      PROVE  Here(req'[c]) /\ \A d \in Caller : d # c => req'[d] = req[d]
  <2>1. req'[c] = r /\ \A d \in Caller : d # c => req'[d] = req[d]
    BY <1>1, Demands
  <2> QED  BY <1>1, <2>1
<1>2. \E r : Demand(c, r) /\ Here(r)
  <2>1. CASE AskRegister(c)
    <3>1. PICK u \in User, t \in Token, a \in Address, w \in Word :
          Demand(c, [op |-> "register", at |-> "invite", by |-> u, t |-> t, mail |-> a,
                     word |-> w])
      BY <2>1 DEF AskRegister
    <3> QED  BY <2>1, <3>1
  <2>2. CASE AskReset(c)
    <3>1. PICK l \in Link, w \in Word :
          Demand(c, [op |-> "reset", at |-> "link", by |-> Nil, l |-> l, word |-> w,
                     expired |-> link[l].expired])
      BY <2>2 DEF AskReset
    <3> QED  BY <3>1
  <2>3. CASE AskPassword(c)
    <3>1. PICK u, old, w, k : Demand(c, [op |-> "password", at |-> "auth", by |-> u, via |-> k,
                                          old |-> old, word |-> w])
      BY <2>3 DEF AskPassword
    <3> QED  BY <3>1
  <2>4. CASE AskNewKey(c)
    <3>1. PICK u, k : Demand(c, [op |-> "new_key", at |-> "auth", by |-> u, via |-> k])
      BY <2>4 DEF AskNewKey
    <3> QED  BY <3>1
  <2>5. CASE AskInvite(c)
    <3>1. PICK u, k : Demand(c, [op |-> "invite", at |-> "auth", by |-> u, via |-> k])
      BY <2>5 DEF AskInvite
    <3> QED  BY <3>1
  <2>6. CASE AskDropKey(c)
    <3>1. PICK u, k, via : Demand(c, [op |-> "drop_key", at |-> "auth", by |-> u, via |-> via,
                                      k |-> k])
      BY <2>6 DEF AskDropKey
    <3> QED  BY <3>1
  <2>7. CASE AskRevoke(c)
    <3>1. PICK u, t, k : Demand(c, [op |-> "revoke", at |-> "auth", by |-> u, via |-> k,
                                    t |-> t])
      BY <2>7 DEF AskRevoke
    <3> QED  BY <3>1
  <2>8. CASE AskOnUser(c)
    <3>1. PICK op \in {"issue", "promote", "delete_user"}, u \in User, v \in User,
               k \in Key \cup {Nil} :
            /\ account[v].state # "none"
            /\ Demand(c, [op |-> op, at |-> "auth", by |-> u, via |-> k, u |-> v])
      BY <2>8 DEF AskOnUser, Credential
    <3> QED  BY <3>1
  <2> QED  BY <2>1, <2>2, <2>3, <2>4, <2>5, <2>6, <2>7, <2>8 DEF Demanded
<1> QED  BY <1>1, <1>2

LEMMA RequestGoes ==
  ASSUME NEW c \in Caller, RequestStep(c)
  PROVE  Demanded(c) \/ (Serving(c) /\ (Answer(c) \/ \E at : Proceed(c, at)))
BY RequestKinds, AuthenticatedIs, LooksIs, StoresIs, SweepsIs DEF Authenticate, Serving

\* Two transactions do not hold an invite or a link, and nobody changes it but
\* the one that does.
LEMMA RegistersKept ==
  ASSUME RequestsOK, NEW c \in Caller, RequestStep(c), NEW d \in Caller
  PROVE  RegisterOK(d)'
<1> USE DEF RequestsOK
<1>1. CASE d # c
  <2> SUFFICES ASSUME req[d].op = "register"
               PROVE  /\ account'[req[d].by].state = "none"
                      /\ \A e \in Caller : req'[e].op = "register" /\ e # d
                                             => req'[e].by # req[d].by
                      /\ req[d].at # "invite" =>
                           /\ invite'[req[d].t].state = "open"
                           /\ \A e \in Caller : HoldsInvite(e, req[d].t)' => e = d
    <3>1. req'[d] = req[d]
      BY <1>1, OthersNote
    <3> QED  BY <3>1 DEF RegisterOK, HoldsInvite
  <2>1. req[d].by \in User /\ req[d].t \in Token
    BY RequestLocals DEF ReqsOK
  <2>2. /\ account[req[d].by].state = "none"
        /\ \A e \in Caller : req[e].op = "register" /\ e # d => req[e].by # req[d].by
        /\ req[d].at # "invite" => /\ invite[req[d].t].state = "open"
                                   /\ \A e \in Caller : HoldsInvite(e, req[d].t) => e = d
    BY DEF RegisterOK
  <2>3. account'[req[d].by].state = "none"
    <3>1. ~Joins(c, req[d].by)
      BY <1>1, <2>2 DEF Joins, RegisterCommit, AtReq
    <3> QED  BY <2>1, <2>2, <3>1, StatesKept
  <2>4. req'[c].op = "register"
          => AskRegister(c) \/ (req[c].op = "register" /\ req'[c].by = req[c].by)
    <3>1. CASE Demanded(c)
      BY <3>1, DemandedAt
    <3>2. CASE Serving(c) /\ \E at : Proceed(c, at)
      BY <3>2, SameRequest
    <3>3. CASE Answer(c)
      BY <3>3, Answers
    <3> QED  BY <3>1, <3>2, <3>3, RequestKinds, AuthenticatedIs, LooksIs, StoresIs, SweepsIs
             DEF Authenticate, Serving
  <2>5. AskRegister(c) => req'[c].by # req[d].by
    <3>1. ASSUME AskRegister(c)
          PROVE  req'[c].by # req[d].by
      <4>1. PICK u \in User, t \in Token, a \in Address, w \in Word :
              /\ \A e \in Caller : req[e].op = "register" => req[e].by # u
              /\ Demand(c, [op |-> "register", at |-> "invite", by |-> u, t |-> t, mail |-> a,
                            word |-> w])
        BY <3>1 DEF AskRegister
      <4>2. req'[c].by = u
        BY <4>1, Demands
      <4> QED  BY <4>1, <4>2
    <3> QED  BY <3>1
  <2>6. ASSUME NEW e \in Caller, req'[e].op = "register", e # d
        PROVE  req'[e].by # req[d].by
    <3>1. CASE e = c
      BY <2>2, <2>4, <2>5, <2>6, <3>1
    <3>2. CASE e # c
      BY <2>2, <2>6, <3>2, OthersNote
    <3> QED  BY <3>1, <3>2
  <2>7. ASSUME req[d].at # "invite"
        PROVE  /\ invite'[req[d].t].state = "open"
               /\ \A e \in Caller : HoldsInvite(e, req[d].t)' => e = d
    <3> DEFINE t == req[d].t
    <3>0. HoldsInvite(d, t) /\ req'[d] = req[d]
      BY <1>1, <2>7, OthersNote DEF HoldsInvite
    <3>1. ~HoldsInvite(c, t) /\ Locked(t)
      BY <1>1, <2>2, <2>7, <3>0 DEF Locked
    <3>2. invite'[t].state = "open"
      <4>1. ~Uses(c, t)
        BY <3>1 DEF Uses, RegisterCommit, AtReq, HoldsInvite
      <4>2. ~Issues(c, t) /\ ~Voids(c, t)
        BY <2>2, <2>7, <3>1 DEF Issues, Voids
      <4> QED  BY <2>1, <2>2, <2>7, <4>1, <4>2, InviteMoves
    <3>3. ~HoldsInvite(c, t)'
      <4> SUFFICES ASSUME req'[c].op = "register", req'[c].at # "invite", req'[c].t = t
                   PROVE  FALSE
        BY <3>0 DEF HoldsInvite
      <4>1. ~Demanded(c) /\ ~Answer(c)
        BY DemandedAt, Answers
      <4>2. Serving(c) /\ \E at : Proceed(c, at)
        BY <4>1, RequestKinds, AuthenticatedIs, LooksIs, StoresIs, SweepsIs
           DEF Authenticate, Serving
      <4>3. req[c].op = "register" /\ req[c].t = t
        BY <4>2, SameRequest
      <4>4. RegisterInvite(c)
        BY <3>1, <4>1, <4>3 DEF HoldsInvite, RequestStep, Demanded, Answer,
           RegisterMail, RegisterCommit, ResetLink,
           ResetCommit, PasswordAuth, PasswordWrite, NewKeyAuth, NewKeyInsert, DropKeyAuth,
           DropKeyRead, DropKeyRow, InviteAuth, InviteInsert, RevokeAuth, RevokeRead, RevokeRow,
           OnUserAuth, OnUserRead, IssueInsert, PromoteWrite, DeleteAuth, DeleteUserRead,
           DeleteUserProjects, DeleteUserItems, DeleteUserResets, DeleteUserInvites,
           DeleteUserKeys, DeleteUserPosts, DeleteUserRow, AtReq
      <4> QED  BY <3>1, <4>3, <4>4 DEF RegisterInvite
    <3>4. ASSUME NEW e \in Caller, HoldsInvite(e, t)'
          PROVE  e = d
      <4>1. e # c
        BY <3>3, <3>4
      <4>2. HoldsInvite(e, t)
        BY <3>0, <3>4, <4>1, OthersNote DEF HoldsInvite
      <4> QED  BY <2>2, <2>7, <4>2
    <3> QED  BY <3>2, <3>4
  <2> QED  BY <2>3, <2>6, <2>7
<1>2. CASE d = c
  <2>1. CASE Demanded(c)
    <3> SUFFICES ASSUME req'[c].op = "register"
                 PROVE  RegisterOK(c)'
      BY <1>2 DEF RegisterOK
    <3>1. AskRegister(c) /\ req'[c].at = "invite" /\ account' = account
          /\ \A e \in Caller : e # c => req'[e] = req[e]
      BY <2>1, DemandedAt, LooksKeep
    <3>2. PICK u \in User, t \in Token, a \in Address, w \in Word :
            /\ account[u].state = "none"
            /\ \A e \in Caller : req[e].op = "register" => req[e].by # u
            /\ Demand(c, [op |-> "register", at |-> "invite", by |-> u, t |-> t, mail |-> a,
                          word |-> w])
      BY <3>1 DEF AskRegister
    <3>3. req'[c].by = u
      BY <3>2, Demands
    <3> QED  BY <3>1, <3>2, <3>3 DEF RegisterOK
  <2>2. CASE Answer(c)
    BY <1>2, <2>2, Answers, NothingLeft
  <2>3. CASE RegisterInvite(c) \/ RegisterMail(c)
    <3> SUFFICES ASSUME ~Answer(c)
                 PROVE  RegisterOK(c)'
      BY <1>2, <2>2
    <3>1. PICK at : Proceed(c, at)
      BY <2>3 DEF RegisterInvite, RegisterMail
    <3>2. req[c].op = "register"
      BY <2>3 DEF RegisterInvite, RegisterMail, AtReq
    <3>3. /\ req'[c].op = "register" /\ req'[c].by = req[c].by /\ req'[c].t = req[c].t
          /\ \A e \in Caller : e # c => req'[e] = req[e]
      BY <3>1, <3>2, SameRequest DEF Serving
    <3>4. account' = account /\ invite' = invite
      BY <2>3, LooksKeep DEF Looks
    <3>5. /\ invite[req[c].t].state = "open"
          /\ \A e \in Caller : HoldsInvite(e, req[c].t) => e = c
      <4>1. CASE RegisterInvite(c)
        BY <4>1 DEF RegisterInvite, Locked
      <4>2. CASE RegisterMail(c)
        BY <4>2 DEF RegisterMail, AtReq, RegisterOK
      <4> QED  BY <2>3, <4>1, <4>2
    <3>6. \A e \in Caller : HoldsInvite(e, req[c].t)' => e = c
      BY <3>3, <3>5 DEF HoldsInvite
    <3>7. /\ account[req[c].by].state = "none"
          /\ \A e \in Caller : req[e].op = "register" /\ e # c => req[e].by # req[c].by
      BY <3>2 DEF RegisterOK
    <3> QED  BY <3>3, <3>4, <3>5, <3>6, <3>7 DEF RegisterOK, HoldsInvite
  <2>4. CASE Serving(c) /\ ~Answer(c) /\ ~Demanded(c) /\ ~RegisterInvite(c) /\ ~RegisterMail(c)
    <3>1. req[c].op # "register"
      BY <2>4 DEF RequestStep, Demanded, Answer,
           RegisterCommit, ResetLink,
           ResetCommit, PasswordAuth, PasswordWrite, NewKeyAuth, NewKeyInsert, DropKeyAuth,
           DropKeyRead, DropKeyRow, InviteAuth, InviteInsert, RevokeAuth, RevokeRead, RevokeRow,
           OnUserAuth, OnUserRead, IssueInsert, PromoteWrite, DeleteAuth, DeleteUserRead,
           DeleteUserProjects, DeleteUserItems, DeleteUserResets, DeleteUserInvites,
           DeleteUserKeys, DeleteUserPosts, DeleteUserRow, AtReq
    <3>2. PICK at : Proceed(c, at)
      BY <2>4, RequestKinds, AuthenticatedIs, LooksIs, StoresIs, SweepsIs DEF Authenticate
    <3>3. req'[c].op = req[c].op
      BY <2>4, <3>2, SameRequest
    <3> QED  BY <1>2, <3>1, <3>3 DEF RegisterOK
  <2>5. Demanded(c) \/ Serving(c)
    BY RequestKinds, AuthenticatedIs, LooksIs, StoresIs, SweepsIs DEF Authenticate, Serving
  <2> QED  BY <2>1, <2>2, <2>3, <2>4, <2>5
<1> QED  BY <1>1, <1>2

\* The statement that a request comes from, by the one it is at.
LEMMA ComesFrom ==
  ASSUME ReqsOK, NEW c \in Caller, RequestStep(c)
  PROVE  /\ AtReq(c, "reset", "commit")' => ResetLink(c)
         /\ AtReq(c, "password", "write")' => PasswordAuth(c)
         /\ AtReq(c, "revoke", "row")' => RevokeRead(c)
         /\ req'[c].op = "delete_user" /\ req'[c].at # "auth" =>
              \/ DeleteAuth(c) \/ DeleteUserRead(c) \/ DeleteUserProjects(c)
              \/ DeleteUserItems(c) \/ Sweeps(c)
<1> SUFFICES ASSUME Serving(c), ~Answer(c), ~Demanded(c), NEW at, Proceed(c, at),
                    req'[c].op = req[c].op, req'[c].at = at
             PROVE  /\ req[c].op = "reset" /\ at = "commit" => ResetLink(c)
                    /\ req[c].op = "password" /\ at = "write" => PasswordAuth(c)
                    /\ req[c].op = "revoke" /\ at = "row" => RevokeRead(c)
                    /\ req[c].op = "delete_user" =>
                         \/ DeleteAuth(c) \/ DeleteUserRead(c) \/ DeleteUserProjects(c)
                         \/ DeleteUserItems(c) \/ Sweeps(c)
  <2>1. CASE Demanded(c)
    BY <2>1, DemandedAt DEF AtReq
  <2>2. CASE Answer(c)
    BY <2>2, Answers DEF AtReq
  <2>3. CASE Serving(c) /\ ~Answer(c) /\ ~Demanded(c)
    <3>1. PICK at : Proceed(c, at)
      BY <2>3, RequestGoes
    <3>2. req'[c].op = req[c].op /\ req'[c].at = at
      BY <2>3, <3>1, SameRequest
    <3> QED  BY <2>3, <3>1, <3>2 DEF AtReq
  <2> QED  BY <2>1, <2>2, <2>3, RequestGoes
<1>1. \/ RegisterInvite(c) \/ RegisterMail(c) \/ ResetLink(c) \/ DropKeyRead(c)
      \/ RevokeRead(c) \/ OnUserRead(c) \/ DeleteUserRead(c) \/ DeleteUserProjects(c)
      \/ DeleteUserItems(c) \/ Authenticated(c) \/ Sweeps(c)
  BY RequestKinds, StoresIs DEF Looks
<1>2. CASE \/ RegisterInvite(c) \/ RegisterMail(c) \/ ResetLink(c) \/ DropKeyRead(c)
           \/ RevokeRead(c) \/ OnUserRead(c) \/ DeleteUserRead(c) \/ DeleteUserProjects(c)
           \/ DeleteUserItems(c)
  BY <1>2 DEF RegisterInvite, RegisterMail, ResetLink, DropKeyRead, RevokeRead, OnUserRead,
              DeleteUserRead, DeleteUserProjects, DeleteUserItems, AtReq
<1>3. CASE Authenticated(c)
  <2>1. CASE RevokeAuth(c)
    <3>1. Proceed(c, "read") /\ req[c].op = "revoke"
      BY <2>1 DEF RevokeAuth, Authenticate
    <3>2. req'[c].at = "read"
      BY <3>1, SameRequest
    <3> QED  BY <3>1, <3>2
  <2>2. CASE ~RevokeAuth(c)
    BY <1>3, <2>2 DEF Authenticated, PasswordAuth, NewKeyAuth, DropKeyAuth, InviteAuth,
                      OnUserAuth, DeleteAuth
  <2> QED  BY <2>1, <2>2
<1>4. CASE Sweeps(c)
  BY <1>4 DEF Sweeps, DeleteUserResets, DeleteUserInvites, DeleteUserKeys, DeleteUserPosts,
              AtReq
<1> QED  BY <1>1, <1>2, <1>3, <1>4

LEMMA ResetsKept ==
  ASSUME RequestsOK, NEW c \in Caller, RequestStep(c), NEW d \in Caller
  PROVE  ResetOK(d)'
<1> USE DEF RequestsOK
<1>1. CASE d # c
  <2>0. req'[d] = req[d]
    BY <1>1, OthersNote
  <2> SUFFICES ASSUME AtReq(d, "reset", "commit")
               PROVE  /\ link'[req[d].l].state = "open" /\ ~req[d].expired
                      /\ \A e \in Caller : HoldsLink(e, req[d].l)' => e = d
    BY <2>0 DEF ResetOK, HoldsLink, AtReq
  <2> DEFINE l == req[d].l
  <2>1. l \in Link
    BY RequestLocals DEF ReqsOK, AtReq
  <2>2. /\ link[l].state = "open" /\ ~req[d].expired
        /\ \A e \in Caller : HoldsLink(e, l) => e = d
    BY DEF ResetOK
  <2>3. HoldsLink(d, l) /\ Locked(l) /\ ~HoldsLink(c, l)
    BY <1>1, <2>2 DEF HoldsLink, AtReq, Locked
  <2>4. link'[l].state = "open"
    <3>1. ~Resets(c, l)
      BY <2>3 DEF Resets, ResetCommit, AtReq, HoldsLink
    <3>2. ~Sends(c, l) /\ ~Unlinks(c, l)
      BY <2>2, <2>3 DEF Sends, Unlinks
    <3> QED  BY <2>1, <2>2, <3>1, <3>2, LinkMoves
  <2>5. ~(req'[c].op = "reset" /\ req'[c].at # "link" /\ req'[c].l = l)
    <3> SUFFICES ASSUME req'[c].op = "reset", req'[c].at # "link", req'[c].l = l
                 PROVE  FALSE
      OBVIOUS
    <3>1. ~Answer(c)
      BY Answers
    <3>2. ~Demanded(c)
      BY DemandedAt
    <3>3. PICK at : Serving(c) /\ Proceed(c, at)
      BY <3>1, <3>2, RequestGoes
    <3>4. req[c].op = "reset" /\ req[c].l = l
      BY <3>3, SameRequest
    <3>5. req[c].at = "link" /\ req'[c].at = at
      BY <2>3, <3>3, <3>4, SameRequest DEF HoldsLink
    <3>6. ResetLink(c)
      BY <3>1, <3>2, <3>4, <3>5, RequestKinds, StoresIs DEF Looks, RegisterInvite, RegisterMail,
         DropKeyRead, RevokeRead, OnUserRead, DeleteUserRead, DeleteUserProjects,
         DeleteUserItems, Sweeps, DeleteUserResets, DeleteUserInvites, DeleteUserKeys,
         DeleteUserPosts, Authenticated, PasswordAuth, NewKeyAuth, DropKeyAuth, InviteAuth,
         RevokeAuth, OnUserAuth, DeleteAuth, AtReq
    <3> QED  BY <2>3, <3>4, <3>6 DEF ResetLink
  <2>6. ASSUME NEW e \in Caller, HoldsLink(e, l)'
        PROVE  e = d
    <3>1. e # c
      BY <2>0, <2>5, <2>6 DEF HoldsLink
    <3>2. HoldsLink(e, l)
      BY <2>0, <2>6, <3>1, OthersNote DEF HoldsLink
    <3> QED  BY <2>2, <3>2
  <2> QED  BY <2>0, <2>2, <2>4, <2>6 DEF HoldsLink
<1>2. CASE d = c
  <2> SUFFICES ASSUME AtReq(c, "reset", "commit")'
               PROVE  ResetOK(c)'
    BY <1>2 DEF ResetOK, AtReq
  <2>1. ResetLink(c) /\ ~Answer(c)
    BY ComesFrom, Answers DEF AtReq
  <2>2. /\ Proceed(c, "commit") /\ req[c].op = "reset" /\ ~Locked(req[c].l)
        /\ link[req[c].l].state = "open" /\ ~req[c].expired
    BY <2>1 DEF ResetLink, AtReq, ResetRefused
  <2>3. /\ req'[c].l = req[c].l /\ req'[c].expired = req[c].expired
        /\ \A e \in Caller : e # c => req'[e] = req[e]
    BY <2>2, SameRequest DEF Serving
  <2>4. link' = link
    BY <2>1, LooksKeep DEF Looks
  <2>5. \A e \in Caller : HoldsLink(e, req[c].l)' => e = c
    BY <2>2, <2>3 DEF Locked, HoldsLink
  <2> QED  BY <2>2, <2>3, <2>4, <2>5 DEF ResetOK, HoldsLink
<1> QED  BY <1>1, <1>2

\* What an account keeps but for the statement that is about it.
LEMMA AccountKeeps ==
  ASSUME RequestsOK, NEW c \in Caller, RequestStep(c), NEW u \in User, ~Joins(c, u)
  PROVE  /\ ~SetsWord(c, u) => account'[u].word = account[u].word
         /\ account[u].admin => account'[u].admin
<1>1. CASE account'[u] = account[u]  BY <1>1
<1>2. CASE SetsWord(c, u)  BY <1>2 DEF SetsWord, SameBut
<1>3. CASE Promotes(c, u)  BY <1>3 DEF Promotes, SameBut
<1>4. CASE Leaves(c, u)  BY <1>4 DEF Leaves, SameBut
<1> QED  BY <1>1, <1>2, <1>3, <1>4, AccountMoves DEF RequestsOK

LEMMA PasswordsKept ==
  ASSUME RequestsOK, NEW c \in Caller, RequestStep(c), NEW d \in Caller
  PROVE  PasswordOK(d)'
<1> USE DEF RequestsOK
<1> SUFFICES ASSUME AtReq(d, "password", "write")'
             PROVE  LET u == req'[d].by IN
                    /\ account'[u].state # "none"
                    /\ account'[u].word = req'[d].old \/ <<"word", u>> \in since'[d]
  BY DEF PasswordOK, AtReq
<1>1. CASE d # c
  <2> DEFINE u == req[d].by
  <2>1. req'[d] = req[d] /\ Serving(d) /\ since[d] \subseteq since'[d]
    BY <1>1, OthersNote DEF AtReq, Serving
  <2>2. u \in User /\ AtReq(d, "password", "write")
    BY <2>1, RequestLocals DEF ReqsOK, AtReq
  <2>3. account[u].state # "none" /\ (account[u].word = req[d].old \/ <<"word", u>> \in since[d])
    BY <2>2 DEF PasswordOK
  <2>4. account'[u].state # "none"
    BY <2>2, <2>3, StatesKept
  <2>5. CASE account'[u].word = account[u].word
    BY <2>1, <2>3, <2>4, <2>5
  <2>6. CASE SetsWord(c, u)
    <3>1. {<<"word", u>>} \subseteq since'[d]
      BY <1>1, <2>1, <2>6, NotedBy DEF SetsWord
    <3> QED  BY <2>1, <2>4, <3>1
  <2>7. ~Joins(c, u)
    BY <2>3 DEF Joins, RegisterCommit, RegisterOK, AtReq
  <2>8. account'[u].word = account[u].word \/ SetsWord(c, u)
    BY <2>2, <2>7, AccountKeeps
  <2> QED  BY <2>5, <2>6, <2>8
<1>2. CASE d = c
  <2>1. PasswordAuth(c)
    BY <1>2, ComesFrom
  <2>2. account' = account
    BY <2>1, LooksKeep DEF Authenticated
  <2>3. ~Answer(c)
    BY <1>2, Answers DEF AtReq
  <2>4. /\ Authentic(req[c]) /\ account[req[c].by].word = req[c].old /\ Proceed(c, "write")
        /\ req[c].op = "password"
    BY <2>1, <2>3 DEF PasswordAuth, Authenticate
  <2>5. req'[c].by = req[c].by /\ req'[c].old = req[c].old
    BY <2>4, SameRequest DEF Serving
  <2> QED  BY <1>2, <2>2, <2>4, <2>5 DEF Authentic, Alive
<1> QED  BY <1>1, <1>2

LEMMA RevokesKept ==
  ASSUME RequestsOK, NEW c \in Caller, RequestStep(c), NEW d \in Caller
  PROVE  RevokeOK(d)'
<1> USE DEF RequestsOK
<1> SUFFICES ASSUME AtReq(d, "revoke", "row")'
             PROVE  LET t == req'[d].t IN
                    invite'[t].state # "used" \/ <<"used", t>> \in since'[d]
  BY DEF RevokeOK, AtReq
<1>1. CASE d # c
  <2> DEFINE t == req[d].t
  <2>1. req'[d] = req[d] /\ Serving(d) /\ since[d] \subseteq since'[d]
    BY <1>1, OthersNote DEF AtReq, Serving
  <2>2. t \in Token /\ AtReq(d, "revoke", "row")
    BY <2>1, RequestLocals DEF ReqsOK, AtReq
  <2>3. invite[t].state # "used" \/ <<"used", t>> \in since[d]
    BY <2>2 DEF RevokeOK
  <2>4. CASE Uses(c, t)
    <3>1. {<<"used", t>>} \subseteq since'[d]
      BY <1>1, <2>1, <2>4, NotedBy DEF Uses
    <3> QED  BY <2>1, <3>1
  <2>5. CASE ~Uses(c, t)
    <3>1. invite'[t].state # "used" \/ invite'[t].state = invite[t].state
      BY <2>2, <2>5, InviteMoves DEF Issues, Voids
    <3> QED  BY <2>1, <2>3, <3>1
  <2> QED  BY <2>4, <2>5
<1>2. CASE d = c
  <2>1. RevokeRead(c)
    BY <1>2, ComesFrom
  <2>2. invite' = invite
    BY <2>1, LooksKeep DEF Looks
  <2>3. ~Answer(c)
    BY <1>2, Answers DEF AtReq
  <2>4. invite[req[c].t].state = "open" /\ Proceed(c, "row") /\ req[c].op = "revoke"
    BY <2>1, <2>3 DEF RevokeRead, AtReq
  <2>5. req'[c].t = req[c].t
    BY <2>4, SameRequest DEF Serving
  <2> QED  BY <1>2, <2>2, <2>4, <2>5
<1> QED  BY <1>1, <1>2

\* An administrator stays one, but for being deleted.
LEMMA AdminStays ==
  ASSUME RequestsOK, NEW c \in Caller, RequestStep(c), NEW a \in User, account[a].admin,
         account[a].state # "none"
  PROVE  account'[a].admin /\ account'[a].state # "none"
<1>1. ~Joins(c, a)
  BY DEF RequestsOK, Joins, RegisterCommit, RegisterOK, AtReq
<1> QED  BY <1>1, StatesKept, AccountKeeps

LEMMA DeletersKept ==
  ASSUME RequestsOK, NEW c \in Caller, RequestStep(c), NEW d \in Caller
  PROVE  DeleterOK(d)'
<1> USE DEF RequestsOK
<1> SUFFICES ASSUME req'[d].op = "delete_user"
             PROVE  LET u == req'[d].u  a == req'[d].by IN
                    /\ account'[u].state # "none"
                    /\ req'[d].at # "auth" =>
                         /\ a # u /\ account'[a].admin /\ account'[a].state # "none"
                         /\ account'[a].state = "live" \/ duel'
  BY DEF DeleterOK, Alive
<1>1. CASE d # c
  <2> DEFINE u == req[d].u
             a == req[d].by
  <2>1. req'[d] = req[d]
    BY <1>1, OthersNote
  <2>2. u \in User /\ a \in User /\ account[u].state # "none"
    BY <2>1, RequestLocals DEF ReqsOK, DeleterOK
  <2>3. account'[u].state # "none"
    BY <2>2, StatesKept
  <2>4. ASSUME req[d].at # "auth"
        PROVE  /\ a # u /\ account'[a].admin /\ account'[a].state # "none"
               /\ account'[a].state = "live" \/ duel'
    <3>1. a # u /\ account[a].admin /\ account[a].state # "none" /\ (Alive(a) \/ duel)
      BY <2>1, <2>4 DEF DeleterOK
    <3>2. account'[a].admin /\ account'[a].state # "none"
      BY <2>2, <3>1, AdminStays
    <3>3. CASE Leaves(c, a)
      <4>1. d \in Caller \ {c} /\ req[d].op = "delete_user" /\ req[d].by = a
        BY <1>1, <2>1
      <4> QED  BY <3>1, <3>2, <3>3, <4>1, DuelKept
    <3>4. CASE ~Leaves(c, a)
      BY <2>2, <3>1, <3>2, <3>4, StatesKept, DuelKept DEF Alive
    <3> QED  BY <3>3, <3>4
  <2> QED  BY <2>1, <2>3, <2>4
<1>2. CASE d = c
  <2>1. CASE Demanded(c)
    BY <1>2, <2>1, DemandedAt, LooksKeep
  <2>2. CASE Answer(c)
    BY <1>2, <2>2, Answers
  <2>3. CASE ~Answer(c) /\ ~Demanded(c)
    <3>0. PICK at : Serving(c) /\ Proceed(c, at)
      BY <2>3, RequestGoes
    <3>1. /\ req[c].op = "delete_user" /\ req'[c].u = req[c].u /\ req'[c].by = req[c].by
          /\ req'[c].at = at
      BY <1>2, <3>0, SameRequest
    <3> DEFINE u == req[c].u
               a == req[c].by
    <3>2. u \in User /\ a \in User /\ account[u].state # "none"
      BY <3>1, RequestLocals DEF ReqsOK, DeleterOK
    <3>3. account'[u].state # "none"
      BY <3>2, StatesKept
    <3>4. CASE DeleteAuth(c)
      <4>1. Admin(req[c]) /\ u # a
        BY <2>3, <3>4 DEF DeleteAuth, Authenticate
      <4>2. account' = account
        BY <3>4, LooksKeep DEF Authenticated
      <4> QED  BY <1>2, <3>1, <3>3, <4>1, <4>2 DEF Admin, Authentic, Alive
    <3>5. CASE ~DeleteAuth(c) /\ at # "auth"
      <4>1. req[c].at # "auth"
        BY <1>2, <3>1, <3>5, ComesFrom DEF DeleteUserRead, DeleteUserProjects, DeleteUserItems,
           Sweeps, DeleteUserResets, DeleteUserInvites, DeleteUserKeys, DeleteUserPosts, AtReq
      <4>2. /\ a # u /\ account[a].admin /\ account[a].state # "none" /\ (Alive(a) \/ duel)
        BY <3>1, <4>1 DEF DeleterOK
      <4>3. account'[a].admin /\ account'[a].state # "none"
        BY <3>2, <4>2, AdminStays
      <4>4. ~Leaves(c, a)
        BY <2>3 DEF Leaves, DeleteUserRow
      <4> QED  BY <1>2, <3>1, <3>2, <3>3, <4>2, <4>3, <4>4, StatesKept, DuelKept DEF Alive
    <3>6. CASE at = "auth"
      BY <1>2, <3>1, <3>3, <3>6
    <3> QED  BY <3>4, <3>5, <3>6
  <2> QED  BY <2>1, <2>2, <2>3
<1> QED  BY <1>1, <1>2

\* What is not there stays away, but for a row that one request writes and the
\* others note.
NoLinks(u)   == \A l \in Link : Stored(link[l]) => link[l].of # u
NoInvites(u) == \A t \in Token : Stored(invite[t]) => invite[t].by # u
NoKeys(u)    == \A k \in Key : key[k] # [state |-> "open", of |-> u]
NoPosts(u)   == \A k \in Child : child[k] # Nil => author[k] # u
Writes(c, u) == Stores(c) /\ Noted(c, {<<"row", u>>})

\* The board's rows that requests leave, and the posts that they only delete.
LEMMA BoardRowsKept ==
  ASSUME NEW c \in Caller, RequestStep(c)
  PROVE  /\ project' = project /\ item' = item
         /\ \A k \in Child : child'[k] # Nil => child[k] # Nil
<1>1. CASE Looks(c) \/ Authenticated(c) \/ Demanded(c)
  BY <1>1, LooksKeep DEF tables
<1>2. CASE Stores(c)
  BY <1>2 DEF Stores, RegisterCommit, ResetCommit, PasswordWrite, NewKeyInsert, DropKeyRow,
              InviteInsert, RevokeRow, IssueInsert, PromoteWrite, DeleteUserRow, BoardKept,
              tables
<1>3. CASE DeleteUserResets(c) \/ DeleteUserInvites(c) \/ DeleteUserKeys(c)
  BY <1>3 DEF DeleteUserResets, DeleteUserInvites, DeleteUserKeys, BoardKept, tables
<1>4. CASE DeleteUserPosts(c)
  BY <1>4 DEF DeleteUserPosts
<1> QED  BY <1>1, <1>2, <1>3, <1>4, RequestKinds DEF Sweeps

LEMMA OwnsKept ==
  ASSUME NEW c \in Caller, RequestStep(c), NEW u
  PROVE  OwnsProject(u)' = OwnsProject(u) /\ OwnsItem(u)' = OwnsItem(u)
<1>1. project' = project /\ item' = item
  BY BoardRowsKept
<1>2. OwnsProject(u)' = OwnsProject(u)
  BY <1>1 DEF OwnsProject
<1>3. OwnsItem(u)' = OwnsItem(u)
  BY <1>1 DEF OwnsItem, Live
<1> QED  BY <1>2, <1>3

LEMMA LinksAway ==
  ASSUME RequestsOK, NEW c \in Caller, RequestStep(c), NEW u, NoLinks(u)
  PROVE  NoLinks(u)' \/ Writes(c, u)
<1> USE DEF RequestsOK
<1> SUFFICES ASSUME NEW l \in Link, Stored(link'[l]), link'[l].of = u
             PROVE  Writes(c, u)
  BY DEF NoLinks, Stored
<1>1. ~Stored(link[l]) \/ link[l].of # u
  BY DEF NoLinks
<1>2. link'[l] # link[l] /\ ~Unlinks(c, l)
  BY <1>1 DEF Unlinks, Stored
<1>3. ~Resets(c, l)
  BY <1>1 DEF Resets, ResetCommit, ResetOK, Stored
<1>4. Sends(c, l)
  BY <1>2, <1>3, LinkMoves
<1> QED  BY <1>4 DEF Sends, Writes, Stores

LEMMA InvitesAway ==
  ASSUME RequestsOK, NEW c \in Caller, RequestStep(c), NEW u, NoInvites(u)
  PROVE  NoInvites(u)' \/ Writes(c, u)
<1> USE DEF RequestsOK
<1> SUFFICES ASSUME NEW t \in Token, Stored(invite'[t]), invite'[t].by = u
             PROVE  Writes(c, u)
  BY DEF NoInvites, Stored
<1>1. ~Stored(invite[t]) \/ invite[t].by # u
  BY DEF NoInvites
<1>2. invite'[t] # invite[t] /\ ~Voids(c, t)
  BY <1>1 DEF Voids, Stored
<1>3. ~Uses(c, t)
  BY <1>1 DEF Uses, RegisterCommit, RegisterOK, AtReq, Stored
<1>4. Issues(c, t)
  BY <1>2, <1>3, InviteMoves
<1> QED  BY <1>4 DEF Issues, Writes, Stores

LEMMA KeysAway ==
  ASSUME RequestsOK, NEW c \in Caller, RequestStep(c), NEW u, NoKeys(u)
  PROVE  NoKeys(u)' \/ Writes(c, u)
<1> USE DEF RequestsOK
<1> SUFFICES ASSUME NEW k \in Key, key'[k] = [state |-> "open", of |-> u]
             PROVE  Writes(c, u)
  BY DEF NoKeys
<1>1. key'[k] # key[k]
  BY DEF NoKeys
<1>2. ~Drops(c, k)
  BY DEF Drops
<1>3. Opens(c, k)
  BY <1>1, <1>2, KeyMoves
<1>4. req[c].by = u
  <2>1. [state |-> "open", of |-> req[c].by] = [state |-> "open", of |-> u]
    BY <1>3 DEF Opens
  <2>2. [state |-> "open", of |-> req[c].by].of = [state |-> "open", of |-> u].of
    BY <2>1
  <2> QED  BY <2>2
<1> QED  BY <1>3, <1>4 DEF Opens, Writes, Stores

LEMMA PostsAway ==
  ASSUME NEW c \in Caller, AccountRowsOK, RequestStep(c), NEW u, NoPosts(u)
  PROVE  NoPosts(u)'
<1>1. author' = author
  BY RequestShapes
<1>2. \A k \in Child : child'[k] # Nil => child[k] # Nil
  BY BoardRowsKept
<1> QED  BY <1>1, <1>2 DEF NoPosts

\* What is gone by the time a deletion is at a statement.
Swept(at, u, new) ==
  /\ at \in {"items", "resets", "invites", "keys", "posts", "row"} => new \/ ~OwnsProject(u)
  /\ at \in {"resets", "invites", "keys", "posts", "row"} => new \/ ~OwnsItem(u)
  /\ at \in {"invites", "keys", "posts", "row"} => new \/ NoLinks(u)
  /\ at \in {"keys", "posts", "row"} => new \/ NoInvites(u)
  /\ at \in {"posts", "row"} => new \/ NoKeys(u)
  /\ at = "row" => new \/ NoPosts(u)

LEMMA SweptOf ==
  ASSUME NEW c \in Caller, SweepOK(c), req[c].op = "delete_user"
  PROVE  Swept(req[c].at, req[c].u, <<"row", req[c].u>> \in since[c])
BY DEF SweepOK, Swept, NoLinks, NoInvites, NoKeys, NoPosts

LEMMA SweptStays ==
  ASSUME RequestsOK, NEW c \in Caller, RequestStep(c), NEW u, NEW at, NEW new, NEW after,
         Swept(at, u, new), new => after, Writes(c, u) => after
  PROVE  Swept(at, u, after)'
<1>1. OwnsProject(u)' = OwnsProject(u) /\ OwnsItem(u)' = OwnsItem(u)
  BY OwnsKept
<1>2. /\ NoLinks(u) => NoLinks(u)' \/ Writes(c, u)
      /\ NoInvites(u) => NoInvites(u)' \/ Writes(c, u)
      /\ NoKeys(u) => NoKeys(u)' \/ Writes(c, u)
      /\ NoPosts(u) => NoPosts(u)'
  BY LinksAway, InvitesAway, KeysAway, PostsAway DEF RequestsOK
<1> QED  BY <1>1, <1>2 DEF Swept

\* The next statement of a deletion finds the same user, and adds what its
\* predecessor has checked or deleted.
LEMMA SweepsOn ==
  ASSUME RequestsOK, NEW c \in Caller, RequestStep(c), NEW u, req[c].op = "delete_user",
         u = req[c].u, ~Answer(c), NEW at, Proceed(c, at), at \notin {"auth", "read", "projects"},
         req'[c].op = "delete_user", req'[c].at = at
  PROVE  /\ since'[c] = since[c]
         /\ \/ req[c].at = "projects" /\ at = "items" /\ ~OwnsProject(u)
            \/ req[c].at = "items" /\ at = "resets" /\ ~OwnsItem(u)
            \/ req[c].at = "resets" /\ at = "invites" /\ NoLinks(u)'
            \/ req[c].at = "invites" /\ at = "keys" /\ NoInvites(u)'
            \/ req[c].at = "keys" /\ at = "posts" /\ NoKeys(u)'
            \/ req[c].at = "posts" /\ at = "row" /\ NoPosts(u)' /\ u \notin told'
<1>0. Serving(c)
  BY DEF Serving
<1>1. ASSUME NEW s, Proceed(c, s)
      PROVE  at = s
  BY <1>0, <1>1, SameRequest DEF RequestsOK
<1>2. DeleteUserProjects(c) \/ DeleteUserItems(c) \/ Sweeps(c)
  <2>1. ~DeleteAuth(c) /\ ~DeleteUserRead(c)
    <3>1. ASSUME DeleteAuth(c) \/ DeleteUserRead(c)
          PROVE  at \in {"read", "projects"}
      <4>1. PICK s \in {"read", "projects"} : Proceed(c, s)
        BY <3>1 DEF DeleteAuth, DeleteUserRead, Authenticate
      <4> QED  BY <1>1, <4>1
    <3> QED  BY <3>1
  <2> QED  BY <2>1, ComesFrom DEF RequestsOK
<1>3. Noted(c, {})
  BY <1>2, LooksIs, SweepsIs DEF Looks, LookStep
<1>4. since'[c] = since[c]
  BY <1>3 DEF Noted
<1>5. CASE DeleteUserProjects(c)
  BY <1>1, <1>4, <1>5 DEF DeleteUserProjects, AtReq
<1>6. CASE DeleteUserItems(c)
  BY <1>1, <1>4, <1>6 DEF DeleteUserItems, AtReq
<1>7. CASE DeleteUserResets(c)
  <2>1. NoLinks(u)'
    <3>1. \A l \in Link : link'[l] = IF link[l].of = u
                                     THEN [link[l] EXCEPT !.state = "gone"]
                                     ELSE link[l]
      BY <1>7 DEF DeleteUserResets
    <3>2. ASSUME NEW l \in Link, Stored(link'[l]), link'[l].of = u
          PROVE  FALSE
      <4>1. link[l].of = u
        BY <3>1, <3>2
      <4>2. link[l] \in Reset
        BY DEF RequestsOK, AccountRowsOK
      <4>3. link'[l] = [link[l] EXCEPT !.state = "gone"]
        BY <3>1, <4>1
      <4>4. link'[l].state = "gone"
        BY <4>2, <4>3 DEF Reset
      <4> QED  BY <3>2, <4>4 DEF Stored
    <3> QED  BY <3>2 DEF NoLinks, Stored
  <2> QED  BY <1>1, <1>4, <1>7, <2>1 DEF DeleteUserResets, AtReq
<1>8. CASE DeleteUserInvites(c)
  <2>1. NoInvites(u)'
    <3>1. \A t \in Token : invite'[t] = IF invite[t].by = u
                                        THEN [invite[t] EXCEPT !.state = "gone"]
                                        ELSE invite[t]
      BY <1>8 DEF DeleteUserInvites
    <3>2. ASSUME NEW t \in Token, Stored(invite'[t]), invite'[t].by = u
          PROVE  FALSE
      <4>1. invite[t].by = u
        BY <3>1, <3>2
      <4>2. invite[t] \in Invite
        BY DEF RequestsOK, AccountRowsOK
      <4>3. invite'[t] = [invite[t] EXCEPT !.state = "gone"]
        BY <3>1, <4>1
      <4>4. invite'[t].state = "gone"
        BY <4>2, <4>3 DEF Invite
      <4> QED  BY <3>2, <4>4 DEF Stored
    <3> QED  BY <3>2 DEF NoInvites, Stored
  <2> QED  BY <1>1, <1>4, <1>8, <2>1 DEF DeleteUserInvites, AtReq
<1>9. CASE DeleteUserKeys(c)
  <2>1. NoKeys(u)'
    <3>1. \A k \in Key : key'[k] = IF key[k].of = u
                                   THEN [key[k] EXCEPT !.state = "gone"] ELSE key[k]
      BY <1>9 DEF DeleteUserKeys
    <3>2. ASSUME NEW k \in Key, key'[k] = [state |-> "open", of |-> u]
          PROVE  FALSE
      <4>2. key[k] \in [state : {"unused", "open", "gone"}, of : User \cup {Nil}]
        BY DEF RequestsOK, AccountRowsOK
      <4>0. key'[k].of = u /\ key'[k].state = "open"
        BY <3>2
      <4>1. key[k].of = u
        BY <3>1, <4>0
      <4>3. key'[k] = [key[k] EXCEPT !.state = "gone"]
        BY <3>1, <4>1
      <4>4. key'[k].state = "gone"
        BY <4>2, <4>3
      <4> QED  BY <4>0, <4>4
    <3> QED  BY <3>2 DEF NoKeys
  <2> QED  BY <1>1, <1>4, <1>9, <2>1 DEF DeleteUserKeys, AtReq
<1>10. CASE DeleteUserPosts(c)
  <2>1. NoPosts(u)'
    <3>1. \A k \in Child : child'[k] # Nil => author[k] # u
      BY <1>10 DEF DeleteUserPosts
    <3>2. author' = author
      BY <1>10 DEF DeleteUserPosts, accountVars
    <3> QED  BY <3>1, <3>2 DEF NoPosts
  <2>2. u \notin told'
    BY <1>10 DEF DeleteUserPosts
  <2> QED  BY <1>1, <1>4, <1>10, <2>1, <2>2 DEF DeleteUserPosts, AtReq
<1> QED  BY <1>2, <1>5, <1>6, <1>7, <1>8, <1>9, <1>10 DEF Sweeps

\* SweepOK of the next state, from what was swept.
LEMMA SweepOf ==
  ASSUME NEW d \in Caller,
         \A at, u, after : /\ req'[d].op = "delete_user" /\ at = req'[d].at /\ u = req'[d].u
                           /\ after = (<<"row", u>> \in since'[d])
                           => Swept(at, u, after)'
  PROVE  SweepOK(d)'
<1>1. PICK at, u, after : /\ at = req'[d].at /\ u = req'[d].u
                          /\ after = (<<"row", u>> \in since'[d])
  OBVIOUS
<1>2. SUFFICES ASSUME req'[d].op = "delete_user"
               PROVE  SweepOK(d)'
  BY DEF SweepOK
<1>3. Swept(at, u, after)'
  BY <1>1, <1>2
<1>4. /\ at \in {"items", "resets", "invites", "keys", "posts", "row"}
           => after \/ ~OwnsProject(u)'
      /\ at \in {"resets", "invites", "keys", "posts", "row"} => after \/ ~OwnsItem(u)'
      /\ at \in {"invites", "keys", "posts", "row"} => after \/ NoLinks(u)'
      /\ at \in {"keys", "posts", "row"} => after \/ NoInvites(u)'
      /\ at \in {"posts", "row"} => after \/ NoKeys(u)'
      /\ at = "row" => after \/ NoPosts(u)'
  BY <1>3 DEF Swept
<1> QED  BY <1>1, <1>4 DEF SweepOK, NoLinks, NoInvites, NoKeys, NoPosts, OwnsProject, OwnsItem,
            Live

LEMMA SweepsKept ==
  ASSUME RequestsOK, NEW c \in Caller, RequestStep(c), NEW d \in Caller
  PROVE  SweepOK(d)'
<1> SUFFICES ASSUME NEW at, NEW u, NEW after, req'[d].op = "delete_user", at = req'[d].at,
                    u = req'[d].u, after = (<<"row", u>> \in since'[d])
             PROVE  Swept(at, u, after)'
  BY SweepOf
<1>1. CASE d # c
  <2>1. req'[d] = req[d] /\ Serving(d) /\ since[d] \subseteq since'[d]
    BY <1>1, OthersNote DEF Serving, RequestsOK
  <2>2. Swept(at, u, <<"row", u>> \in since[d])
    BY <2>1, SweptOf DEF RequestsOK
  <2>3. ASSUME Writes(c, u)
        PROVE  after
    <3>1. {<<"row", u>>} \subseteq since'[d]
      BY <1>1, <2>1, <2>3, NotedBy DEF Writes, RequestsOK
    <3> QED  BY <3>1
  <2> QED  BY <2>1, <2>2, <2>3, SweptStays
<1>2. CASE d = c
  <2>1. ~Answer(c)
    BY <1>2, Answers DEF RequestsOK
  <2>2. CASE at \in {"auth", "read", "projects"}
    BY <2>2 DEF Swept
  <2>3. CASE at \notin {"auth", "read", "projects"}
    <3>1. ~Demanded(c)
      BY <1>2, <2>3, DemandedAt DEF RequestsOK
    <3>2. PICK s : Serving(c) /\ Proceed(c, s)
      BY <2>1, <3>1, RequestGoes
    <3>3. req[c].op = "delete_user" /\ u = req[c].u /\ s = at
      BY <1>2, <3>2, SameRequest DEF RequestsOK
    <3>4. /\ since'[c] = since[c]
          /\ \/ req[c].at = "projects" /\ at = "items" /\ ~OwnsProject(u)
             \/ req[c].at = "items" /\ at = "resets" /\ ~OwnsItem(u)
             \/ req[c].at = "resets" /\ at = "invites" /\ NoLinks(u)'
             \/ req[c].at = "invites" /\ at = "keys" /\ NoInvites(u)'
             \/ req[c].at = "keys" /\ at = "posts" /\ NoKeys(u)'
             \/ req[c].at = "posts" /\ at = "row" /\ NoPosts(u)'
      BY <1>2, <2>1, <2>3, <3>2, <3>3, SweepsOn
    <3>5. ~Writes(c, u)
      BY <2>1, StoresIs DEF Writes
    <3>6. Swept(req[c].at, u, after)
      BY <1>2, <3>3, <3>4, SweptOf DEF RequestsOK
    <3>7. PICK was : was = req[c].at
      OBVIOUS
    <3>8. Swept(was, u, after)'
      BY <3>5, <3>6, <3>7, SweptStays
    <3>9. OwnsProject(u)' = OwnsProject(u) /\ OwnsItem(u)' = OwnsItem(u)
      BY OwnsKept
    <3> QED  BY <3>4, <3>7, <3>8, <3>9 DEF Swept
  <2> QED  BY <2>2, <2>3
<1> QED  BY <1>1, <1>2

-----------------------------------------------------------------------------
(* The board's statements under the accounts *)

\* A statement after the first leaves the operation what it is, or ends the call.
LEMMA OpKept ==
  ASSUME CallsOK, NEW c \in Caller,
         \/ End(c)
         \/ \E a, x : a # "op" /\ call' = [call EXCEPT ![c][a] = x]
         \/ \E a, x, b, y : /\ a # "op" /\ b # "op"
                            /\ call' = [call EXCEPT ![c][a] = x, ![c][b] = y]
         \/ \E a, x, b, y, d, z : /\ a # "op" /\ b # "op" /\ d # "op"
                                  /\ call' = [call EXCEPT ![c][a] = x, ![c][b] = y, ![c][d] = z]
  PROVE  call'[c].op \in {call[c].op, "none"}
<1>1. call[c] \in Call
  BY DEF CallsOK
<1>2. CASE End(c)
  BY <1>2 DEF End, CallsOK, NoCall
<1>3. CASE \E a, x : a # "op" /\ call' = [call EXCEPT ![c][a] = x]
  BY <1>3, SameOp
<1>4. CASE \E a, x, b, y : /\ a # "op" /\ b # "op"
                           /\ call' = [call EXCEPT ![c][a] = x, ![c][b] = y]
  <2>1. PICK a, x, b, y : /\ a # "op" /\ b # "op"
                          /\ call' = [call EXCEPT ![c][a] = x, ![c][b] = y]
    BY <1>4
  <2>2. call'[c] = [call[c] EXCEPT ![a] = x, ![b] = y]
    BY <2>1 DEF CallsOK
  <2> QED  BY <1>1, <2>1, <2>2, HasOp
<1>5. CASE \E a, x, b, y, d, z :
             /\ a # "op" /\ b # "op" /\ d # "op"
             /\ call' = [call EXCEPT ![c][a] = x, ![c][b] = y, ![c][d] = z]
  <2>1. PICK a, x, b, y, d, z :
             /\ a # "op" /\ b # "op" /\ d # "op"
             /\ call' = [call EXCEPT ![c][a] = x, ![c][b] = y, ![c][d] = z]
    BY <1>5
  <2>2. call'[c] = [call[c] EXCEPT ![a] = x, ![b] = y, ![d] = z]
    BY <2>1 DEF CallsOK
  <2> QED  BY <1>1, <2>1, <2>2, HasOp
<1> QED  BY <1>2, <1>3, <1>4, <1>5

LEMMA GoesOn ==
  ASSUME CallsOK, NEW c \in Caller, CallStep(c), ~Asks(c), ~RolloutLocks(c), ~AddInsert(c)
  PROVE  call'[c].op \in {call[c].op, "none"}
<1>1. CASE UpdateRead(c)
  <2>1. \/ End(c)
        \/ \E r, at : call' = [call EXCEPT ![c].row = r, ![c].at = at]
    BY <1>1 DEF UpdateRead
  <2>2. CASE \E r, at : call' = [call EXCEPT ![c].row = r, ![c].at = at]
    <3>1. PICK r, at : call' = [call EXCEPT ![c].row = r, ![c].at = at]
      BY <2>2
    <3> QED  BY <3>1, OpKept
  <2> QED  BY <2>1, <2>2, OpKept
<1>2. CASE AddReadItem(c) \/ AddExisting(c) \/ AddWalk(c)
  <2>1. CASE End(c) \/ \E at : Go(c, at)
    BY <2>1, OpKept DEF Go
  <2>2. CASE AddReadItem(c) /\ ~End(c)
    <3>1. call' = [call EXCEPT ![c].at = "blocker", ![c].p = item[call[c].i].project]
      BY <2>2 DEF AddReadItem
    <3> QED  BY <3>1, OpKept
  <2>3. CASE AddExisting(c) /\ ~End(c)
    <3>1. call' = [call EXCEPT ![c].at = "walk", ![c].seen = {call[c].b},
                               ![c].queue = {call[c].b}]
      BY <2>3 DEF AddExisting
    <3> QED  BY <3>1, OpKept
  <2>4. CASE AddWalk(c) /\ ~(End(c) \/ \E at : Go(c, at))
    <3>1. \E n : LET next == {b \in Item : <<n, b>> \in deps} IN
                 call' = [call EXCEPT ![c].seen = @ \cup next,
                            ![c].queue = (@ \cup (next \ call[c].seen)) \ {n}]
      BY <2>4 DEF AddWalk
    <3>2. PICK n : LET next == {b \in Item : <<n, b>> \in deps} IN
                 call' = [call EXCEPT ![c].seen = @ \cup next,
                            ![c].queue = (@ \cup (next \ call[c].seen)) \ {n}]
      BY <3>1
    <3> DEFINE next == {b \in Item : <<n, b>> \in deps}
               s == call[c].seen \cup next
               q == (call[c].queue \cup (next \ call[c].seen)) \ {n}
    <3>3. call' = [call EXCEPT ![c].seen = s, ![c].queue = q]
      BY <3>2 DEF CallsOK
    <3> HIDE DEF s, q
    <3> QED  BY <3>3, OpKept
  <2> QED  BY <1>2, <2>1, <2>2, <2>3, <2>4
<1>3. CASE SharePurge(c)
  <2>1. CASE End(c)
    BY <2>1, OpKept
  <2>2. CASE ~End(c)
    <3>1. PICK e \in call[c].doomed : call' = [call EXCEPT ![c].doomed = @ \ {e}]
      BY <1>3, <2>2 DEF SharePurge
    <3>2. \E x : call' = [call EXCEPT ![c].doomed = x]
      BY <3>1
    <3> QED  BY <3>2, OpKept
  <2> QED  BY <2>1, <2>2
<1>4. CASE ShareCount(c) \/ ShareEdges(c) \/ ProjectRead(c) \/ DeleteFileRead(c)
  <2>1. CASE End(c)
    BY <2>1, OpKept
  <2>2. CASE ShareCount(c)
    BY <2>2, OpKept DEF ShareCount
  <2>3. CASE ShareEdges(c)
    BY <2>3, OpKept DEF ShareEdges
  <2>4. CASE ProjectRead(c) /\ ~End(c)
    <3>1. PICK old : call' = [call EXCEPT ![c].at = "write", ![c].row = old]
      BY <2>4 DEF ProjectRead
    <3> QED  BY <3>1, OpKept
  <2>5. CASE DeleteFileRead(c) /\ ~End(c)
    <3>1. PICK i : call' = [call EXCEPT ![c].at = "access", ![c].i = i]
      BY <2>5 DEF DeleteFileRead
    <3> QED  BY <3>1, OpKept
  <2> QED  BY <1>4, <2>1, <2>2, <2>3, <2>4, <2>5
<1>5. CASE /\ ~UpdateRead(c) /\ ~AddReadItem(c) /\ ~AddExisting(c) /\ ~AddWalk(c)
           /\ ~SharePurge(c) /\ ~ShareCount(c) /\ ~ShareEdges(c) /\ ~ProjectRead(c)
           /\ ~DeleteFileRead(c)
  <2>1. End(c) \/ \E at : Go(c, at)
    BY <1>5 DEF CallStep, Asks, CreateAccess, CreateInsert, ClaimCheck, UpdateBlockers,
       UpdateAccess, UpdateWrite, DeleteRead, DeleteRow, DeleteFiles, AddReadBlocker,
       RemoveRead, RemoveRow, ShareOwner, ShareExisting, ShareInsert, UnshareOwner,
       UnshareRow, CreateProjectInsert, ProjectWrite, DeleteProjectOwner, DeleteProjectRow,
       PostAccess, PostInsert, UnpostRead, UnpostRow, UploadAccess, UploadFile, UploadRow,
       DeleteFileAccess, DeleteFileRow
  <2> QED  BY <2>1, OpKept DEF Go
<1> QED  BY <1>1, <1>2, <1>3, <1>4, <1>5

\* Nobody creates a project for another: AskCreateProject is the only call to.
LEMMA CreatorsKept ==
  ASSUME BoardInv, CreatorsOwn, NEW c \in Caller, CallStep(c)
  PROVE  CreatorsOwn'
<1> SUFFICES ASSUME NEW d \in Caller, call'[d].op = "create_project"
             PROVE  Owner[call'[d].p] = call'[d].by
  BY DEF CreatorsOwn
<1>1. CASE d # c
  <2>1. call'[d] = call[d] \/ call'[d].op = "share"
    BY <1>1, OthersSee DEF Sees
  <2> QED  BY <2>1 DEF CreatorsOwn
<1>2. CASE d = c
  <2>1. CASE AskCreateProject(c)
    <3>1. PICK u \in User, p \in Project, workspace \in BOOLEAN, repos \in BOOLEAN :
            /\ Owner[p] = u
            /\ Ask(c, [op |-> "create_project", at |-> "insert", by |-> u, p |-> p,
                       workspace |-> workspace, repos |-> repos])
      BY <2>1 DEF AskCreateProject
    <3>2. call'[c] = [op |-> "create_project", at |-> "insert", by |-> u, p |-> p,
                      workspace |-> workspace, repos |-> repos]
      BY <3>1 DEF Ask, BoardInv, CallsOK
    <3> QED  BY <1>2, <3>1, <3>2
  <2>2. CASE RolloutLocks(c)
    BY <1>2, <2>2 DEF RolloutLocks, CreatorsOwn
  <2>3. CASE AddInsert(c)
    <3>1. call'[c].op = "none"
      BY <2>3 DEF AddInsert, End, EndAdding, NoCall, BoardInv, CallsOK
    <3> QED  BY <1>2, <3>1
  <2>4. CASE Asks(c) /\ ~AskCreateProject(c)
    <3> DEFINE Other(r) == r.op # "create_project"
    <3>1. \E r : Ask(c, r) /\ Other(r)
      <4>1. CASE AskCreate(c)
        BY <4>1 DEF AskCreate
      <4>2. CASE AskUpdate(c)
        BY <4>2 DEF AskUpdate
      <4>3. CASE AskClaim(c)
        BY <4>3 DEF AskClaim
      <4>4. CASE AskDelete(c)
        BY <4>4 DEF AskDelete
      <4>5. CASE AskAddBlocker(c)
        BY <4>5 DEF AskAddBlocker
      <4>6. CASE AskRemoveBlocker(c)
        BY <4>6 DEF AskRemoveBlocker
      <4>7. CASE AskShare(c)
        BY <4>7 DEF AskShare
      <4>8. CASE AskUnshare(c)
        BY <4>8 DEF AskUnshare
      <4>9. CASE AskUpdateProject(c)
        BY <4>9 DEF AskUpdateProject
      <4>10. CASE AskDeleteProject(c)
        BY <4>10 DEF AskDeleteProject
      <4>11. CASE AskPost(c)
        BY <4>11 DEF AskPost
      <4>12. CASE AskUnpost(c)
        BY <4>12 DEF AskUnpost
      <4>13. CASE AskUpload(c)
        BY <4>13 DEF AskUpload
      <4>14. CASE AskDeleteFile(c)
        BY <4>14 DEF AskDeleteFile
      <4> QED  BY <2>4, <4>1, <4>2, <4>3, <4>4, <4>5, <4>6, <4>7, <4>8, <4>9, <4>10, <4>11,
                  <4>12, <4>13, <4>14 DEF Asks
    <3>2. PICK r : Ask(c, r) /\ Other(r)
      BY <3>1
    <3>3. call'[c] = r
      BY <3>2 DEF Ask, BoardInv, CallsOK
    <3> QED  BY <1>2, <3>2, <3>3
  <2>5. CASE ~Asks(c) /\ ~RolloutLocks(c) /\ ~AddInsert(c)
    <3>1. call[c].op = "create_project"
      BY <1>2, <2>5, GoesOn DEF BoardInv
    <3>2. CreateProjectInsert(c)
      <4>1. Reads(c) \/ FileWrites(c) \/ RowWrites(c)
        BY <2>5, StepKinds
      <4> QED  BY <3>1, <4>1 DEF Reads, CreateAccess, ClaimCheck, UpdateRead, UpdateBlockers,
         UpdateAccess, DeleteRead, AddReadItem, AddReadBlocker, AddExisting, AddWalk,
         RemoveRead, ShareOwner, ShareExisting, ShareCount, UnshareOwner, ProjectRead,
         DeleteProjectOwner, PostAccess, UnpostRead, UploadAccess, DeleteFileRead,
         FileWrites, DeleteFiles, UploadFile, UploadRow, DeleteFileAccess, DeleteFileRow,
         RowWrites, CreateInsert, UpdateWrite, DeleteRow, RemoveRow, ShareInsert, ShareEdges,
         SharePurge, UnshareRow, ProjectWrite, DeleteProjectRow, PostInsert, UnpostRow, At
    <3>3. call'[c].op = "none"
      BY <3>2 DEF CreateProjectInsert, End, NoCall, BoardInv, CallsOK
    <3> QED  BY <1>2, <3>3
  <2> QED  BY <2>1, <2>2, <2>3, <2>4, <2>5
<1> QED  BY <1>1, <1>2

\* The statements that only read or only touch the files.
LEMMA Untouched ==
  ASSUME NEW c \in Caller, Asks(c) \/ Reads(c) \/ FileWrites(c)
  PROVE  UNCHANGED <<project, item, child>>
<1>1. CASE Asks(c)
  BY <1>1, AskIs DEF Ask, tables
<1>2. CASE Reads(c)
  BY <1>2, ReadIs DEF ReadStep, tables
<1>3. CASE FileWrites(c)
  BY <1>3 DEF FileWrites, DeleteFiles, UploadFile, UploadRow, DeleteFileAccess, DeleteFileRow
<1> QED  BY <1>1, <1>2, <1>3

\* An item keeps its owner, and only create_item brings one.
LEMMA OwnersKept ==
  ASSUME RowsOK, CallsOK, NEW c \in Caller, CallStep(c), NEW i \in Item, item'[i].state = "live"
  PROVE  \/ Live(i) /\ item'[i].owner = item[i].owner
         \/ CreateInsert(c) /\ item'[i].owner = call[c].by
<1>0. item[i] \in Row
  BY DEF RowsOK
<1>1. CASE item'[i] = item[i]
  BY <1>1 DEF Live
<1>2. CASE CreateInsert(c) /\ item'[i] # item[i]
  <2>1. item' # item
    BY <1>2
  <2>2. \E j \in Item : item' = [item EXCEPT ![j] = NewRow(call[c].by, call[c].p)]
    BY <1>2, <2>1 DEF CreateInsert, tables
  <2>3. item'[i] = NewRow(call[c].by, call[c].p)
    BY <1>2, <2>2 DEF RowsOK
  <2>4. item'[i].owner = call[c].by
    BY <2>3 DEF NewRow, Unused
  <2> QED  BY <1>2, <2>4
<1>3. CASE UpdateWrite(c) /\ item'[i] # item[i]
  <2>1. item' = [item EXCEPT ![call[c].i] = Updated(@, call[c].want)] /\ Live(call[c].i)
    BY <1>3 DEF UpdateWrite, tables
  <2>2. i = call[c].i /\ item'[i] = Updated(item[i], call[c].want)
    BY <1>3, <2>1 DEF RowsOK
  <2> DEFINE s == [item[i] EXCEPT !.version = @ + 1]
             w == call[c].want
  <2>3. s.owner = item[i].owner
    BY <1>0 DEF Row
  <2>4. DOMAIN s = DOMAIN item[i] /\ "owner" \in DOMAIN item[i]
    BY <1>0 DEF Row
  <2>5. \/ item'[i] = [s EXCEPT !.status = w.to] \/ item'[i] = [s EXCEPT !.assigned = w.to]
        \/ item'[i] = [s EXCEPT !.project = w.to] \/ item'[i] = [s EXCEPT !.engine = w.to]
    <3>1. call[c].want.set \in {"status", "assigned", "project", "engine"}
      <4>1. call[c].want \in Want
        BY <1>3, Locals DEF UpdateWrite, CallsOK, UpdateCall
      <4> QED  BY <4>1 DEF Want
    <3> QED  BY <2>2, <3>1 DEF Updated
  <2>6. item'[i].owner = item[i].owner
    <3> HIDE DEF s
    <3> QED  BY <2>3, <2>4, <2>5
  <2> QED  BY <2>1, <2>2, <2>6
<1>4. CASE RolloutLocks(c) /\ item'[i] # item[i]
  <2>1. PICK j \in Item : Live(j) /\ item' = [item EXCEPT ![j].locked = ~@]
    BY <1>4 DEF RolloutLocks
  <2>2. i = j /\ item'[i] = [item[i] EXCEPT !.locked = ~@]
    BY <1>4, <2>1 DEF RowsOK
  <2>3. item'[i].owner = item[i].owner
    BY <1>0, <2>2 DEF Row
  <2> QED  BY <2>1, <2>2, <2>3
<1>5. ASSUME NEW items, Cascade(items)
      PROVE  item'[i] = item[i]
  <2>1. CASE i \in items
    <3>1. item'[i] = [item[i] EXCEPT !.state = "gone"]
      BY <1>5, <2>1 DEF Cascade
    <3>2. item'[i].state = "gone"
      BY <1>0, <3>1 DEF Row
    <3> QED  BY <3>2
  <2>2. CASE i \notin items
    BY <1>5, <2>2 DEF Cascade
  <2> QED  BY <2>1, <2>2
<1>6. CASE DeleteRow(c)
  BY <1>1, <1>5, <1>6 DEF DeleteRow
<1>7. CASE DeleteProjectRow(c)
  <2> DEFINE its == {j \in Item : Live(j) /\ item[j].project = call[c].p}
  <2>1. Cascade(its)
    BY <1>7 DEF DeleteProjectRow
  <2> HIDE DEF its
  <2> QED  BY <1>1, <1>5, <2>1
<1>8. CASE AddInsert(c) \/ (RowWrites(c) /\ ~CreateInsert(c) /\ ~UpdateWrite(c) /\ ~DeleteRow(c)
                              /\ ~DeleteProjectRow(c))
  <2>1. item' = item
    BY <1>8 DEF AddInsert, RowWrites, RemoveRow, ShareInsert, ShareEdges, SharePurge, UnshareRow,
              CreateProjectInsert, ProjectWrite, PostInsert, UnpostRow, tables
  <2> QED  BY <1>1, <2>1
<1> QED  BY <1>1, <1>2, <1>3, <1>4, <1>6, <1>7, <1>8, StepKinds, Untouched

\* A project comes with create_project, for its owner.
LEMMA ProjectsKept ==
  ASSUME BoardInv, CreatorsOwn, NEW c \in Caller, CallStep(c), NEW p \in Project,
         project'[p].live
  PROVE  project[p].live \/ (CreateProjectInsert(c) /\ Owner[p] = call[c].by)
<1> USE DEF BoardInv
<1>0. project[p] \in ProjectRow
  BY DEF RowsOK
<1>1. CASE project'[p] = project[p]
  BY <1>1
<1>2. CASE CreateProjectInsert(c) /\ project'[p] # project[p]
  <2>1. p = call[c].p /\ call[c].op = "create_project"
    BY <1>2 DEF CreateProjectInsert, At, RowsOK
  <2> QED  BY <1>2, <2>1 DEF CreatorsOwn
<1>3. CASE ProjectWrite(c)
  <2>1. \/ project' = project
        \/ project[call[c].p].live /\ project' = [project EXCEPT
             ![call[c].p].workspace = Effective(call[c].mode, @),
             ![call[c].p].repos = Effective(call[c].repos, @)]
    BY <1>3 DEF ProjectWrite, tables
  <2>2. CASE p # call[c].p
    BY <1>1, <2>1, <2>2 DEF RowsOK
  <2>3. CASE p = call[c].p
    BY <2>1, <2>3
  <2> QED  BY <2>2, <2>3
<1>4. CASE DeleteProjectRow(c)
  <2>1. project' = [project EXCEPT ![call[c].p].live = FALSE]
    BY <1>4 DEF DeleteProjectRow
  <2>2. p # call[c].p
    <3>1. ASSUME p = call[c].p
          PROVE  FALSE
      <4>1. project'[p] = [project[p] EXCEPT !.live = FALSE]
        BY <2>1, <3>1 DEF RowsOK
      <4>2. project'[p].live = FALSE
        BY <1>0, <4>1 DEF ProjectRow
      <4> QED  BY <4>2
    <3> QED  BY <3>1
  <2> QED  BY <1>1, <2>1, <2>2 DEF RowsOK
<1>5. CASE RolloutLocks(c) \/ AddInsert(c) \/ (RowWrites(c) /\ ~CreateProjectInsert(c)
                              /\ ~ProjectWrite(c) /\ ~DeleteProjectRow(c))
  <2>1. project' = project
    BY <1>5 DEF RolloutLocks, AddInsert, RowWrites, CreateInsert, UpdateWrite, DeleteRow,
              RemoveRow, ShareInsert, ShareEdges, SharePurge, UnshareRow, PostInsert,
              UnpostRow, tables
  <2> QED  BY <1>1, <2>1
<1> QED  BY <1>1, <1>2, <1>3, <1>4, <1>5, StepKinds, Untouched

\* A note or comment comes with post.
LEMMA PostsKept ==
  ASSUME BoardInv, NEW c \in Caller, CallStep(c), NEW k \in Child, child'[k] # Nil
  PROVE  child[k] # Nil \/ (PostInsert(c) /\ k = call[c].k)
<1> USE DEF BoardInv
<1>1. CASE PostInsert(c)
  BY <1>1 DEF PostInsert, RowsOK
<1>2. CASE UnpostRow(c)
  BY <1>2 DEF UnpostRow, RowsOK
<1>3. CASE DeleteRow(c)
  BY <1>3 DEF DeleteRow
<1>4. CASE DeleteProjectRow(c)
  BY <1>4 DEF DeleteProjectRow
<1>5. CASE RolloutLocks(c) \/ AddInsert(c) \/ (RowWrites(c) /\ ~PostInsert(c)
                              /\ ~UnpostRow(c) /\ ~DeleteRow(c) /\ ~DeleteProjectRow(c))
  <2>1. child' = child
    BY <1>5 DEF RolloutLocks, AddInsert, RowWrites, CreateInsert, UpdateWrite,
              RemoveRow, ShareInsert, ShareEdges, SharePurge, UnshareRow, CreateProjectInsert,
              ProjectWrite, tables
  <2> QED  BY <2>1
<1> QED  BY <1>1, <1>2, <1>3, <1>4, <1>5, StepKinds, Untouched

\* When the accounts and the requests stay, and what is noted grows.
LEMMA StillRelies ==
  ASSUME RequestsOK, UNCHANGED <<account, invite, link, key, req, duel>>, NEW c \in Caller,
         Serving(c) => since[c] \subseteq since'[c]
  PROVE  /\ RegisterOK(c)' /\ ResetOK(c)' /\ PasswordOK(c)' /\ RevokeOK(c)' /\ DeleterOK(c)'
<1>1. RegisterOK(c)'
  BY DEF RequestsOK, RegisterOK, HoldsInvite
<1>2. ResetOK(c)'
  BY DEF RequestsOK, ResetOK, AtReq, HoldsLink
<1>3. PasswordOK(c)'
  BY DEF RequestsOK, PasswordOK, AtReq, Serving
<1>4. RevokeOK(c)'
  BY DEF RequestsOK, RevokeOK, AtReq, Serving
<1>5. DeleterOK(c)'
  BY DEF RequestsOK, DeleterOK, Alive
<1> QED  BY <1>1, <1>2, <1>3, <1>4, <1>5

LEMMA AccountsStill ==
  ASSUME RequestsOK, UNCHANGED <<account, invite, link, key, duel>>
  PROVE  LinksLead' /\ InvitesLead' /\ InvitesAdmitOne' /\ AnAdminRemains'
<1>1. LinksLead' /\ InvitesLead'
  BY DEF RequestsOK, LinksLead, InvitesLead, Stored, Alive
<1>2. InvitesAdmitOne' /\ AnAdminRemains'
  BY DEF RequestsOK, InvitesAdmitOne, AnAdminRemains, Alive
<1> QED  BY <1>1, <1>2

\* What the board inserts for a user is noted by the deletions of that user.
LEMMA BoardSweeps ==
  ASSUME BoardInv, CreatorsOwn, RequestsOK, NEW c \in Caller, BoardStep(c),
         NEW u, NEW at, NEW new, NEW after, Swept(at, u, new), new => after,
         Inserts(c) /\ call[c].op # "share" /\ call[c].by = u => after
  PROVE  Swept(at, u, after)'
<1> USE DEF BoardInv
<1>0. CallStep(c) /\ UNCHANGED <<account, invite, link, key>>
      /\ author' = IF At(c, "post", "insert") THEN [author EXCEPT ![call[c].k] = call[c].by]
                   ELSE author
  BY DEF BoardStep
<1>1. OwnsProject(u)' => OwnsProject(u) \/ after
  <2> SUFFICES ASSUME NEW p \in Project, project'[p].live, Owner[p] = u
               PROVE  OwnsProject(u) \/ after
    BY DEF OwnsProject
  <2>1. CASE project[p].live
    BY <2>1 DEF OwnsProject
  <2>2. CASE CreateProjectInsert(c) /\ u = call[c].by
    BY <2>2 DEF CreateProjectInsert, At, Inserts
  <2> QED  BY <1>0, <2>1, <2>2, ProjectsKept
<1>2. OwnsItem(u)' => OwnsItem(u) \/ after
  <2> SUFFICES ASSUME NEW i \in Item, item'[i].state = "live", item'[i].owner = u
               PROVE  OwnsItem(u) \/ after
    BY DEF OwnsItem, Live
  <2>1. CASE Live(i) /\ item'[i].owner = item[i].owner
    BY <2>1 DEF OwnsItem
  <2>2. CASE CreateInsert(c) /\ item'[i].owner = call[c].by
    BY <2>2 DEF CreateInsert, At, Inserts
  <2> QED  BY <1>0, <2>1, <2>2, OwnersKept
<1>3. NoPosts(u) => NoPosts(u)' \/ after
  <2> SUFFICES ASSUME NoPosts(u), NEW k \in Child, child'[k] # Nil, author'[k] = u
               PROVE  after
    BY DEF NoPosts
  <2>0. author \in [Child -> User \cup {Nil}]
    BY DEF RequestsOK, AccountRowsOK
  <2>1. CASE child[k] # Nil /\ author'[k] = author[k]
    BY <2>1 DEF NoPosts
  <2>2. CASE At(c, "post", "insert") /\ author'[k] # author[k]
    <3>1. author'[k] = call[c].by
      BY <1>0, <2>0, <2>2
    <3> QED  BY <2>2, <3>1 DEF At, Inserts
  <2>3. CASE PostInsert(c) /\ k = call[c].k
    <3>1. author'[k] = call[c].by
      BY <1>0, <2>0, <2>3 DEF PostInsert
    <3> QED  BY <2>3, <3>1 DEF PostInsert, At, Inserts
  <2> QED  BY <1>0, <2>1, <2>2, <2>3, PostsKept
<1>4. /\ NoLinks(u)' = NoLinks(u) /\ NoInvites(u)' = NoInvites(u) /\ NoKeys(u)' = NoKeys(u)
  BY <1>0 DEF NoLinks, NoInvites, NoKeys, Stored
<1> QED  BY <1>1, <1>2, <1>3, <1>4 DEF Swept

LEMMA BoardStepRelies ==
  ASSUME BoardInv, CreatorsOwn, RequestsOK, NEW c \in Caller, BoardStep(c)
  PROVE  RequestsOK'
<1>1. /\ UNCHANGED <<account, invite, link, key, worked, req, duel>>
      /\ author' = IF At(c, "post", "insert") THEN [author EXCEPT ![call[c].k] = call[c].by]
                   ELSE author
      /\ since' = [d \in Caller |-> IF Serving(d) /\ Inserts(c) /\ call[c].op # "share"
                                    THEN since[d] \cup {<<"row", call[c].by>>} ELSE since[d]]
  BY DEF BoardStep
<1>2. AccountRowsOK'
  <2>1. author' \in [Child -> User \cup {Nil}]
    <3>1. At(c, "post", "insert") => call[c].by \in User
      BY Locals DEF At, BoardInv, CallsOK, PostCall
    <3> QED  BY <1>1, <3>1 DEF RequestsOK, AccountRowsOK
  <2> QED  BY <1>1, <2>1 DEF RequestsOK, AccountRowsOK, Alive, Stored
<1>3. ReqsOK'
  BY <1>1 DEF RequestsOK, ReqsOK
<1>4. SinceOK'
  <2>1. Inserts(c) /\ call[c].op # "share" => <<"row", call[c].by>> \in Note
    <3>1. Inserts(c) /\ call[c].op # "share" => call[c].by \in User
      BY Locals DEF Inserts, BoardInv, CallsOK, PostCall, CreateCall, CreateProjectCall
    <3> QED  BY <3>1 DEF Note
  <2>2. since' \in [Caller -> SUBSET Note]
    BY <1>1, <2>1 DEF RequestsOK, SinceOK
  <2> QED  BY <2>2 DEF SinceOK, Note
<1>5. LinksLead' /\ InvitesLead' /\ InvitesAdmitOne' /\ AnAdminRemains'
  BY <1>1, AccountsStill
<1>6. ASSUME NEW d \in Caller
      PROVE  since[d] \subseteq since'[d]
  BY <1>1
<1>7. ASSUME NEW d \in Caller
      PROVE  SweepOK(d)'
  <2> SUFFICES ASSUME NEW at, NEW u, NEW after, req'[d].op = "delete_user", at = req'[d].at,
                      u = req'[d].u, after = (<<"row", u>> \in since'[d])
               PROVE  Swept(at, u, after)'
    BY <1>7, SweepOf
  <2>1. Swept(at, u, <<"row", u>> \in since[d])
    BY <1>1, <1>7, SweptOf DEF RequestsOK
  <2>2. ASSUME Inserts(c), call[c].op # "share", call[c].by = u
        PROVE  after
    BY <1>1, <1>7, <2>2 DEF Serving
  <2> QED  BY <1>6, <1>7, <2>1, <2>2, BoardSweeps
<1> QED  BY <1>1, <1>2, <1>3, <1>4, <1>5, <1>6, <1>7, StillRelies DEF RequestsOK

\* Steps that change neither the accounts' rows nor the requests.
LEMMA ElsewhereRelies ==
  ASSUME RequestsOK, UNCHANGED <<accountVars, req, since, duel, project, item, child>>
  PROVE  RequestsOK'
<1>1. UNCHANGED <<account, invite, link, key, author, worked>>
  BY DEF accountVars
<1>2. AccountRowsOK' /\ ReqsOK' /\ SinceOK'
  BY <1>1 DEF RequestsOK, AccountRowsOK, ReqsOK, SinceOK, Note, Alive, Stored
<1>3. LinksLead' /\ InvitesLead' /\ InvitesAdmitOne' /\ AnAdminRemains'
  BY <1>1, AccountsStill
<1>4. ASSUME NEW d \in Caller
      PROVE  SweepOK(d)'
  <2>1. SweepOK(d)
    BY <1>4 DEF RequestsOK
  <2> QED  BY <1>1, <2>1 DEF SweepOK, OwnsProject, OwnsItem, Live, Stored
<1> QED  BY <1>1, <1>2, <1>3, <1>4, StillRelies DEF RequestsOK

LEMMA ExpiryRelies ==
  ASSUME RequestsOK, NEW s \in Link, LinkExpires(s)
  PROVE  RequestsOK'
<1>1. /\ UNCHANGED <<account, invite, key, author, worked, req, since, duel>>
      /\ UNCHANGED <<project, item, child>>
      /\ link' = [link EXCEPT ![s].expired = TRUE]
  BY DEF LinkExpires, BoardKept, tables
<1>2. ASSUME NEW l \in Link
      PROVE  link'[l].state = link[l].state /\ link'[l].of = link[l].of /\ link'[l] \in Reset
  <2>0. link[l] \in Reset
    BY DEF RequestsOK, AccountRowsOK
  <2>1. CASE l = s
    <3>1. link'[l] = [link[l] EXCEPT !.expired = TRUE]
      BY <1>1, <2>1 DEF RequestsOK, AccountRowsOK
    <3> QED  BY <2>0, <3>1 DEF Reset
  <2>2. CASE l # s
    BY <1>1, <2>0, <2>2 DEF RequestsOK, AccountRowsOK
  <2> QED  BY <2>1, <2>2
<1>3. AccountRowsOK' /\ ReqsOK' /\ SinceOK'
  <2>1. link' \in [Link -> Reset]
    BY <1>1, <1>2 DEF RequestsOK, AccountRowsOK
  <2>2. ReqsOK' /\ SinceOK'
    BY <1>1 DEF RequestsOK, ReqsOK, SinceOK, Note
  <2> QED  BY <1>1, <2>1, <2>2 DEF RequestsOK, AccountRowsOK, Alive, Stored
<1>4. LinksLead' /\ InvitesLead' /\ InvitesAdmitOne' /\ AnAdminRemains'
  <2>1. LinksLead'
    BY <1>1, <1>2 DEF RequestsOK, LinksLead, Stored, Alive
  <2>2. InvitesLead' /\ InvitesAdmitOne' /\ AnAdminRemains'
    BY <1>1 DEF RequestsOK, InvitesLead, InvitesAdmitOne, AnAdminRemains, Alive
  <2> QED  BY <2>1, <2>2
<1>5. ASSUME NEW d \in Caller
      PROVE  /\ RegisterOK(d)' /\ ResetOK(d)' /\ PasswordOK(d)' /\ RevokeOK(d)'
             /\ DeleterOK(d)' /\ SweepOK(d)'
  <2>1. RegisterOK(d) /\ ResetOK(d) /\ PasswordOK(d) /\ RevokeOK(d) /\ DeleterOK(d) /\ SweepOK(d)
    BY <1>5 DEF RequestsOK
  <2>2. RegisterOK(d)' /\ PasswordOK(d)' /\ RevokeOK(d)' /\ DeleterOK(d)'
    BY <1>1, <2>1 DEF RegisterOK, PasswordOK, RevokeOK, DeleterOK, HoldsInvite, AtReq, Alive
  <2>3. ResetOK(d)'
    <3>1. AtReq(d, "reset", "commit") => req[d].l \in Link
      BY RequestLocals DEF RequestsOK, ReqsOK, AtReq
    <3> QED  BY <1>1, <1>2, <2>1, <3>1 DEF ResetOK, AtReq, HoldsLink
  <2>4. SweepOK(d)'
    BY <1>1, <1>2, <2>1 DEF SweepOK, OwnsProject, OwnsItem, Live, Stored
  <2> QED  BY <2>2, <2>3, <2>4
<1> QED  BY <1>3, <1>4, <1>5 DEF RequestsOK

\* A restart ends every request.
LEMMA RestartRelies ==
  ASSUME RequestsOK, AccountsRestart
  PROVE  RequestsOK'
<1>1. /\ UNCHANGED <<account, invite, link, key, author, worked, duel>>
      /\ req' = [c \in Caller |-> NoReq] /\ since' = [c \in Caller |-> {}]
  BY DEF AccountsRestart, accountVars
<1>2. AccountRowsOK' /\ ReqsOK' /\ SinceOK'
  <2>1. NoReq \in Request
    BY DEF Request
  <2>2. ReqsOK' /\ SinceOK'
    BY <1>1, <2>1 DEF ReqsOK, SinceOK, Note
  <2> QED  BY <1>1, <2>2 DEF RequestsOK, AccountRowsOK, Alive, Stored
<1>3. LinksLead' /\ InvitesLead' /\ InvitesAdmitOne' /\ AnAdminRemains'
  BY <1>1, AccountsStill
<1>4. \A d \in Caller : req'[d].op = "none"
  BY <1>1 DEF NoReq
<1> QED  BY <1>2, <1>3, <1>4, NothingLeft DEF RequestsOK

LEMMA RequestRelies ==
  ASSUME RequestsOK, NEW c \in Caller, RequestStep(c)
  PROVE  RequestsOK'
<1>1. AccountRowsOK' /\ ReqsOK' /\ SinceOK'
  BY AccountRowsKept, ReqsKept, SinceKept DEF RequestsOK
<1>2. LinksLead' /\ InvitesLead' /\ InvitesAdmitOne' /\ AnAdminRemains'
  BY LinksKept, InvitesKept, OneForEach, AdminsKept
<1>3. \A d \in Caller : /\ RegisterOK(d)' /\ ResetOK(d)' /\ PasswordOK(d)' /\ RevokeOK(d)'
                        /\ DeleterOK(d)' /\ SweepOK(d)'
  BY RegistersKept, ResetsKept, PasswordsKept, RevokesKept, DeletersKept, SweepsKept
<1> QED  BY <1>1, <1>2, <1>3 DEF RequestsOK

-----------------------------------------------------------------------------
(* The rest of the types: files, bounds and history *)

HistoryOK ==
  /\ disk \in [File -> Item \cup {Nil}]
  /\ used \subseteq Child \cup File \cup Project /\ asked \in Nat /\ crashes \in Nat
  /\ late \in [Caller -> SUBSET Object]
  /\ raced \subseteq Edge \X Edge
  /\ strayed \subseteq Edge /\ torn \subseteq Project /\ excused \subseteq File

LEMMA WroteType ==
  ASSUME late \in [Caller -> SUBSET Object], NEW c, NEW objects, objects \subseteq Object,
         Wrote(c, objects)
  PROVE  late' \in [Caller -> SUBSET Object]
BY DEF Wrote

LEMMA AskHistory ==
  ASSUME HistoryOK, BoardInv, NEW c \in Caller, Asks(c), CallStep(c)
  PROVE  HistoryOK'
<1>1. PICK r : Ask(c, r)
  BY AskIs
<1>2. r \in Call
  <2>1. call'[c] = r
    BY <1>1 DEF Ask, BoardInv, CallsOK
  <2>2. CallsOK'
    BY CallStepKeeps DEF BoardInv
  <2> QED  BY <2>1, <2>2 DEF CallsOK
<1>3. used' \subseteq Child \cup File \cup Project
  <2>1. used' = used \cup CASE r.op = "upload" -> {r.f} [] r.op = "post" -> {r.k}
                            [] r.op = "create_project" -> {r.p} [] OTHER -> {}
    BY <1>1 DEF Ask
  <2>2. CASE r.op = "upload"
    <3>1. r.f \in File
      BY <1>2, <2>2, Locals DEF UploadCall
    <3> QED  BY <2>1, <2>2, <3>1 DEF HistoryOK
  <2>3. CASE r.op = "post"
    <3>1. r.k \in Child
      BY <1>2, <2>3, Locals DEF PostCall
    <3> QED  BY <2>1, <2>3, <3>1 DEF HistoryOK
  <2>4. CASE r.op = "create_project"
    <3>1. r.p \in Project
      BY <1>2, <2>4, Locals DEF CreateProjectCall
    <3> QED  BY <2>1, <2>4, <3>1 DEF HistoryOK
  <2>5. CASE r.op \notin {"upload", "post", "create_project"}
    BY <2>1, <2>5 DEF HistoryOK
  <2> QED  BY <2>2, <2>3, <2>4, <2>5
<1>4. UNCHANGED <<disk, crashes, late, raced, strayed, torn, excused>> /\ asked' = asked + 1
  BY <1>1 DEF Ask, tables, history
<1> QED  BY <1>3, <1>4 DEF HistoryOK

\* The locals that the statements write with.
LEMMA WritesWith ==
  ASSUME CallsOK, NEW c \in Caller
  PROVE  /\ call[c].op \in {"update", "claim", "add_blocker", "delete"} => call[c].i \in Item
         /\ call[c].op = "add_blocker" => call[c].b \in Item
         /\ call[c].op \in {"create_project", "update_project", "delete_project"}
              => call[c].p \in Project
         /\ call[c].op = "upload" => call[c].f \in File /\ call[c].i \in Item
BY Locals DEF CallsOK, UpdateCall, AddBlockerCall, DeleteCall, CreateProjectCall,
   UpdateProjectCall, DeleteProjectCall, UploadCall

LEMMA StepHistory ==
  ASSUME HistoryOK, BoardInv, NEW c \in Caller, CallStep(c)
  PROVE  HistoryOK'
<1> USE DEF BoardInv
<1>0. deps \subseteq Edge /\ late \in [Caller -> SUBSET Object] /\ {} \subseteq Object
  BY DEF RowsOK, HistoryOK
<1>1. CASE Asks(c)
  BY <1>1, AskHistory
<1>2. CASE Reads(c)
  <2>1. UNCHANGED <<disk, used, asked, crashes, raced, strayed, torn, excused>> /\ Wrote(c, {})
    BY <1>2, ReadIs DEF ReadStep, Steady, tables, history
  <2>2. late' \in [Caller -> SUBSET Object]
    BY <1>0, <2>1, WroteType
  <2> QED  BY <2>1, <2>2 DEF HistoryOK
<1>3. CASE FileWrites(c)
  <2>1. UNCHANGED <<used, asked, crashes, raced, strayed, torn, excused>> /\ Wrote(c, {})
    BY <1>3 DEF FileWrites, DeleteFiles, UploadFile, UploadRow, DeleteFileAccess,
                DeleteFileRow, Steady, history
  <2>2. late' \in [Caller -> SUBSET Object]
    BY <1>0, <2>1, WroteType
  <2>3. disk' \in [File -> Item \cup {Nil}]
    <3>1. CASE UploadFile(c)
      <4>1. call[c].i \in Item
        BY <3>1, WritesWith DEF UploadFile, At
      <4> QED  BY <3>1, <4>1 DEF UploadFile, HistoryOK
    <3>2. CASE DeleteFiles(c) \/ UploadRow(c) \/ DeleteFileAccess(c) \/ DeleteFileRow(c)
      BY <3>2 DEF DeleteFiles, UploadRow, DeleteFileAccess, DeleteFileRow, HistoryOK
    <3> QED  BY <1>3, <3>1, <3>2 DEF FileWrites
  <2> QED  BY <2>1, <2>2, <2>3 DEF HistoryOK
<1>4. CASE RolloutLocks(c)
  <2>1. \E i \in Item : Wrote(c, {i})
    BY <1>4 DEF RolloutLocks
  <2>2. late' \in [Caller -> SUBSET Object]
    BY <1>0, <2>1, WroteType DEF Object
  <2>3. UNCHANGED <<disk, used, crashes, raced, strayed, torn, excused>> /\ asked' = asked + 1
    BY <1>4 DEF RolloutLocks, history
  <2> QED  BY <2>2, <2>3 DEF HistoryOK
<1>5. CASE AddInsert(c)
  <2> DEFINE e == <<call[c].i, call[c].b>>
  <2>1. e \in Edge
    BY <1>5, WritesWith DEF AddInsert, At, Edge
  <2>2. UNCHANGED <<disk, used, asked, crashes, torn, excused>>
    BY <1>5 DEF AddInsert, Steady, tables
  <2>3. late' \in [Caller -> SUBSET Object]
    <3>1. Wrote(c, {}) \/ Wrote(c, {e})
      BY <1>5 DEF AddInsert
    <3>2. {e} \subseteq Object
      BY <2>1 DEF Object
    <3> HIDE DEF e
    <3> QED  BY <1>0, <3>1, <3>2, WroteType
  <2>4. raced' \subseteq Edge \X Edge
    <3>1. \/ raced' = raced
          \/ raced' = {q \in raced : q[1] # e /\ q[2] # e}
                        \cup {<<e, f>> : f \in late[c] \cap Edge}
      BY <1>5 DEF AddInsert
    <3> HIDE DEF e
    <3>2. {<<e, f>> : f \in late[c] \cap Edge} \subseteq Edge \X Edge
      BY <2>1
    <3> QED  BY <3>1, <3>2 DEF HistoryOK
  <2>5. strayed' \subseteq Edge
    <3>1. strayed' \in {strayed, strayed \cup {e}, strayed \ {e}}
      BY <1>5 DEF AddInsert
    <3> HIDE DEF e
    <3> QED  BY <2>1, <3>1 DEF HistoryOK
  <2> QED  BY <2>2, <2>3, <2>4, <2>5 DEF HistoryOK
<1>6. CASE CreateInsert(c)
  <2>1. Wrote(c, {}) \/ \E i \in Item : Wrote(c, {i})
    BY <1>6 DEF CreateInsert
  <2>2. late' \in [Caller -> SUBSET Object]
    BY <1>0, <2>1, WroteType DEF Object
  <2>3. UNCHANGED <<disk, used, asked, crashes, raced, strayed, torn, excused>>
    BY <1>6 DEF CreateInsert, Steady, tables, history
  <2> QED  BY <2>2, <2>3 DEF HistoryOK
<1>7. CASE UpdateWrite(c)
  <2>0. call[c].i \in Item
    BY <1>7, WritesWith DEF UpdateWrite
  <2>1. Wrote(c, {}) \/ Wrote(c, {call[c].i})
    BY <1>7 DEF UpdateWrite
  <2>2. late' \in [Caller -> SUBSET Object]
    BY <1>0, <2>0, <2>1, WroteType DEF Object
  <2>3. UNCHANGED <<disk, used, asked, crashes, raced, torn, excused>>
    BY <1>7 DEF UpdateWrite, Steady, tables
  <2>4. strayed' \subseteq strayed \cup deps
    BY <1>7 DEF UpdateWrite
  <2> QED  BY <1>0, <2>2, <2>3, <2>4 DEF HistoryOK
<1>8. CASE DeleteRow(c)
  <2>0. call[c].i \in Item
    BY <1>8, WritesWith DEF DeleteRow, At
  <2>1. Wrote(c, {call[c].i})
    BY <1>8 DEF DeleteRow
  <2>2. late' \in [Caller -> SUBSET Object]
    BY <1>0, <2>0, <2>1, WroteType DEF Object
  <2>3. UNCHANGED <<disk, used, asked, crashes, raced, strayed, torn>>
    BY <1>8 DEF DeleteRow, Steady
  <2>4. excused' \subseteq excused \cup File
    BY <1>8 DEF DeleteRow
  <2> QED  BY <2>2, <2>3, <2>4 DEF HistoryOK
<1>9. CASE CreateProjectInsert(c) \/ ProjectWrite(c)
  <2>0. call[c].p \in Project
    BY <1>9, WritesWith DEF CreateProjectInsert, ProjectWrite, At
  <2>1. Wrote(c, {}) \/ Wrote(c, {call[c].p})
    BY <1>9 DEF CreateProjectInsert, ProjectWrite
  <2>2. late' \in [Caller -> SUBSET Object]
    BY <1>0, <2>0, <2>1, WroteType DEF Object
  <2>3. UNCHANGED <<disk, used, asked, crashes, raced, strayed, excused>>
    BY <1>9 DEF CreateProjectInsert, ProjectWrite, Steady, tables, history
  <2>4. torn' \subseteq torn \cup {call[c].p}
    BY <1>9 DEF CreateProjectInsert, ProjectWrite, history
  <2> QED  BY <2>0, <2>2, <2>3, <2>4 DEF HistoryOK
<1>10. CASE DeleteProjectRow(c)
  <2> DEFINE its == {i \in Item : Live(i) /\ item[i].project = call[c].p}
  <2>0. call[c].p \in Project
    BY <1>10, WritesWith DEF DeleteProjectRow, At
  <2>1. Wrote(c, its \cup {call[c].p})
    BY <1>10 DEF DeleteProjectRow
  <2>2. late' \in [Caller -> SUBSET Object]
    <3>1. its \cup {call[c].p} \subseteq Object
      BY <2>0 DEF Object
    <3> HIDE DEF its
    <3> QED  BY <1>0, <2>1, <3>1, WroteType
  <2>3. UNCHANGED <<disk, used, asked, crashes, raced, strayed, torn>>
    BY <1>10 DEF DeleteProjectRow, Steady
  <2>4. excused' \subseteq excused \cup File
    BY <1>10 DEF DeleteProjectRow
  <2> QED  BY <2>2, <2>3, <2>4 DEF HistoryOK
<1>11. CASE ShareEdges(c)
  <2>1. UNCHANGED <<disk, used, asked, crashes, raced, torn, excused>> /\ Wrote(c, {})
    BY <1>11 DEF ShareEdges, Steady, tables
  <2>2. strayed' \subseteq strayed
    BY <1>11 DEF ShareEdges
  <2>3. late' \in [Caller -> SUBSET Object]
    BY <1>0, <2>1, WroteType
  <2> QED  BY <2>1, <2>2, <2>3 DEF HistoryOK
<1>12. CASE \/ RemoveRow(c) \/ ShareInsert(c) \/ SharePurge(c) \/ UnshareRow(c)
            \/ PostInsert(c) \/ UnpostRow(c)
  <2>1. UNCHANGED <<disk, used, asked, crashes, raced, strayed, torn, excused>> /\ Wrote(c, {})
    BY <1>12 DEF RemoveRow, ShareInsert, SharePurge, UnshareRow, PostInsert, UnpostRow, Steady,
                 history
  <2>2. late' \in [Caller -> SUBSET Object]
    BY <1>0, <2>1, WroteType
  <2> QED  BY <2>1, <2>2 DEF HistoryOK
<1> QED  BY <1>1, <1>2, <1>3, <1>4, <1>5, <1>6, <1>7, <1>8, <1>9, <1>10, <1>11, <1>12, StepKinds
         DEF RowWrites

LEMMA RequestHistory ==
  ASSUME HistoryOK, NEW c \in Caller, RequestStep(c)
  PROVE  HistoryOK'
<1>1. UNCHANGED <<disk, used, late, raced, strayed, torn, excused>>
  BY RequestElsewhere DEF history
<1>2. asked' \in {asked, asked + 1} /\ crashes' = crashes
  <2>1. CASE Looks(c) \/ Authenticated(c)
    BY <2>1, LooksIs, AuthenticatedIs DEF LookStep, Authenticate, BoardKept
  <2>2. CASE Demanded(c)
    <3>1. PICK r : Demand(c, r)
      BY <2>2, DemandedIs
    <3> QED  BY <3>1 DEF Demand
  <2>3. CASE Stores(c) \/ Sweeps(c)
    BY <2>3 DEF Stores, RegisterCommit, ResetCommit, PasswordWrite, NewKeyInsert, DropKeyRow,
       InviteInsert, RevokeRow, IssueInsert, PromoteWrite, DeleteUserRow, Sweeps,
       DeleteUserResets, DeleteUserInvites, DeleteUserKeys, DeleteUserPosts, BoardKept
  <2> QED  BY <2>1, <2>2, <2>3, RequestKinds
<1> QED  BY <1>1, <1>2 DEF HistoryOK

LEMMA RefusedHistory ==
  ASSUME HistoryOK, NEW c \in Caller, InsertRefused(c)
  PROVE  HistoryOK'
<1>1. UNCHANGED <<disk, used, asked, crashes, raced, strayed, torn, excused>> /\ Wrote(c, {})
  BY DEF InsertRefused, ReadStep, Steady, tables, history
<1>2. late' \in [Caller -> SUBSET Object]
  BY <1>1, WroteType DEF HistoryOK
<1> QED  BY <1>1, <1>2 DEF HistoryOK

LEMMA RestartHistory ==
  ASSUME HistoryOK, Restart
  PROVE  HistoryOK'
BY DEF HistoryOK, Restart

-----------------------------------------------------------------------------
(* Events *)

\* The INSERT of an event is noted by the requests in progress, and no more.
LEMMA PublishRelies ==
  ASSUME RequestsOK, EventsOK, NEW c \in Caller, Publish(c)
  PROVE  RequestsOK'
<1>1. UNCHANGED <<account, invite, link, key, author, worked, req, duel, project, item, child>>
  BY DEF Publish, vars, tables
<1>2. AccountRowsOK' /\ ReqsOK'
  BY <1>1 DEF RequestsOK, AccountRowsOK, ReqsOK, Alive, Stored
<1>3. SinceOK' /\ \A d \in Caller : since[d] \subseteq since'[d]
  <2>1. telling[c] \in User
    BY DEF EventsOK, Publish
  <2>2. <<"row", telling[c]>> \in Note
    BY <2>1 DEF Note
  <2>3. since' = since \/ since' = [d \in Caller |-> IF Serving(d)
                                                  THEN since[d] \cup {<<"row", telling[c]>>}
                                                  ELSE since[d]]
    BY DEF Publish
  <2>4. since' \in [Caller -> SUBSET Note]
    BY <2>2, <2>3 DEF RequestsOK, SinceOK
  <2> QED  BY <2>3, <2>4 DEF SinceOK, Note
<1>4. LinksLead' /\ InvitesLead' /\ InvitesAdmitOne' /\ AnAdminRemains'
  BY <1>1, AccountsStill
<1>5. ASSUME NEW d \in Caller
      PROVE  SweepOK(d)'
  <2>1. SweepOK(d)
    BY <1>5 DEF RequestsOK
  <2>2. \A x : x \in since[d] => x \in since'[d]
    BY <1>3
  <2> QED  BY <1>1, <2>1, <2>2 DEF SweepOK, OwnsProject, OwnsItem, Live, Stored
<1> QED  BY <1>1, <1>2, <1>3, <1>4, <1>5, StillRelies DEF RequestsOK

\* Where no event is inserted, and no request goes on, nothing has to be noted.
LEMMA EventsElsewhere ==
  ASSUME EventsOK, UNCHANGED <<told, req>>, telling' \in [Caller -> User \cup {Nil}],
         \A c \in Caller : since[c] \subseteq since'[c]
  PROVE  EventsOK'
<1>1. \A c \in Caller : AtReq(c, "delete_user", "row") =>
        req[c].u \notin told \/ <<"row", req[c].u>> \in since'[c]
  BY DEF EventsOK
<1> QED  BY <1>1 DEF EventsOK, AtReq

LEMMA BoardEvents ==
  ASSUME CallsOK, EventsOK, NEW c \in Caller, BoardStep(c)
  PROVE  EventsOK'
<1>1. UNCHANGED <<told, req>> /\ \A d \in Caller : since[d] \subseteq since'[d]
  BY DEF BoardStep
<1>2. Publishes(c) => call[c].by \in User
  <2>1. call[c] \in Call
    BY DEF CallsOK
  <2>2. Publishes(c) => \/ call[c] \in CreateCall \/ call[c] \in CreateProjectCall
                        \/ call[c] \in PostCall \/ call[c] \in UpdateCall
                        \/ call[c] \in UpdateProjectCall \/ call[c] \in DeleteCall
                        \/ call[c] \in UnpostCall \/ call[c] \in DeleteProjectCall
                        \/ call[c] \in UnshareCall \/ call[c] \in ShareCall
    BY <2>1, Locals DEF Publishes, At
  <2> QED  BY <2>2 DEF CreateCall, CreateProjectCall, PostCall, UpdateCall, UpdateProjectCall,
                       DeleteCall, UnpostCall, DeleteProjectCall, UnshareCall, ShareCall
<1>3. telling' = telling \/ (Publishes(c) /\ telling' = [telling EXCEPT ![c] = call[c].by])
  BY DEF BoardStep
<1>4. telling' \in [Caller -> User \cup {Nil}]
  BY <1>2, <1>3 DEF EventsOK
<1> QED  BY <1>1, <1>4, EventsElsewhere

LEMMA PublishEvents ==
  ASSUME RequestsOK, EventsOK, NEW c \in Caller, Publish(c)
  PROVE  EventsOK'
<1>0. telling[c] \in User /\ req' = req
  BY DEF EventsOK, Publish
<1>1. telling' \in [Caller -> User \cup {Nil}]
  BY DEF EventsOK, Publish
<1>2. told' = told \/ told' = told \cup {telling[c]}
  BY DEF Publish
<1>3. ASSUME NEW d \in Caller, AtReq(d, "delete_user", "row"), req[d].u \in told'
      PROVE  <<"row", req[d].u>> \in since'[d]
  <2>1. Serving(d)
    BY <1>3 DEF AtReq, Serving
  <2>2. CASE ~Alive(telling[c])
    BY <1>3, <2>2 DEF Publish, EventsOK
  <2>3. CASE Alive(telling[c])
    BY <1>3, <2>1, <2>3 DEF Publish, EventsOK
  <2> QED  BY <2>2, <2>3
<1> QED  BY <1>0, <1>1, <1>2, <1>3 DEF EventsOK, AtReq

\* Of the requests only a deletion changes the events, and it takes some away.
LEMMA ToldMoves ==
  ASSUME NEW c \in Caller, RequestStep(c)
  PROVE  telling' = telling /\ told' \subseteq told
<1>1. CASE Looks(c)
  BY <1>1, LooksIs DEF LookStep, BoardKept, accountVars
<1>2. CASE Authenticated(c)
  BY <1>2, AuthenticatedIs DEF Authenticate, BoardKept, accountVars
<1>3. CASE Demanded(c)
  <2>1. PICK r : Demand(c, r)
    BY <1>3, DemandedIs
  <2> QED  BY <2>1 DEF Demand, accountVars
<1>4. CASE Stores(c)
  BY <1>4 DEF Stores, RegisterCommit, ResetCommit, PasswordWrite, NewKeyInsert, DropKeyRow,
              InviteInsert, RevokeRow, IssueInsert, PromoteWrite, DeleteUserRow, BoardKept
<1>5. CASE Sweeps(c)
  BY <1>5 DEF Sweeps, DeleteUserResets, DeleteUserInvites, DeleteUserKeys, DeleteUserPosts,
              BoardKept
<1> QED  BY <1>1, <1>2, <1>3, <1>4, <1>5, RequestKinds

LEMMA RequestEvents ==
  ASSUME RequestsOK, EventsOK, NEW c \in Caller, RequestStep(c)
  PROVE  EventsOK'
<1>1. telling' = telling /\ told' \subseteq told
  BY ToldMoves
<1>2. ASSUME NEW d \in Caller, req'[d].op = "delete_user", req'[d].at = "row"
      PROVE  req'[d].u \notin told' \/ <<"row", req'[d].u>> \in since'[d]
  <2>1. CASE d # c
    <3>1. req'[d] = req[d] /\ Serving(d) /\ since[d] \subseteq since'[d]
      BY <1>2, <2>1, OthersNote DEF Serving, RequestsOK
    <3> QED  BY <1>1, <1>2, <3>1 DEF EventsOK, AtReq
  <2>2. CASE d = c
    <3>1. ~Answer(c) /\ ~Demanded(c)
      BY <1>2, <2>2, Answers, DemandedAt DEF RequestsOK
    <3>2. PICK s : Serving(c) /\ Proceed(c, s)
      BY <3>1, RequestGoes
    <3>3. req[c].op = "delete_user" /\ req'[c].u = req[c].u /\ s = "row"
      BY <1>2, <2>2, <3>2, SameRequest DEF RequestsOK
    <3>4. PICK u : u = req[c].u
      OBVIOUS
    <3>5. u \notin told'
      BY <1>2, <2>2, <3>1, <3>2, <3>3, <3>4, SweepsOn
    <3> QED  BY <2>2, <3>3, <3>4, <3>5
  <2> QED  BY <2>1, <2>2
<1>3. telling' \in [Caller -> User \cup {Nil}] /\ told' \subseteq User
  BY <1>1 DEF EventsOK
<1> QED  BY <1>2, <1>3 DEF EventsOK, AtReq

-----------------------------------------------------------------------------
(* Theorems *)

AccountsKeep == RequestsOK /\ EventsOK /\ CreatorsOwn /\ HistoryOK /\ duel \in BOOLEAN

LEMMA AccountsStart ==
  ASSUME AccountsInit
  PROVE  AccountsKeep
<1>1. PICK founders \in SUBSET User, admins \in SUBSET User, w \in Word :
        account = [u \in User |-> IF u \notin founders THEN NoAccount
                                  ELSE [NoAccount EXCEPT !.state = "live", !.word = w,
                                          !.mail = Home[u], !.admin = u \in admins]]
  BY DEF AccountsInit
<1>2. ASSUME NEW u \in User
      PROVE  /\ account[u] \in Account
             /\ account[u].invite = Nil
             /\ Alive(u) => account[u].mail = Home[u] /\ account[u].word = w
             /\ account[u].state # "none" => Alive(u)
  <2>1. CASE u \notin founders
    BY <1>1, <2>1 DEF NoAccount, Account, Alive
  <2>2. CASE u \in founders
    <3>1. account[u] = [NoAccount EXCEPT !.state = "live", !.word = w, !.mail = Home[u],
                                         !.admin = u \in admins]
      BY <1>1, <2>2
    <3>2. Home[u] \in Address
      BY AccountsAssumption
    <3>3. account[u] = [state |-> "live", mail |-> Home[u], admin |-> u \in admins,
                        word |-> w, invite |-> Nil]
      BY <3>1 DEF NoAccount
    <3> QED  BY <3>2, <3>3 DEF Account, Alive
  <2> QED  BY <2>1, <2>2
<1>3. /\ \A t \in Token : invite[t] = NoInvite
           \/ \E u \in User : invite[t] = [NoInvite EXCEPT !.state = "open", !.by = u]
      /\ \A l \in Link : link[l] = NoReset
           \/ \E u \in User : Alive(u) /\ link[l] = [NoReset EXCEPT !.state = "open", !.of = u]
      /\ \A k \in Key : key[k] = NoKey \/ \E u \in User : key[k] = [state |-> "open", of |-> u]
      /\ invite = [t \in Token |-> invite[t]] /\ link = [l \in Link |-> link[l]]
      /\ key = [k \in Key |-> key[k]]
      /\ worked \subseteq User
  <2> DEFINE there == {u \in User : Alive(u)}
             I == {NoInvite} \cup {[NoInvite EXCEPT !.state = "open", !.by = u] : u \in there}
             L == {NoReset} \cup {[NoReset EXCEPT !.state = "open", !.of = u] : u \in there}
             K == {NoKey} \cup {[state |-> "open", of |-> u] : u \in there}
  <2>1. invite \in [Token -> I] /\ link \in [Link -> L] /\ key \in [Key -> K]
        /\ worked \in SUBSET there
    BY DEF AccountsInit
  <2>2. \A x \in I : x = NoInvite \/ \E u \in User : x = [NoInvite EXCEPT !.state = "open",
                                                                          !.by = u]
    OBVIOUS
  <2>3. \A x \in L : x = NoReset \/ \E u \in User : Alive(u)
                                      /\ x = [NoReset EXCEPT !.state = "open", !.of = u]
    OBVIOUS
  <2>4. \A x \in K : x = NoKey \/ \E u \in User : x = [state |-> "open", of |-> u]
    OBVIOUS
  <2>5. worked \subseteq User
    BY <2>1
  <2> HIDE DEF I, L, K, there
  <2> QED  BY <2>1, <2>2, <2>3, <2>4, <2>5
<1>4. \A t \in Token : /\ invite[t] \in Invite /\ invite[t].state # "used"
                       /\ Stored(invite[t]) => invite[t].by # Nil
  <2> SUFFICES ASSUME NEW t \in Token
               PROVE  /\ invite[t] \in Invite /\ invite[t].state # "used"
                      /\ Stored(invite[t]) => invite[t].by # Nil
    OBVIOUS
  <2>1. CASE invite[t] = NoInvite
    BY <2>1 DEF NoInvite, Invite, Stage, Stored
  <2>2. ASSUME NEW u \in User, invite[t] = [NoInvite EXCEPT !.state = "open", !.by = u]
        PROVE  /\ invite[t] \in Invite /\ invite[t].state # "used"
               /\ Stored(invite[t]) => invite[t].by # Nil
    <3>1. invite[t] = [state |-> "open", by |-> u, of |-> Nil]
      BY <2>2 DEF NoInvite
    <3> QED  BY <3>1, BoardAssumption DEF Invite, Stage
  <2> QED  BY <1>3, <2>1, <2>2
<1>5. \A l \in Link : /\ link[l] \in Reset
                      /\ Stored(link[l]) => link[l].of \in User /\ Alive(link[l].of)
  <2> SUFFICES ASSUME NEW l \in Link
               PROVE  /\ link[l] \in Reset
                      /\ Stored(link[l]) => link[l].of \in User /\ Alive(link[l].of)
    OBVIOUS
  <2>1. CASE link[l] = NoReset
    BY <2>1 DEF NoReset, Reset, Stage, Stored
  <2>2. ASSUME NEW u \in User, Alive(u),
               link[l] = [NoReset EXCEPT !.state = "open", !.of = u]
        PROVE  /\ link[l] \in Reset
               /\ Stored(link[l]) => link[l].of \in User /\ Alive(link[l].of)
    <3>1. link[l] = [state |-> "open", of |-> u, expired |-> FALSE]
      BY <2>2 DEF NoReset
    <3>2. link[l] \in Reset /\ link[l].of = u
      BY <3>1 DEF Reset, Stage
    <3> QED  BY <2>2, <3>2
  <2> QED  BY <1>3, <2>1, <2>2
<1>6. \A k \in Key : key[k] \in [state : {"unused", "open", "gone"}, of : User \cup {Nil}]
  <2> SUFFICES ASSUME NEW k \in Key
               PROVE  key[k] \in [state : {"unused", "open", "gone"}, of : User \cup {Nil}]
    OBVIOUS
  <2>1. CASE key[k] = NoKey
    BY <2>1 DEF NoKey
  <2>2. ASSUME NEW u \in User, key[k] = [state |-> "open", of |-> u]
        PROVE  key[k] \in [state : {"unused", "open", "gone"}, of : User \cup {Nil}]
    BY <2>2
  <2> QED  BY <1>3, <2>1, <2>2
<1>7. /\ author = [k \in Child |-> Nil] /\ req = [c \in Caller |-> NoReq]
      /\ since = [c \in Caller |-> {}] /\ duel = FALSE /\ Init
  BY DEF AccountsInit
<1>8. AccountRowsOK
  <2>1. /\ account \in [User -> Account] /\ invite \in [Token -> Invite]
        /\ link \in [Link -> Reset]
        /\ key \in [Key -> [state : {"unused", "open", "gone"}, of : User \cup {Nil}]]
    <3>1. account = [u \in User |-> account[u]]
      BY <1>1
    <3> QED  BY <1>2, <1>3, <1>4, <1>5, <1>6, <3>1
  <2>2. \A u \in User : Alive(u) => account[u].mail # Nil /\ account[u].word # Nil
    BY <1>2, AccountsAssumption
  <2> QED  BY <1>3, <1>4, <1>7, <2>1, <2>2 DEF AccountRowsOK
<1>9. ReqsOK /\ SinceOK
  <2>1. NoReq \in Request
    BY DEF Request
  <2> QED  BY <1>7, <2>1 DEF ReqsOK, SinceOK
<1>10. LinksLead /\ InvitesLead /\ InvitesAdmitOne /\ AnAdminRemains
  <2>1. InvitesAdmitOne
    BY <1>2, AccountsAssumption DEF InvitesAdmitOne
  <2> QED  BY <1>2, <1>5, <2>1 DEF LinksLead, InvitesLead, AnAdminRemains
<1>11. \A c \in Caller : /\ RegisterOK(c) /\ ResetOK(c) /\ PasswordOK(c) /\ RevokeOK(c)
                         /\ DeleterOK(c) /\ SweepOK(c)
  <2>1. \A c \in Caller : req[c].op = "none"
    BY <1>7 DEF NoReq
  <2> QED  BY <2>1 DEF RegisterOK, ResetOK, PasswordOK, RevokeOK, DeleterOK, SweepOK, AtReq
<1>12. CreatorsOwn
  <2>1. \A c \in Caller : call[c].op = "none"
    BY <1>7 DEF Init, NoCall
  <2> QED  BY <2>1 DEF CreatorsOwn
<1>13. HistoryOK
  BY <1>7, BoardAssumption DEF Init, HistoryOK
<1>14. EventsOK
  <2>1. told \subseteq User /\ telling = [c \in Caller |-> Nil]
    BY DEF AccountsInit
  <2>2. \A c \in Caller : req[c].op = "none"
    BY <1>7 DEF NoReq
  <2> QED  BY <2>1, <2>2 DEF EventsOK, AtReq
<1> QED  BY <1>7, <1>8, <1>9, <1>10, <1>11, <1>12, <1>13, <1>14 DEF AccountsKeep, RequestsOK

\* Deletions of users only ever mark a duel.
LEMMA DuelType ==
  ASSUME duel \in BOOLEAN, NEW c \in Caller, RequestStep(c)
  PROVE  duel' \in BOOLEAN
<1>1. CASE DeleteUserRow(c)
  BY <1>1 DEF DeleteUserRow
<1>2. CASE Looks(c) \/ Authenticated(c) \/ Demanded(c)
  BY <1>2, LooksKeep
<1>3. CASE (Stores(c) \/ Sweeps(c)) /\ ~DeleteUserRow(c)
  BY <1>3 DEF Stores, Sweeps, RegisterCommit, ResetCommit, PasswordWrite, NewKeyInsert,
              DropKeyRow, InviteInsert, RevokeRow, IssueInsert, PromoteWrite,
              DeleteUserResets, DeleteUserInvites, DeleteUserKeys, DeleteUserPosts
<1> QED  BY <1>1, <1>2, <1>3, RequestKinds

\* A call that is refused by a foreign key ends.
LEMMA RefusedCreators ==
  ASSUME CallsOK, CreatorsOwn, NEW c \in Caller, InsertRefused(c)
  PROVE  CreatorsOwn'
<1>1. call' = [call EXCEPT ![c] = NoCall]
  BY DEF InsertRefused, End
<1>2. \A d \in Caller : call'[d] = call[d] \/ call'[d].op = "none"
  BY <1>1 DEF CallsOK, NoCall
<1> QED  BY <1>2 DEF CreatorsOwn

\* What every request relies on between its check and its write, in every state
\* of the accounts and the board together.
THEOREM AccountsInductive == AccountsSpec => []AccountsKeep
<1>1. AccountsInit => AccountsKeep
  BY AccountsStart
<1>2. BoardInv /\ AccountsKeep /\ [AccountsNext]_accountsVars => AccountsKeep'
  <2> SUFFICES ASSUME BoardInv, AccountsKeep, [AccountsNext]_accountsVars
               PROVE  AccountsKeep'
    OBVIOUS
  <2>0. RequestsOK /\ EventsOK /\ CreatorsOwn /\ HistoryOK /\ duel \in BOOLEAN /\ CallsOK
    BY DEF AccountsKeep, BoardInv
  <2>1. CASE AccountsRestart
    <3>1. RequestsOK' /\ HistoryOK'
      BY <2>0, <2>1, RestartRelies, RestartHistory DEF AccountsRestart
    <3>2. call' = [c \in Caller |-> NoCall] /\ duel' = duel
      BY <2>1 DEF AccountsRestart, Restart
    <3>3. CreatorsOwn'
      BY <3>2 DEF CreatorsOwn, NoCall
    <3>4. EventsOK'
      <4>1. told' = told /\ telling' = [c \in Caller |-> Nil] /\ \A c \in Caller : req'[c] = NoReq
        BY <2>1 DEF AccountsRestart, accountVars
      <4> QED  BY <2>0, <4>1 DEF EventsOK, AtReq, NoReq
    <3> QED  BY <2>0, <3>1, <3>2, <3>3, <3>4 DEF AccountsKeep
  <2>2. ASSUME NEW l \in Link, LinkExpires(l) PROVE AccountsKeep'
    <3>1. RequestsOK'
      BY <2>0, <2>2, ExpiryRelies
    <3>2. /\ UNCHANGED <<call, disk, used, asked, crashes, late, duel>>
          /\ UNCHANGED <<raced, strayed, torn, excused>>
      BY <2>2 DEF LinkExpires, BoardKept, tables, history
    <3>3. EventsOK'
      BY <2>0, <2>2, EventsElsewhere DEF LinkExpires, BoardKept, EventsOK
    <3> QED  BY <2>0, <3>1, <3>2, <3>3 DEF AccountsKeep, CreatorsOwn, HistoryOK
  <2>3. ASSUME NEW c \in Caller, BoardStep(c) PROVE AccountsKeep'
    <3>1. CallStep(c) /\ duel' = duel
      BY <2>3 DEF BoardStep
    <3> QED  BY <2>0, <2>3, <3>1, BoardStepRelies, BoardEvents, CreatorsKept, StepHistory
             DEF AccountsKeep
  <2>4. ASSUME NEW c \in Caller, InsertRefused(c) PROVE AccountsKeep'
    <3>1. UNCHANGED <<accountVars, req, since, duel, project, item, child>>
      BY <2>4 DEF InsertRefused, ReadStep, tables
    <3>2. EventsOK'
      BY <2>0, <2>4, EventsElsewhere DEF InsertRefused, accountVars, EventsOK
    <3> QED  BY <2>0, <2>4, <3>1, <3>2, ElsewhereRelies, RefusedHistory, RefusedCreators
             DEF AccountsKeep
  <2>5. ASSUME NEW c \in Caller, RequestStep(c) PROVE AccountsKeep'
    <3>1. call' = call
      BY <2>5, RequestElsewhere
    <3> QED  BY <2>0, <2>5, <3>1, RequestRelies, RequestEvents, RequestHistory, DuelType
             DEF AccountsKeep, CreatorsOwn
  <2>6. CASE UNCHANGED accountsVars
    <3>1. /\ UNCHANGED <<accountVars, req, since, duel, project, item, child>>
          /\ UNCHANGED <<call, disk, used, asked, crashes, late, raced, strayed, torn, excused>>
      BY <2>6 DEF accountsVars, vars, tables, history
    <3>2. EventsOK'
      BY <2>0, <2>6, EventsElsewhere DEF accountsVars, accountVars, EventsOK
    <3> QED  BY <2>0, <3>1, <3>2, ElsewhereRelies DEF AccountsKeep, CreatorsOwn, HistoryOK
  <2>7. ASSUME NEW c \in Caller, Publish(c) PROVE AccountsKeep'
    <3>1. /\ UNCHANGED <<call, disk, used, asked, crashes, late, raced, strayed, torn, excused>>
          /\ duel' = duel
      BY <2>7 DEF Publish, vars, tables, history
    <3> QED  BY <2>0, <2>7, <3>1, PublishRelies, PublishEvents
             DEF AccountsKeep, CreatorsOwn, HistoryOK
  <2> QED  BY <2>1, <2>2, <2>3, <2>4, <2>5, <2>6, <2>7 DEF AccountsNext
<1> QED  BY <1>1, <1>2, BoardInductive, PTL DEF AccountsSpec

\* The rows of users, invites, links and keys have their types, an invite admits
\* one user, an address has one account, and there is an administrator unless two
\* deleted each other: register_user_with_invite holds the invite FOR UPDATE and
\* the UNIQUE column holds the address, delete_user refuses one's own account.
THEOREM AccountsCorrect == AccountsSpec => []AccountsInv
<1>1. BoardInv /\ AccountsKeep => AccountsInv
  <2> SUFFICES ASSUME BoardInv, AccountsKeep PROVE AccountsInv
    OBVIOUS
  <2>1. TypeOK
    BY DEF AccountsKeep, HistoryOK, BoardInv, RowsOK, CallsOK, TypeOK
  <2>2. AccountsTypeOK
    BY <2>1 DEF AccountsKeep, EventsOK, RequestsOK, AccountRowsOK, ReqsOK, SinceOK, Note,
                AccountsTypeOK
  <2> QED  BY <2>2 DEF AccountsKeep, RequestsOK, AccountsInv
<1> QED  BY <1>1, AccountsInductive, BoardInductive, PTL

\* What a step of another kind leaves alone.
LEMMA NotRequests ==
  ASSUME [AccountsNext]_accountsVars, \A c \in Caller : ~RequestStep(c)
  PROVE  /\ UNCHANGED <<account, invite>>
         /\ UNCHANGED req \/ AccountsRestart
<1>1. CASE AccountsRestart
  BY <1>1 DEF AccountsRestart, accountVars
<1>2. ASSUME NEW l \in Link, LinkExpires(l)
      PROVE  UNCHANGED <<account, invite, req>>
  BY <1>2 DEF LinkExpires
<1>3. ASSUME NEW c \in Caller, BoardStep(c) \/ Publish(c) \/ InsertRefused(c)
      PROVE  UNCHANGED <<account, invite, req>>
  BY <1>3 DEF BoardStep, Publish, InsertRefused, accountVars
<1>4. CASE UNCHANGED accountsVars
  BY <1>4 DEF accountsVars, accountVars
<1> QED  BY <1>1, <1>2, <1>3, <1>4 DEF AccountsNext

\* A used invite goes with the administrator who issued it, or by a revocation
\* whose SELECT came before the use; consume_password_reset holds its link FOR
\* UPDATE, so that the link works once and for a user that is there; and
\* change_password writes over the password it verified, or over one that was
\* set while it was served.
THEOREM CredentialsStay == AccountsSpec => CredentialsKept
<1> DEFINE Stay == \A t \in Token :
             invite[t].state = "used" /\ invite'[t].state = "gone" =>
               \E c \in Caller :
                 \/ AtReq(c, "delete_user", "invites") /\ req[c].u = invite[t].by
                 \/ AtReq(c, "revoke", "row") /\ req[c].t = t /\ <<"used", t>> \in since[c]
           Once == \A c \in Caller :
             AtReq(c, "reset", "commit") /\ account' # account =>
               LET l == req[c].l IN
               link[l].state = "open" /\ ~req[c].expired /\ Alive(link[l].of)
           Known == \A c \in Caller :
             AtReq(c, "password", "write") /\ req'[c] # req[c] /\ Alive(req[c].by) =>
               \/ account[req[c].by].word = req[c].old
               \/ <<"word", req[c].by>> \in since[c]
<1>1. AccountsKeep /\ [AccountsNext]_accountsVars => Stay
  <2> SUFFICES ASSUME AccountsKeep, [AccountsNext]_accountsVars, NEW t \in Token,
                      invite[t].state = "used", invite'[t].state = "gone"
               PROVE  \E c \in Caller :
                        \/ AtReq(c, "delete_user", "invites") /\ req[c].u = invite[t].by
                        \/ /\ AtReq(c, "revoke", "row") /\ req[c].t = t
                           /\ <<"used", t>> \in since[c]
    OBVIOUS
  <2>1. PICK c \in Caller : RequestStep(c)
    BY NotRequests
  <2>2. Voids(c, t)
    BY <2>1, InviteMoves DEF AccountsKeep, RequestsOK, Uses, Issues
  <2>3. CASE RevokeRow(c) /\ t = req[c].t
    BY <2>3 DEF AccountsKeep, RequestsOK, RevokeRow, RevokeOK
  <2>4. CASE DeleteUserInvites(c) /\ invite[t].by = req[c].u
    BY <2>4 DEF DeleteUserInvites
  <2> QED  BY <2>2, <2>3, <2>4 DEF Voids
<1>2. AccountsKeep => Once
  <2> SUFFICES ASSUME AccountsKeep, NEW c \in Caller, AtReq(c, "reset", "commit")
               PROVE  /\ link[req[c].l].state = "open" /\ ~req[c].expired
                      /\ Alive(link[req[c].l].of)
    OBVIOUS
  <2>1. link[req[c].l].state = "open" /\ ~req[c].expired
    BY DEF AccountsKeep, RequestsOK, ResetOK
  <2>2. req[c].l \in Link
    BY RequestLocals DEF AccountsKeep, RequestsOK, ReqsOK, AtReq
  <2> QED  BY <2>1, <2>2 DEF AccountsKeep, RequestsOK, LinksLead, Stored
<1>3. AccountsKeep => Known
  BY DEF AccountsKeep, RequestsOK, PasswordOK
<1>4. AccountsKeep /\ [AccountsNext]_accountsVars
        => [Stay]_accountsVars /\ [Once]_accountsVars /\ [Known]_accountsVars
  BY <1>1, <1>2, <1>3
<1>5. [][Stay]_accountsVars /\ [][Once]_accountsVars /\ [][Known]_accountsVars
        => CredentialsKept
  BY PTL DEF CredentialsKept, UsedInvitesStay, ResetsSetOnce, PasswordsAreKnown
<1> QED  BY <1>4, <1>5, AccountsInductive, PTL DEF AccountsSpec

\* At its last statement a deletion deletes the users row, or is refused.
LEMMA AtTheRow ==
  ASSUME NEW c \in Caller, AtReq(c, "delete_user", "row"), RequestStep(c)
  PROVE  DeleteUserRow(c)
<1>1. Serving(c) /\ req[c].op = "delete_user" /\ req[c].at = "row"
  BY DEF AtReq, Serving
<1>2. ~Demanded(c)
  BY <1>1, DemandedIs DEF Demand
<1>3. ~Authenticated(c)
  BY <1>1, AuthenticatedIs DEF Authenticate
<1>4. ~Looks(c) /\ ~Sweeps(c)
  BY <1>1 DEF Looks, Sweeps, RegisterInvite, RegisterMail, ResetLink, DropKeyRead, RevokeRead,
              OnUserRead, DeleteUserRead, DeleteUserProjects, DeleteUserItems, AtReq,
              DeleteUserResets, DeleteUserInvites, DeleteUserKeys, DeleteUserPosts
<1>5. Stores(c) => DeleteUserRow(c)
  BY <1>1 DEF Stores, RegisterCommit, ResetCommit, PasswordWrite, NewKeyInsert, DropKeyRow,
              InviteInsert, RevokeRow, IssueInsert, PromoteWrite, AtReq
<1> QED  BY <1>2, <1>3, <1>4, <1>5, RequestKinds

\* delete_user counts projects and items, deletes what it can and leaves the rest
\* to the foreign keys: they refuse the users row only for runs and rollouts, for
\* the invite that the user came by, or for a row written while it was served, be
\* it the event of a call.
THEOREM DeletionsExcused == AccountsSpec => HalfDeletionsAreExcused
<1> DEFINE Excused == \A c \in Caller :
             AtReq(c, "delete_user", "row") /\ req'[c] # req[c] /\ account' = account =>
               LET u == req[c].u IN
               \/ ~Alive(u) \/ crashes' # crashes
               \/ u \in worked \/ \E t \in Token : Stored(invite[t]) /\ invite[t].of = u
               \/ <<"row", u>> \in since[c]
<1>1. AccountsKeep /\ [AccountsNext]_accountsVars => [Excused]_accountsVars
  <2> SUFFICES ASSUME AccountsKeep, [AccountsNext]_accountsVars, NEW c \in Caller,
                      AtReq(c, "delete_user", "row"), req'[c] # req[c], account' = account,
                      Alive(req[c].u), crashes' = crashes, <<"row", req[c].u>> \notin since[c]
               PROVE  \/ req[c].u \in worked
                      \/ \E t \in Token : Stored(invite[t]) /\ invite[t].of = req[c].u
    OBVIOUS
  <2>0. RequestsOK /\ crashes \in Nat
    BY DEF AccountsKeep, HistoryOK
  <2>1. ~AccountsRestart
    BY <2>0 DEF AccountsRestart, Restart
  <2>2. PICK d \in Caller : RequestStep(d)
    BY <2>1, NotRequests
  <2>3. d = c
    BY <2>0, <2>2, OthersNote DEF RequestsOK
  <2>4. DeleteUserRow(c)
    BY <2>2, <2>3, AtTheRow
  <2>5. req[c].u \in User
    BY <2>0, RequestLocals DEF RequestsOK, ReqsOK, AtReq
  <2>6. Referenced(req[c].u)
    <3>1. ASSUME account' = [account EXCEPT ![req[c].u].state = "gone"]
          PROVE  FALSE
      <4>1. account'[req[c].u].state = "gone"
        BY <2>0, <2>5, <3>1 DEF RequestsOK, AccountRowsOK, Account
      <4> QED  BY <4>1 DEF Alive
    <3> QED  BY <2>4, <3>1 DEF DeleteUserRow
  <2>7. SweepOK(c) /\ req[c].op = "delete_user" /\ req[c].at = "row"
    BY <2>0 DEF RequestsOK, AtReq
  <2>9. req[c].u \notin told
    BY DEF AccountsKeep, EventsOK
  <2>8. /\ ~OwnsProject(req[c].u) /\ ~OwnsItem(req[c].u)
        /\ \A l \in Link : Stored(link[l]) => link[l].of # req[c].u
        /\ \A t \in Token : Stored(invite[t]) => invite[t].by # req[c].u
        /\ \A k \in Key : key[k] # [state |-> "open", of |-> req[c].u]
        /\ \A k \in Child : child[k] # Nil => author[k] # req[c].u
    BY <2>7 DEF SweepOK
  <2> QED  BY <2>6, <2>8, <2>9 DEF Referenced
<1>2. [][Excused]_accountsVars => HalfDeletionsAreExcused
  BY PTL DEF HalfDeletionsAreExcused
<1> QED  BY <1>1, <1>2, AccountsInductive, PTL DEF AccountsSpec

=============================================================================
