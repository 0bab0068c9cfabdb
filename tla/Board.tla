------------------------------- MODULE Board -------------------------------
(***************************************************************************)
(* The board: projects and their members, items, the blockers between      *)
(* items, notes and comments, attachments and their files, and the service *)
(* calls that change them.                                                 *)
(*                                                                         *)
(* A service call is a sequence of SQL statements with an await before     *)
(* each one and no transaction around them: an action is one statement and *)
(* the Python code up to the next.  So a call decides on rows it has read  *)
(* and writes when they may have changed.  The re-read at the end of a     *)
(* call and the event it publishes change no row here (EventStream has the *)
(* events, and Accounts what is asked of the users they name).             *)
(***************************************************************************)
EXTENDS Naturals, FiniteSets

CONSTANTS
  User, Project, Item,
  Owner,     \* [Project -> User], projects.user_id
  Child,     \* ids for notes and comments
  File,      \* ids for attachments
  Agent,     \* values of items.assigned_to other than ''
  Nil,       \* no project, no assignee, no row
  Caller,    \* calls served at the same time
  Mixes,     \* a bound: a behaviour has the users and operations of one of these sets
  MaxCalls, MaxCrashes  \* bounds: calls made, restarts

ASSUME BoardAssumption ==
  /\ Owner \in [Project -> User]
  /\ Nil \notin User \cup Project \cup Item \cup Child \cup File \cup Agent
  /\ Item \cap Project = {}
  /\ MaxCalls \in Nat /\ MaxCrashes \in Nat

VARIABLES
  project,  \* [Project -> [live, workspace, repos : BOOLEAN]]
  members,  \* SUBSET (Project \X User), project_members
  item,     \* [Item -> Row], items; an id is used once
  deps,     \* SUBSET (Item \X Item), item_dependencies: <<item, blocker>>
  child,    \* [Child -> Item \cup Project \cup {Nil}], where a note or comment is
  row,      \* [File -> Item \cup {Nil}], attachments
  disk,     \* [File -> Item \cup {Nil}], the files under the attachments root
  call,     \* [Caller -> Call], the calls being served and their locals
  used,     \* SUBSET (Child \cup File \cup Project), the ids given out: uuid4 repeats none
  asked, crashes, mix,
  \* History, read by the properties only:
  late,     \* [Caller -> SUBSET Object], what others wrote since the call began
  raced,    \* pairs of edges whose second was written while the first was asked for
  strayed,  \* edges with an end that was moved since the edge was asked for
  torn,     \* projects last written by a call that had read an older row
  excused   \* attachments whose file or row a crash or a project took

tables  == <<project, members, item, deps, child, row, disk>>
history == <<raced, strayed, torn, excused>>
vars    == <<tables, call, used, asked, crashes, mix, late, history>>

-----------------------------------------------------------------------------
Edge   == Item \X Item
Object == Item \cup Project \cup Edge
Engine == {"unset", "e1", "e2"}
Status == {"new", "active", "done"}  \* done or cancelled, active, any other
\* items: the columns that some call decides on
Row    == [state : {"unused", "live", "gone"}, project : Project \cup {Nil},
           owner : User \cup {Nil}, status : Status, assigned : Agent \cup {Nil},
           engine : Engine, version : Nat, locked : BOOLEAN]
ProjectRow == [live : BOOLEAN, workspace : BOOLEAN, repos : BOOLEAN]
Field      == {"yes", "no", "keep"}  \* a field of a request, "keep" when not given
Unused == [state |-> "unused", project |-> Nil, owner |-> Nil, status |-> "new",
           assigned |-> Nil, engine |-> "unset", version |-> 1, locked |-> FALSE]
NewRow(u, p) == [Unused EXCEPT !.state = "live", !.owner = u, !.project = p]

\* What an update asks for: the fields of the request that matter here.
Want == [set : {"status"}, to : Status] \cup [set : {"assigned"}, to : Agent \cup {Nil}]
          \cup [set : {"project"}, to : Project \cup {Nil}]
          \cup [set : {"engine"}, to : Engine, plan : BOOLEAN]
AnyVersion == 0  \* the request carries no version

NoCall == [op |-> "none"]
Live(i) == item[i].state = "live"
Busy(c) == call[c].op # "none"

\* verify_project_access and get_item: the caller's own item, or one of a
\* project the caller owns or is a member of.
Access(u, p)  == project[p].live /\ (Owner[p] = u \/ <<p, u>> \in members)
Visible(u, i) == /\ Live(i)
                 /\ IF item[i].project = Nil THEN item[i].owner = u
                    ELSE Access(u, item[i].project)
Crosses(e) == item[e[1]].project # item[e[2]].project
Touches(e, i) == e[1] = i \/ e[2] = i

\* The locals of each call.
CreateCall == [op : {"create"}, at : {"access", "insert"}, by : User, p : Project \cup {Nil}]
UpdateCall == [op : {"update", "claim"}, at : {"check", "read", "blockers", "access", "write"},
               by : User, i : Item, want : Want, version : Nat, row : Row \cup {Nil}]
DeleteCall == [op : {"delete"}, at : {"read", "row", "files"}, by : User, i : Item,
               http : BOOLEAN]
AddBlockerCall == [op : {"add_blocker"}, at : {"item", "blocker", "existing", "walk", "insert"},
                   by : User, i : Item, b : Item, p : Project \cup {Nil},
                   seen : SUBSET Item, queue : SUBSET Item]
RemoveBlockerCall == [op : {"remove_blocker"}, at : {"read", "row"}, by : User, i : Item,
                      b : Item]
ShareCall == [op : {"share"}, at : {"owner", "existing", "count", "insert", "edges", "purge"},
              by : User, p : Project, m : User, first : BOOLEAN, doomed : SUBSET Edge]
UnshareCall == [op : {"unshare"}, at : {"owner", "row"}, by : User, p : Project, m : User]
UpdateProjectCall == [op : {"update_project"}, at : {"read", "write"}, by : User, p : Project,
                      mode : Field, repos : Field, row : ProjectRow \cup {Nil}]
CreateProjectCall == [op : {"create_project"}, at : {"insert"}, by : User, p : Project,
                      workspace : BOOLEAN, repos : BOOLEAN]
DeleteProjectCall == [op : {"delete_project"}, at : {"owner", "row"}, by : User, p : Project]
PostCall == [op : {"post"}, at : {"access", "insert"}, by : User, k : Child,
             to : Item \cup Project]
UnpostCall == [op : {"unpost"}, at : {"read", "row"}, by : User, k : Child]
UploadCall == [op : {"upload"}, at : {"access", "file", "row"}, by : User, f : File, i : Item]
DeleteFileCall == [op : {"delete_file"}, at : {"read", "access", "row"}, by : User, f : File,
                   i : Item \cup {Nil}]

Call ==
  {NoCall} \cup CreateCall \cup UpdateCall \cup DeleteCall \cup AddBlockerCall
    \cup RemoveBlockerCall \cup ShareCall \cup UnshareCall \cup UpdateProjectCall
    \cup CreateProjectCall \cup DeleteProjectCall \cup PostCall \cup UnpostCall
    \cup UploadCall \cup DeleteFileCall

TypeOK ==
  /\ project \in [Project -> ProjectRow]
  /\ members \subseteq Project \X User
  /\ item \in [Item -> Row]
  /\ deps \subseteq Edge
  /\ child \in [Child -> Item \cup Project \cup {Nil}]
  /\ row \in [File -> Item \cup {Nil}]
  /\ disk \in [File -> Item \cup {Nil}]
  /\ call \in [Caller -> Call]
  /\ used \subseteq Child \cup File \cup Project /\ asked \in Nat /\ crashes \in Nat
  /\ late \in [Caller -> SUBSET Object]
  /\ raced \subseteq Edge \X Edge
  /\ strayed \subseteq Edge /\ torn \subseteq Project /\ excused \subseteq File

Init ==
  /\ project \in [Project -> [live : BOOLEAN, workspace : {FALSE}, repos : {FALSE}]]
  /\ item \in [Item -> {Unused} \cup
                       {NewRow(Owner[p], p) : p \in {q \in Project : project[q].live}}]
  /\ members = {} /\ deps = {}
  /\ child = [k \in Child |-> Nil]
  /\ row = [f \in File |-> Nil] /\ disk = [f \in File |-> Nil]
  /\ call = [c \in Caller |-> NoCall]
  /\ used = {p \in Project : project[p].live} /\ mix \in Mixes
  /\ asked \in 0 .. MaxCalls /\ crashes = 0
  /\ late = [c \in Caller |-> {}]
  /\ raced = {} /\ strayed = {} /\ torn = {} /\ excused = {}

-----------------------------------------------------------------------------
(* The course of a call *)

Ask(c, r) ==
  /\ ~Busy(c) /\ asked < MaxCalls /\ {r.op, r.by} \subseteq mix
  /\ call' = [call EXCEPT ![c] = r]
  /\ asked' = asked + 1
  /\ used' = used \cup CASE r.op = "upload" -> {r.f} [] r.op = "post" -> {r.k}
                          [] r.op = "create_project" -> {r.p} [] OTHER -> {}
  /\ UNCHANGED <<tables, crashes, mix, late, history>>

\* The next statement is at, or the call is over.
Go(c, at) == call' = [call EXCEPT ![c].at = at]
End(c)    == call' = [call EXCEPT ![c] = NoCall]

\* The calls in progress, c aside, have now seen older rows than these.
Wrote(c, objects) ==
  late' = [d \in Caller |->
             IF d = c THEN IF call'[c].op = "none" THEN {} ELSE late[c]
             ELSE IF Busy(d) THEN late[d] \cup objects ELSE {}]

Steady == UNCHANGED <<used, asked, crashes, mix>>
\* A statement that only reads: the call goes on, or is refused.
ReadStep(c) == UNCHANGED <<tables, history>> /\ Steady /\ Wrote(c, {})

At(c, op, at) == call[c].op = op /\ call[c].at = at

MutantCascade(items) ==
  /\ item' = [i \in Item |-> IF i \in items THEN [item[i] EXCEPT !.state = "gone"]
                             ELSE item[i]]
  /\ deps' = {e \in deps : e[1] \notin items}
  /\ row' = [f \in File |-> IF row[f] \in items THEN Nil ELSE row[f]]

\* ON DELETE CASCADE: what goes with a set of items.
Cascade(items) ==
  /\ item' = [i \in Item |-> IF i \in items THEN [item[i] EXCEPT !.state = "gone"]
                             ELSE item[i]]
  /\ deps' = {e \in deps : e[1] \notin items /\ e[2] \notin items}
  /\ row' = [f \in File |-> IF row[f] \in items THEN Nil ELSE row[f]]

-----------------------------------------------------------------------------
(* create_item, create_project_item, inbox_capture *)

AskCreate(c) ==
  \E u \in User, p \in Project \cup {Nil} :
    Ask(c, [op |-> "create", at |-> IF p = Nil THEN "insert" ELSE "access", by |-> u, p |-> p])

CreateAccess(c) ==
  /\ At(c, "create", "access")
  /\ IF Access(call[c].by, call[c].p) THEN Go(c, "insert") ELSE End(c)
  /\ ReadStep(c)

\* A project deleted in between fails the foreign key.
CreateInsert(c) ==
  /\ At(c, "create", "insert")
  /\ End(c)
  /\ IF call[c].p # Nil /\ ~project[call[c].p].live
     THEN UNCHANGED tables /\ Wrote(c, {})
     ELSE \E i \in Item : 
            /\ item[i].state = "unused"
            /\ item' = [item EXCEPT ![i] = NewRow(call[c].by, call[c].p)]
            /\ UNCHANGED <<project, members, deps, child, row, disk>>
            /\ Wrote(c, {i})
  /\ UNCHANGED history /\ Steady

-----------------------------------------------------------------------------
(* update_item, complete_item, claim_item, release_item *)

AskUpdate(c) ==
  \E u \in User, i \in Item, w \in Want, v \in {AnyVersion} \cup 1..(MaxCalls + 1) :
    w.set \in mix /\ (v # AnyVersion => "version" \in mix) /\
    Ask(c, [op |-> "update", at |-> "read", by |-> u, i |-> i, want |-> w, version |-> v,
            row |-> Nil])

\* claim_item reads the item first, and update_item reads it again.
AskClaim(c) ==
  \E u \in User, i \in Item, a \in Agent :
    Ask(c, [op |-> "claim", at |-> "check", by |-> u, i |-> i,
            want |-> [set |-> "assigned", to |-> a], version |-> AnyVersion, row |-> Nil])

MutantClaimCheck(c) ==
  /\ At(c, "claim", "check")
  /\ IF Visible(call[c].by, call[c].i) THEN Go(c, "read") ELSE End(c)
  /\ ReadStep(c)

ClaimCheck(c) ==
  /\ At(c, "claim", "check")
  /\ LET i == call[c].i IN
     IF Visible(call[c].by, i) /\ item[i].assigned = Nil THEN Go(c, "read") ELSE End(c)
  /\ ReadStep(c)

\* A plan run may set a build engine that is unset, not change one.
OverridesEngine(r, w) ==
  w.set = "engine" /\ w.plan /\ r.engine # "unset" /\ w.to # r.engine
Unresolved(i) == {b \in Item : <<i, b>> \in deps /\ item[b].status # "done"}

\* What the row that was read refuses.
UpdateRefused(r, w, v) ==
  \/ OverridesEngine(r, w)
  \/ v # AnyVersion /\ v # r.version
  \/ w.set = "project" /\ r.locked

UpdateRead(c) ==
  /\ call[c].op \in {"update", "claim"} /\ call[c].at = "read"
  /\ LET i == call[c].i  w == call[c].want IN
     IF ~Visible(call[c].by, i) \/ UpdateRefused(item[i], w, call[c].version) THEN End(c)
     ELSE call' = [call EXCEPT ![c].row = item[i],
                               ![c].at = IF w.set = "status" /\ w.to = "active"
                                              /\ item[i].status # "active" THEN "blockers"
                                         ELSE IF w.set = "project" /\ w.to # Nil THEN "access"
                                         ELSE "write"]
  /\ ReadStep(c)

UpdateBlockers(c) ==
  /\ call[c].op = "update" /\ call[c].at = "blockers"
  /\ IF Unresolved(call[c].i) = {} THEN Go(c, "write") ELSE End(c)
  /\ ReadStep(c)

UpdateAccess(c) ==
  /\ call[c].op = "update" /\ call[c].at = "access"
  /\ IF Access(call[c].by, call[c].want.to) THEN Go(c, "write") ELSE End(c)
  /\ ReadStep(c)

Updated(r, w) ==
  LET s == [r EXCEPT !.version = @ + 1] IN
  CASE w.set = "status"   -> [s EXCEPT !.status = w.to]
    [] w.set = "assigned" -> [s EXCEPT !.assigned = w.to]
    [] w.set = "project"  -> [s EXCEPT !.project = w.to]
    [] w.set = "engine"   -> [s EXCEPT !.engine = w.to]

\* UPDATE items SET ..., version = version + 1 WHERE id: no other condition.
UpdateWrite(c) ==
  /\ call[c].op \in {"update", "claim"} /\ call[c].at = "write"
  /\ End(c)
  /\ LET i == call[c].i  w == call[c].want IN
     IF ~Live(i) \/ (w.set = "project" /\ w.to # Nil /\ ~project[w.to].live)
     THEN UNCHANGED <<tables, strayed>> /\ Wrote(c, {})
     ELSE /\ item' = [item EXCEPT ![i] = Updated(@, w)]
          /\ strayed' = IF item'[i].project = item[i].project THEN strayed
                        ELSE strayed \cup {e \in deps : Touches(e, i)}
          /\ UNCHANGED <<project, members, deps, child, row, disk>>
          /\ Wrote(c, {i})
  /\ UNCHANGED <<raced, torn, excused>> /\ Steady

\* A rollout that starts or ends: lock_items_for_rollout and the releases.
RolloutLocks(c) ==
  /\ ~Busy(c) /\ asked < MaxCalls /\ "lock" \in mix
  /\ \E i \in Item : /\ Live(i)
                     /\ item' = [item EXCEPT ![i].locked = ~@]
                     /\ UNCHANGED call
                     /\ Wrote(c, {i})
  /\ asked' = asked + 1
  /\ UNCHANGED <<project, members, deps, child, row, disk, used, crashes, mix, history>>

-----------------------------------------------------------------------------
(* delete_item: the row with what cascades, then, over HTTP, its files *)

AskDelete(c) ==
  \E u \in User, i \in Item, http \in BOOLEAN :
    Ask(c, [op |-> "delete", at |-> "read", by |-> u, i |-> i, http |-> http])

DeleteRead(c) ==
  /\ At(c, "delete", "read")
  /\ IF Visible(call[c].by, call[c].i) THEN Go(c, "row") ELSE End(c)
  /\ ReadStep(c)

\* The stdio backend deletes the row only.
DeleteRow(c) ==
  /\ At(c, "delete", "row")
  /\ LET i == call[c].i IN
     /\ IF call[c].http THEN Go(c, "files") ELSE End(c)
     /\ Cascade({i} \cap {j \in Item : Live(j)})
     /\ child' = [k \in Child |-> IF child[k] = i THEN Nil ELSE child[k]]
     /\ excused' = IF call[c].http THEN excused
                   ELSE excused \cup {f \in File : disk[f] = i}
     /\ Wrote(c, {i})
  /\ UNCHANGED <<project, members, disk, raced, strayed, torn>> /\ Steady

\* delete_item_files: rmtree of the item's directory
DeleteFiles(c) ==
  /\ At(c, "delete", "files")
  /\ End(c)
  /\ disk' = [f \in File |-> IF disk[f] = call[c].i THEN Nil ELSE disk[f]]
  /\ UNCHANGED <<project, members, item, deps, child, row, history>>
  /\ Steady /\ Wrote(c, {})

-----------------------------------------------------------------------------
(* add_blocker and remove_blocker *)

AskAddBlocker(c) ==
  \E u \in User, i, b \in Item :
    i # b /\ Ask(c, [op |-> "add_blocker", at |-> "item", by |-> u, i |-> i, b |-> b,
                     p |-> Nil, seen |-> {}, queue |-> {}])

AddReadItem(c) ==
  /\ At(c, "add_blocker", "item")
  /\ IF Visible(call[c].by, call[c].i)
     THEN call' = [call EXCEPT ![c].at = "blocker", ![c].p = item[call[c].i].project]
     ELSE End(c)
  /\ ReadStep(c)

\* cross-project blockers are not allowed
AddReadBlocker(c) ==
  /\ At(c, "add_blocker", "blocker")
  /\ LET b == call[c].b IN
     IF Visible(call[c].by, b) /\ item[b].project = call[c].p THEN Go(c, "existing") ELSE End(c)
  /\ ReadStep(c)

AddExisting(c) ==
  /\ At(c, "add_blocker", "existing")
  /\ IF <<call[c].i, call[c].b>> \in deps THEN End(c)
     ELSE call' = [call EXCEPT ![c].at = "walk", ![c].seen = {call[c].b},
                               ![c].queue = {call[c].b}]
  /\ ReadStep(c)

\* _would_create_cycle: one round of its loop, one SELECT
AddWalk(c) ==
  /\ At(c, "add_blocker", "walk")
  /\ LET r == call[c] IN
     IF r.queue = {} THEN Go(c, "insert")
     ELSE \E n \in r.queue :
            LET next == {b \in Item : <<n, b>> \in deps} IN
            IF r.i \in next THEN End(c)
            ELSE call' = [call EXCEPT ![c].seen = @ \cup next,
                                      ![c].queue = (@ \cup (next \ r.seen)) \ {n}]
  /\ ReadStep(c)

\* The row is a new one: a purge that has an older one's id does not delete it.
EndAdding(c, e) ==
  call' = [d \in Caller |->
             IF d = c THEN NoCall
             ELSE IF call[d].op = "share" THEN [call[d] EXCEPT !.doomed = @ \ {e}]
             ELSE call[d]]

\* UNIQUE (item_id, blocker_item_id) and the foreign keys may refuse the row.
AddInsert(c) ==
  /\ At(c, "add_blocker", "insert")
  /\ LET i == call[c].i  b == call[c].b  e == <<i, b>> IN
     IF ~Live(i) \/ ~Live(b) \/ e \in deps
     THEN End(c) /\ UNCHANGED <<tables, raced, strayed>> /\ Wrote(c, {})
     ELSE /\ EndAdding(c, e)
          /\ deps' = deps \cup {e}
          /\ raced' = {q \in raced : q[1] # e /\ q[2] # e}
                        \cup {<<e, f>> : f \in late[c] \cap Edge}
          /\ strayed' = IF {i, b} \cap late[c] # {} THEN strayed \cup {e} ELSE strayed \ {e}
          /\ UNCHANGED <<project, members, item, child, row, disk>>
          /\ Wrote(c, {e})
  /\ UNCHANGED <<torn, excused>> /\ Steady

AskRemoveBlocker(c) ==
  \E u \in User, i, b \in Item :
    Ask(c, [op |-> "remove_blocker", at |-> "read", by |-> u, i |-> i, b |-> b])

RemoveRead(c) ==
  /\ At(c, "remove_blocker", "read")
  /\ IF Visible(call[c].by, call[c].i) THEN Go(c, "row") ELSE End(c)
  /\ ReadStep(c)

RemoveRow(c) ==
  /\ At(c, "remove_blocker", "row")
  /\ End(c)
  /\ deps' = deps \ {<<call[c].i, call[c].b>>}
  /\ UNCHANGED <<project, members, item, child, row, disk, history>>
  /\ Steady /\ Wrote(c, {})

-----------------------------------------------------------------------------
(* add_project_member and remove_project_member *)

AskShare(c) ==
  \E u, m \in User, p \in Project :
    u # m /\ Ask(c, [op |-> "share", at |-> "owner", by |-> u, p |-> p, m |-> m,
                     first |-> FALSE, doomed |-> {}])

\* verify_project_ownership; the member is a user and not the owner
ShareOwner(c) ==
  /\ At(c, "share", "owner")
  /\ IF project[call[c].p].live /\ Owner[call[c].p] = call[c].by THEN Go(c, "existing")
     ELSE End(c)
  /\ ReadStep(c)

ShareExisting(c) ==
  /\ At(c, "share", "existing")
  /\ IF <<call[c].p, call[c].m>> \in members THEN End(c) ELSE Go(c, "count")
  /\ ReadStep(c)

ShareCount(c) ==
  /\ At(c, "share", "count")
  /\ LET r == call[c] IN
     call' = [call EXCEPT ![c].at = "insert",
                          ![c].first = ~\E m \in User : <<r.p, m>> \in members]
  /\ ReadStep(c)

\* The primary key and the foreign key may refuse the row.
ShareInsert(c) ==
  /\ At(c, "share", "insert")
  /\ LET p == call[c].p  m == call[c].m IN
     IF ~project[p].live \/ <<p, m>> \in members
     THEN End(c) /\ UNCHANGED members
     ELSE /\ IF call[c].first THEN Go(c, "edges") ELSE End(c)
          /\ members' = members \cup {<<p, m>>}
  /\ UNCHANGED <<project, item, deps, child, row, disk, history>>
  /\ Steady /\ Wrote(c, {})

\* The first member: SELECT the cross-project edges that touch the project.
MutantCrossingEdges(p) == {e \in deps : Crosses(e) /\ item[e[1]].project = p}
CrossingEdges(p) ==
  {e \in deps : Crosses(e) /\ p \in {item[e[1]].project, item[e[2]].project}}

ShareEdges(c) ==
  /\ At(c, "share", "edges")
  /\ call' = [call EXCEPT ![c].at = "purge", ![c].doomed = CrossingEdges(call[c].p)]
  /\ strayed' = {e \in strayed : call[c].p \notin {item[e[1]].project, item[e[2]].project}}
  /\ UNCHANGED <<tables, raced, torn, excused>>
  /\ Steady /\ Wrote(c, {})

\* One DELETE for each, by the id of the row.
SharePurge(c) ==
  /\ At(c, "share", "purge")
  /\ \/ call[c].doomed = {} /\ End(c) /\ UNCHANGED deps
     \/ \E e \in call[c].doomed : /\ deps' = deps \ {e}
                                  /\ call' = [call EXCEPT ![c].doomed = @ \ {e}]
  /\ UNCHANGED <<project, members, item, child, row, disk, history>>
  /\ Steady /\ Wrote(c, {})

AskUnshare(c) ==
  \E u, m \in User, p \in Project :
    Ask(c, [op |-> "unshare", at |-> "owner", by |-> u, p |-> p, m |-> m])

UnshareOwner(c) ==
  /\ At(c, "unshare", "owner")
  /\ IF project[call[c].p].live /\ Owner[call[c].p] = call[c].by THEN Go(c, "row") ELSE End(c)
  /\ ReadStep(c)

UnshareRow(c) ==
  /\ At(c, "unshare", "row")
  /\ End(c)
  /\ members' = members \ {<<call[c].p, call[c].m>>}
  /\ UNCHANGED <<project, item, deps, child, row, disk, history>>
  /\ Steady /\ Wrote(c, {})

-----------------------------------------------------------------------------
(* create_project, update_project and delete_project *)

\* _validate_workspace_fields: a workspace has a URL.
AskCreateProject(c) ==
  \E u \in User, p \in Project, workspace, repos \in BOOLEAN :
    /\ p \notin used /\ Owner[p] = u /\ (workspace => repos)
    /\ Ask(c, [op |-> "create_project", at |-> "insert", by |-> u, p |-> p,
               workspace |-> workspace, repos |-> repos])

CreateProjectInsert(c) ==
  /\ At(c, "create_project", "insert")
  /\ End(c)
  /\ project' = [project EXCEPT ![call[c].p] =
                   [live |-> TRUE, workspace |-> call[c].workspace, repos |-> call[c].repos]]
  /\ UNCHANGED <<members, item, deps, child, row, disk, history>>
  /\ Steady /\ Wrote(c, {call[c].p})

AskUpdateProject(c) ==
  \E u \in User, p \in Project, mode, repos \in Field :
    Ask(c, [op |-> "update_project", at |-> "read", by |-> u, p |-> p, mode |-> mode,
            repos |-> repos, row |-> Nil])

Effective(new, old) == IF new = "keep" THEN old ELSE new = "yes"

\* _validate_workspace_fields on the row as it will be.
ProjectRead(c) ==
  /\ At(c, "update_project", "read")
  /\ LET r == call[c]  old == project[r.p] IN
     IF Access(r.by, r.p)
          /\ (Effective(r.mode, old.workspace) => Effective(r.repos, old.repos))
     THEN call' = [call EXCEPT ![c].at = "write", ![c].row = old]
     ELSE End(c)
  /\ ReadStep(c)

ProjectWrite(c) ==
  /\ At(c, "update_project", "write")
  /\ End(c)
  /\ LET r == call[c]  p == r.p IN
     IF ~project[p].live
     THEN UNCHANGED <<tables, torn>> /\ Wrote(c, {})
     ELSE /\ project' = [project EXCEPT ![p].workspace = Effective(r.mode, @),
                                        ![p].repos = Effective(r.repos, @)]
          /\ torn' = IF r.row # project[p] THEN torn \cup {p} ELSE torn \ {p}
          /\ UNCHANGED <<members, item, deps, child, row, disk>>
          /\ Wrote(c, {p})
  /\ UNCHANGED <<raced, strayed, excused>> /\ Steady

AskDeleteProject(c) ==
  \E u \in User, p \in Project :
    Ask(c, [op |-> "delete_project", at |-> "owner", by |-> u, p |-> p])

DeleteProjectOwner(c) ==
  /\ At(c, "delete_project", "owner")
  /\ IF project[call[c].p].live /\ Owner[call[c].p] = call[c].by THEN Go(c, "row") ELSE End(c)
  /\ ReadStep(c)

\* The items go, and what hangs on them; nobody removes their files.
DeleteProjectRow(c) ==
  /\ At(c, "delete_project", "row")
  /\ End(c)
  /\ LET p == call[c].p  its == {i \in Item : Live(i) /\ item[i].project = p} IN
     /\ project' = [project EXCEPT ![p].live = FALSE]
     /\ members' = {m \in members : m[1] # p}
     /\ Cascade(its)
     /\ child' = [k \in Child |-> IF child[k] \in its \cup {p} THEN Nil ELSE child[k]]
     /\ excused' = excused \cup {f \in File : disk[f] \in its}
     /\ Wrote(c, its \cup {p})
  /\ UNCHANGED <<disk, raced, strayed, torn>> /\ Steady

-----------------------------------------------------------------------------
(* Notes and comments: a note hangs on a project, a comment on either *)

AskPost(c) ==
  \E u \in User, k \in Child, to \in Item \cup Project :
    k \notin used /\ Ask(c, [op |-> "post", at |-> "access", by |-> u, k |-> k, to |-> to])

PostAccess(c) ==
  /\ At(c, "post", "access")
  /\ LET u == call[c].by  to == call[c].to IN
     IF (to \in Item /\ Visible(u, to)) \/ (to \in Project /\ Access(u, to))
     THEN Go(c, "insert") ELSE End(c)
  /\ ReadStep(c)

\* The foreign key refuses a parent deleted in between.
PostInsert(c) ==
  /\ At(c, "post", "insert")
  /\ End(c)
  /\ LET to == call[c].to IN
     child' = IF (to \in Item /\ Live(to)) \/ (to \in Project /\ project[to].live)
              THEN [child EXCEPT ![call[c].k] = to] ELSE child
  /\ UNCHANGED <<project, members, item, deps, row, disk, history>>
  /\ Steady /\ Wrote(c, {})

AskUnpost(c) ==
  \E u \in User, k \in Child : Ask(c, [op |-> "unpost", at |-> "read", by |-> u, k |-> k])

\* get_note or get_comment: a note of an accessible project, one's own comment.
UnpostRead(c) ==
  /\ At(c, "unpost", "read")
  /\ (child[call[c].k] # Nil /\ Go(c, "row")) \/ End(c)
  /\ ReadStep(c)

UnpostRow(c) ==
  /\ At(c, "unpost", "row")
  /\ End(c)
  /\ child' = [child EXCEPT ![call[c].k] = Nil]
  /\ UNCHANGED <<project, members, item, deps, row, disk, history>>
  /\ Steady /\ Wrote(c, {})

-----------------------------------------------------------------------------
(* Attachments: the file first, then the row, both ways *)

AskUpload(c) ==
  \E u \in User, f \in File, i \in Item :
    f \notin used /\ Ask(c, [op |-> "upload", at |-> "access", by |-> u, f |-> f, i |-> i])

UploadAccess(c) ==
  /\ At(c, "upload", "access")
  /\ IF Visible(call[c].by, call[c].i) THEN Go(c, "file") ELSE End(c)
  /\ ReadStep(c)

\* After the last chunk: ensure_item_dir and write_bytes.
UploadFile(c) ==
  /\ At(c, "upload", "file")
  /\ Go(c, "row")
  /\ disk' = [disk EXCEPT ![call[c].f] = call[c].i]
  /\ UNCHANGED <<project, members, item, deps, child, row, history>>
  /\ Steady /\ Wrote(c, {})

MutantUploadRow(c) ==
  /\ At(c, "upload", "row")
  /\ End(c)
  /\ LET f == call[c].f  i == call[c].i IN
     row' = IF Live(i) THEN [row EXCEPT ![f] = i] ELSE row
  /\ UNCHANGED <<project, members, item, deps, child, disk, history>>
  /\ Steady /\ Wrote(c, {})

\* When the row is refused the file is removed.
UploadRow(c) ==
  /\ At(c, "upload", "row")
  /\ End(c)
  /\ LET f == call[c].f  i == call[c].i IN
     IF Live(i) THEN row' = [row EXCEPT ![f] = i] /\ UNCHANGED disk
     ELSE disk' = [disk EXCEPT ![f] = Nil] /\ UNCHANGED row
  /\ UNCHANGED <<project, members, item, deps, child, history>>
  /\ Steady /\ Wrote(c, {})

AskDeleteFile(c) ==
  \E u \in User, f \in File :
    Ask(c, [op |-> "delete_file", at |-> "read", by |-> u, f |-> f, i |-> Nil])

DeleteFileRead(c) ==
  /\ At(c, "delete_file", "read")
  /\ IF row[call[c].f] = Nil THEN End(c)
     ELSE call' = [call EXCEPT ![c].at = "access", ![c].i = row[call[c].f]]
  /\ ReadStep(c)

\* With access to the item, the file goes before the next await.
DeleteFileAccess(c) ==
  /\ At(c, "delete_file", "access")
  /\ IF Visible(call[c].by, call[c].i)
     THEN Go(c, "row") /\ disk' = [disk EXCEPT ![call[c].f] = Nil]
     ELSE End(c) /\ UNCHANGED disk
  /\ UNCHANGED <<project, members, item, deps, child, row, history>>
  /\ Steady /\ Wrote(c, {})

DeleteFileRow(c) ==
  /\ At(c, "delete_file", "row")
  /\ End(c)
  /\ row' = [row EXCEPT ![call[c].f] = Nil]
  /\ UNCHANGED <<project, members, item, deps, child, disk, history>>
  /\ Steady /\ Wrote(c, {})

-----------------------------------------------------------------------------
(* The process ends, with every call in it, and starts again *)

\* init_db ends with _sweep_cross_project_blockers, before any call is served.
Restart ==
  /\ crashes < MaxCrashes
  /\ crashes' = crashes + 1
  /\ call' = [c \in Caller |-> NoCall]
  /\ late' = [c \in Caller |-> {}]
  /\ deps' = {e \in deps : ~Crosses(e)}
  /\ excused' = excused \cup {f \in File : row[f] # disk[f]}
  /\ UNCHANGED <<project, members, item, child, row, disk, used, asked, mix, raced, strayed, torn>>

CallStep(c) ==
  \/ AskCreate(c) \/ CreateAccess(c) \/ CreateInsert(c)
  \/ AskUpdate(c) \/ AskClaim(c) \/ ClaimCheck(c)
  \/ UpdateRead(c) \/ UpdateBlockers(c) \/ UpdateAccess(c) \/ UpdateWrite(c)
  \/ RolloutLocks(c)
  \/ AskDelete(c) \/ DeleteRead(c) \/ DeleteRow(c) \/ DeleteFiles(c)
  \/ AskAddBlocker(c) \/ AddReadItem(c) \/ AddReadBlocker(c) \/ AddExisting(c)
  \/ AddWalk(c) \/ AddInsert(c)
  \/ AskRemoveBlocker(c) \/ RemoveRead(c) \/ RemoveRow(c)
  \/ AskShare(c) \/ ShareOwner(c) \/ ShareExisting(c) \/ ShareCount(c) \/ ShareInsert(c)
  \/ ShareEdges(c) \/ SharePurge(c)
  \/ AskUnshare(c) \/ UnshareOwner(c) \/ UnshareRow(c)
  \/ AskCreateProject(c) \/ CreateProjectInsert(c)
  \/ AskUpdateProject(c) \/ ProjectRead(c) \/ ProjectWrite(c)
  \/ AskDeleteProject(c) \/ DeleteProjectOwner(c) \/ DeleteProjectRow(c)
  \/ AskPost(c) \/ PostAccess(c) \/ PostInsert(c)
  \/ AskUnpost(c) \/ UnpostRead(c) \/ UnpostRow(c)
  \/ AskUpload(c) \/ UploadAccess(c) \/ UploadFile(c) \/ UploadRow(c)
  \/ AskDeleteFile(c) \/ DeleteFileRead(c) \/ DeleteFileAccess(c) \/ DeleteFileRow(c)

Next == Restart \/ \E c \in Caller : CallStep(c)
Spec == Init /\ [][Next]_vars

-----------------------------------------------------------------------------
(* Properties *)

\* Every row refers to rows there are, whatever is deleted while it is being
\* written: blockers, notes, comments, attachments, members, items of projects.
Coherent ==
  /\ \A e \in deps : Live(e[1]) /\ Live(e[2])
  /\ \A f \in File : row[f] # Nil => Live(row[f])
  /\ \A k \in Child : /\ child[k] \in Item => Live(child[k])
                      /\ child[k] \in Project => project[child[k]].live
  /\ \A m \in members : project[m[1]].live
  /\ \A i \in Item : Live(i) /\ item[i].project # Nil => project[item[i].project].live

\* An attachment has its row and its file, or neither, unless the call that is
\* changing one of them is still at it: an upload cleans up after a row that is
\* refused, and a deletion races neither with it nor with another deletion.
\* Only a restart half-way, a deleted project and the stdio backend leave one.
FilesMatchRows ==
  \A f \in File : row[f] = disk[f] \/ f \in excused \/
    \E c \in Caller :
      \/ At(c, "upload", "row") /\ call[c].f = f
      \/ At(c, "delete", "files") /\ call[c].i = disk[f]
      \/ At(c, "delete_file", "row") /\ call[c].f = f

\* Blockers form no cycle, unless two calls that added edges of the cycle were
\* served at the same time: the walk and the INSERT are separate statements.
CyclesAreRaced ==
  \A cycle \in SUBSET deps :
    cycle # {} /\ (\A e \in cycle : \E f \in cycle : f[1] = e[2])
      => \E e, f \in cycle : <<e, f>> \in raced

\* A blocker joins two projects only when one of its items was moved after the
\* call that added it began.  Sharing a project purges the edges of this kind
\* that touch it, and a restart all of them: what is left was moved since.
CrossEdgesStrayed ==
  \A e \in deps : Crosses(e) =>
    e \in strayed \/ \E c \in Caller : At(c, "share", "purge") /\ e \in call[c].doomed

\* A workspace project has a repository URL, unless two updates of the project
\* overlapped: each is checked against the row it read.
WorkspaceHasRepos ==
  \A p \in Project : project[p].workspace => project[p].repos \/ p \in torn

\* An update or a claim writes to a row it would still accept (its version, the
\* rollout's lock, the build engine, its assignee, its blockers), or another
\* call wrote to that item or its blockers while it was being served.
UpdateStands(c) ==
  LET i == call[c].i  w == call[c].want  r == item[i] IN
  \/ i \in late[c]
  \/ /\ ~UpdateRefused(r, w, call[c].version)
     /\ call[c].op = "claim" => r.assigned = Nil
     /\ w.set = "status" /\ w.to = "active" /\ r.status # "active" =>
          \A b \in Unresolved(i) : {b, <<i, b>>} \cap late[c] # {}
UndisturbedUpdatesStand ==
  [][\A c \in Caller :
       call[c].op \in {"update", "claim"} /\ call[c].at = "write" /\ call'[c] # call[c]
         /\ item' # item => UpdateStands(c)]_vars

\* The rules that a call checks on rows it has read hold of what is stored:
\* blockers without a cycle and within a project, workspaces with a repository.
\* Only two calls served at the same time, or a later move, can break one.
RulesAreRaced == CyclesAreRaced /\ CrossEdgesStrayed /\ WorkspaceHasRepos
=============================================================================
