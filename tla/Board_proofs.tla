---------------------------- MODULE Board_proofs ----------------------------
(***************************************************************************)
(* Proofs about Board and Accounts for any users, projects, items, callers *)
(* and mixes: every row refers to rows there are, an attachment has its    *)
(* file, and the rules that a call checks on rows it has read are broken   *)
(* only by those that write these rows before it does, however the         *)
(* statements of the calls interleave with deletions and restarts.         *)
(***************************************************************************)
EXTENDS Accounts, TLAPS

-----------------------------------------------------------------------------
(* The calls *)

\* What the operation of a call says of its locals.
LEMMA Locals ==
  ASSUME NEW r \in Call
  PROVE  /\ r.op = "create" => r \in CreateCall
         /\ r.op \in {"update", "claim"} => r \in UpdateCall
         /\ r.op = "delete" => r \in DeleteCall
         /\ r.op = "add_blocker" => r \in AddBlockerCall
         /\ r.op = "remove_blocker" => r \in RemoveBlockerCall
         /\ r.op = "share" => r \in ShareCall
         /\ r.op = "unshare" => r \in UnshareCall
         /\ r.op = "update_project" => r \in UpdateProjectCall
         /\ r.op = "create_project" => r \in CreateProjectCall
         /\ r.op = "delete_project" => r \in DeleteProjectCall
         /\ r.op = "post" => r \in PostCall
         /\ r.op = "unpost" => r \in UnpostCall
         /\ r.op = "upload" => r \in UploadCall
         /\ r.op = "delete_file" => r \in DeleteFileCall
<1>1. \A q \in CreateCall : q.op = "create"
  BY DEF CreateCall
<1>2. \A q \in UpdateCall : q.op \in {"update", "claim"}
  BY DEF UpdateCall
<1>3. \A q \in DeleteCall : q.op = "delete"
  BY DEF DeleteCall
<1>4. \A q \in AddBlockerCall : q.op = "add_blocker"
  BY DEF AddBlockerCall
<1>5. \A q \in RemoveBlockerCall : q.op = "remove_blocker"
  BY DEF RemoveBlockerCall
<1>6. \A q \in ShareCall : q.op = "share"
  BY DEF ShareCall
<1>7. \A q \in UnshareCall : q.op = "unshare"
  BY DEF UnshareCall
<1>8. \A q \in UpdateProjectCall : q.op = "update_project"
  BY DEF UpdateProjectCall
<1>9. \A q \in CreateProjectCall : q.op = "create_project"
  BY DEF CreateProjectCall
<1>10. \A q \in DeleteProjectCall : q.op = "delete_project"
  BY DEF DeleteProjectCall
<1>11. \A q \in PostCall : q.op = "post"
  BY DEF PostCall
<1>12. \A q \in UnpostCall : q.op = "unpost"
  BY DEF UnpostCall
<1>13. \A q \in UploadCall : q.op = "upload"
  BY DEF UploadCall
<1>14. \A q \in DeleteFileCall : q.op = "delete_file"
  BY DEF DeleteFileCall
<1>15. NoCall.op = "none"
  BY DEF NoCall
<1>. QED
  BY <1>1, <1>2, <1>3, <1>4, <1>5, <1>6, <1>7, <1>8, <1>9, <1>10, <1>11, <1>12, <1>13,
     <1>14, <1>15 DEF Call

\* The locals of any operation are the locals of a call.
LEMMA LocalsOfCall ==
  /\ CreateCall \subseteq Call /\ UpdateCall \subseteq Call /\ DeleteCall \subseteq Call
  /\ AddBlockerCall \subseteq Call /\ RemoveBlockerCall \subseteq Call
  /\ ShareCall \subseteq Call /\ UnshareCall \subseteq Call
  /\ UpdateProjectCall \subseteq Call /\ CreateProjectCall \subseteq Call
  /\ DeleteProjectCall \subseteq Call /\ PostCall \subseteq Call /\ UnpostCall \subseteq Call
  /\ UploadCall \subseteq Call /\ DeleteFileCall \subseteq Call /\ NoCall \in Call
  BY DEF Call

\* The rows there are, and the calls.
RowsOK ==
  /\ project \in [Project -> ProjectRow]
  /\ members \subseteq Project \X User
  /\ item \in [Item -> Row]
  /\ deps \subseteq Edge
  /\ child \in [Child -> Item \cup Project \cup {Nil}]
  /\ row \in [File -> Item \cup {Nil}]
CallsOK == call \in [Caller -> Call]

\* A call that is over, goes to another statement, or begins.
LEMMA EndType ==
  ASSUME CallsOK, NEW c \in Caller, End(c)
  PROVE  CallsOK'
  BY LocalsOfCall DEF CallsOK, End

LEMMA GoType ==
  ASSUME CallsOK, NEW c \in Caller, NEW at, Go(c, at), [call[c] EXCEPT !.at = at] \in Call
  PROVE  CallsOK'
  BY DEF CallsOK, Go

LEMMA AskType ==
  ASSUME CallsOK, NEW c \in Caller, NEW r \in Call, Ask(c, r)
  PROVE  CallsOK'
  BY DEF CallsOK, Ask

\* Each operation keeps the type of its locals.
LEMMA CreateCalls ==
  ASSUME CallsOK, NEW c \in Caller, AskCreate(c) \/ CreateAccess(c) \/ CreateInsert(c)
  PROVE  CallsOK'
<1>1. CASE AskCreate(c)
  <2>1. PICK r \in CreateCall : Ask(c, r)
    BY <1>1 DEF AskCreate, CreateCall
  <2>. QED BY <2>1, AskType, LocalsOfCall
<1>2. CASE CreateAccess(c)
  <2>1. call[c] \in CreateCall
    BY <1>2, Locals DEF CreateAccess, At, CallsOK
  <2>2. [call[c] EXCEPT !.at = "insert"] \in CreateCall
    BY <2>1 DEF CreateCall
  <2>. QED BY <1>2, <2>2, GoType, EndType, LocalsOfCall DEF CreateAccess
<1>3. CASE CreateInsert(c)
  BY <1>3, EndType DEF CreateInsert
<1>. QED BY <1>1, <1>2, <1>3

LEMMA UpdateCalls ==
  ASSUME RowsOK, CallsOK, NEW c \in Caller,
         \/ AskUpdate(c) \/ AskClaim(c) \/ ClaimCheck(c) \/ UpdateRead(c)
         \/ UpdateBlockers(c) \/ UpdateAccess(c) \/ UpdateWrite(c)
  PROVE  CallsOK'
<1>1. CASE AskUpdate(c)
  <2>1. PICK u \in User, i \in Item, w \in Want, v \in {AnyVersion} \cup 1..(MaxCalls + 1) :
          Ask(c, [op |-> "update", at |-> "read", by |-> u, i |-> i, want |-> w,
                  version |-> v, row |-> Nil])
    BY <1>1 DEF AskUpdate
  <2>2. [op |-> "update", at |-> "read", by |-> u, i |-> i, want |-> w,
         version |-> v, row |-> Nil] \in UpdateCall
    BY BoardAssumption DEF UpdateCall, AnyVersion
  <2>. QED BY <2>1, <2>2, AskType, LocalsOfCall
<1>2. CASE AskClaim(c)
  <2>1. PICK u \in User, i \in Item, a \in Agent :
          Ask(c, [op |-> "claim", at |-> "check", by |-> u, i |-> i,
                  want |-> [set |-> "assigned", to |-> a], version |-> AnyVersion,
                  row |-> Nil])
    BY <1>2 DEF AskClaim
  <2>2. [set |-> "assigned", to |-> a] \in Want
    BY DEF Want
  <2>3. [op |-> "claim", at |-> "check", by |-> u, i |-> i,
         want |-> [set |-> "assigned", to |-> a], version |-> AnyVersion,
         row |-> Nil] \in UpdateCall
    BY <2>2 DEF UpdateCall, AnyVersion
  <2>. QED BY <2>1, <2>3, AskType, LocalsOfCall
<1>3. ASSUME call[c].op \in {"update", "claim"}
      PROVE  /\ call[c] \in UpdateCall
             /\ \A at \in {"check", "read", "blockers", "access", "write"} :
                  [call[c] EXCEPT !.at = at] \in Call
  <2>1. call[c] \in UpdateCall
    BY <1>3, Locals DEF CallsOK
  <2>2. \A at \in {"check", "read", "blockers", "access", "write"} :
          [call[c] EXCEPT !.at = at] \in UpdateCall
    BY <2>1 DEF UpdateCall
  <2>. QED BY <2>1, <2>2, LocalsOfCall
<1>4. CASE ClaimCheck(c)
  BY <1>3, <1>4, GoType, EndType DEF ClaimCheck, At
<1>5. CASE UpdateRead(c)
  <2>1. CASE End(c)
    BY <2>1, EndType
  <2>2. CASE ~End(c)
    <3>1. call[c] \in UpdateCall
      BY <1>3, <1>5 DEF UpdateRead
    <3>2. PICK at \in {"blockers", "access", "write"} :
            call' = [call EXCEPT ![c].row = item[call[c].i], ![c].at = at]
      BY <1>5, <2>2 DEF UpdateRead
    <3>3. item[call[c].i] \in Row
      BY <3>1 DEF UpdateCall, RowsOK
    <3>4. [call[c] EXCEPT !.row = item[call[c].i], !.at = at] \in UpdateCall
      BY <3>1, <3>3 DEF UpdateCall
    <3>5. [call[c] EXCEPT !.row = item[call[c].i], !.at = at] \in Call
      BY <3>4, LocalsOfCall
    <3>. QED BY <3>2, <3>5 DEF CallsOK
  <2>. QED BY <2>1, <2>2
<1>6. CASE UpdateBlockers(c)
  BY <1>3, <1>6, GoType, EndType DEF UpdateBlockers
<1>7. CASE UpdateAccess(c)
  BY <1>3, <1>7, GoType, EndType DEF UpdateAccess
<1>8. CASE UpdateWrite(c)
  BY <1>8, EndType DEF UpdateWrite
<1>. QED BY <1>1, <1>2, <1>4, <1>5, <1>6, <1>7, <1>8

LEMMA DeleteCalls ==
  ASSUME CallsOK, NEW c \in Caller,
         AskDelete(c) \/ DeleteRead(c) \/ DeleteRow(c) \/ DeleteFiles(c)
  PROVE  CallsOK'
<1>1. CASE AskDelete(c)
  <2>1. PICK r \in DeleteCall : Ask(c, r)
    BY <1>1 DEF AskDelete, DeleteCall
  <2>. QED BY <2>1, AskType, LocalsOfCall
<1>2. ASSUME call[c].op = "delete", NEW at \in {"row", "files"}
      PROVE  [call[c] EXCEPT !.at = at] \in Call
  <2>1. call[c] \in DeleteCall
    BY <1>2, Locals DEF CallsOK
  <2>2. [call[c] EXCEPT !.at = at] \in DeleteCall
    BY <2>1 DEF DeleteCall
  <2>. QED BY <2>2, LocalsOfCall
<1>3. CASE DeleteRead(c)
  BY <1>2, <1>3, GoType, EndType DEF DeleteRead, At
<1>4. CASE DeleteRow(c)
  BY <1>2, <1>4, GoType, EndType DEF DeleteRow, At
<1>5. CASE DeleteFiles(c)
  BY <1>5, EndType DEF DeleteFiles
<1>. QED BY <1>1, <1>3, <1>4, <1>5

LEMMA AddBlockerCalls ==
  ASSUME RowsOK, CallsOK, NEW c \in Caller,
         \/ AskAddBlocker(c) \/ AddReadItem(c) \/ AddReadBlocker(c) \/ AddExisting(c)
         \/ AddWalk(c) \/ AddInsert(c)
  PROVE  CallsOK'
<1>1. CASE AskAddBlocker(c)
  <2>1. PICK r \in AddBlockerCall : Ask(c, r)
    BY <1>1 DEF AskAddBlocker, AddBlockerCall
  <2>. QED BY <2>1, AskType, LocalsOfCall
<1>2. ASSUME call[c].op = "add_blocker"
      PROVE  call[c] \in AddBlockerCall
  BY <1>2, Locals DEF CallsOK
<1>3. ASSUME call[c].op = "add_blocker", NEW at \in {"existing", "insert"}
      PROVE  [call[c] EXCEPT !.at = at] \in Call
  <2>1. [call[c] EXCEPT !.at = at] \in AddBlockerCall
    BY <1>2, <1>3 DEF AddBlockerCall
  <2>. QED BY <2>1, LocalsOfCall
<1>4. CASE AddReadItem(c)
  <2>1. CASE End(c)
    BY <2>1, EndType
  <2>2. CASE ~End(c)
    <3>1. call[c] \in AddBlockerCall
            /\ call' = [call EXCEPT ![c].at = "blocker", ![c].p = item[call[c].i].project]
      BY <1>2, <1>4, <2>2 DEF AddReadItem, At
    <3>2. item[call[c].i].project \in Project \cup {Nil}
      BY <3>1 DEF AddBlockerCall, RowsOK, Row
    <3>3. [call[c] EXCEPT !.at = "blocker", !.p = item[call[c].i].project] \in AddBlockerCall
      BY <3>1, <3>2 DEF AddBlockerCall
    <3>4. [call[c] EXCEPT !.at = "blocker", !.p = item[call[c].i].project] \in Call
      BY <3>3, LocalsOfCall
    <3>. QED BY <3>1, <3>4 DEF CallsOK
  <2>. QED BY <2>1, <2>2
<1>5. CASE AddReadBlocker(c)
  BY <1>3, <1>5, GoType, EndType DEF AddReadBlocker, At
<1>6. CASE AddExisting(c)
  <2>1. CASE End(c)
    BY <2>1, EndType
  <2>2. CASE ~End(c)
    <3>1. call[c] \in AddBlockerCall
            /\ call' = [call EXCEPT ![c].at = "walk", ![c].seen = {call[c].b},
                                    ![c].queue = {call[c].b}]
      BY <1>2, <1>6, <2>2 DEF AddExisting, At
    <3>2. [call[c] EXCEPT !.at = "walk", !.seen = {call[c].b}, !.queue = {call[c].b}]
            \in AddBlockerCall
      BY <3>1 DEF AddBlockerCall
    <3>3. [call[c] EXCEPT !.at = "walk", !.seen = {call[c].b}, !.queue = {call[c].b}]
            \in Call
      BY <3>2, LocalsOfCall
    <3>. QED BY <3>1, <3>3 DEF CallsOK
  <2>. QED BY <2>1, <2>2
<1>7. CASE AddWalk(c)
  <2>1. CASE End(c)
    BY <2>1, EndType
  <2>2. CASE Go(c, "insert")
    BY <1>3, <1>7, <2>2, GoType DEF AddWalk, At
  <2>3. CASE ~End(c) /\ ~Go(c, "insert")
    <3>1. call[c] \in AddBlockerCall
      BY <1>2, <1>7 DEF AddWalk, At
    <3>2. PICK n \in call[c].queue, next \in SUBSET Item :
            call' = [call EXCEPT ![c].seen = @ \cup next,
                                 ![c].queue = (@ \cup (next \ call[c].seen)) \ {n}]
      BY <1>7, <2>3 DEF AddWalk
    <3>3. [call[c] EXCEPT !.seen = @ \cup next,
                          !.queue = (@ \cup (next \ call[c].seen)) \ {n}] \in AddBlockerCall
      BY <3>1 DEF AddBlockerCall
    <3>4. [call[c] EXCEPT !.seen = @ \cup next,
                          !.queue = (@ \cup (next \ call[c].seen)) \ {n}] \in Call
      BY <3>3, LocalsOfCall
    <3>. QED BY <3>2, <3>4 DEF CallsOK
  <2>. QED BY <2>1, <2>2, <2>3
<1>8. CASE AddInsert(c)
  <2>1. CASE End(c)
    BY <2>1, EndType
  <2>2. CASE ~End(c)
    <3>1. PICK e : EndAdding(c, e)
      BY <1>8, <2>2 DEF AddInsert
    <3>2. ASSUME NEW d \in Caller, call[d].op = "share"
          PROVE  [call[d] EXCEPT !.doomed = @ \ {e}] \in Call
      <4>1. call[d] \in ShareCall
        BY <3>2, Locals DEF CallsOK
      <4>2. [call[d] EXCEPT !.doomed = @ \ {e}] \in ShareCall
        BY <4>1 DEF ShareCall
      <4>. QED BY <4>2, LocalsOfCall
    <3>. QED BY <3>1, <3>2, LocalsOfCall DEF EndAdding, CallsOK
  <2>. QED BY <2>1, <2>2
<1>. QED BY <1>1, <1>4, <1>5, <1>6, <1>7, <1>8

LEMMA RemoveBlockerCalls ==
  ASSUME CallsOK, NEW c \in Caller,
         AskRemoveBlocker(c) \/ RemoveRead(c) \/ RemoveRow(c)
  PROVE  CallsOK'
<1>1. CASE AskRemoveBlocker(c)
  <2>1. PICK r \in RemoveBlockerCall : Ask(c, r)
    BY <1>1 DEF AskRemoveBlocker, RemoveBlockerCall
  <2>. QED BY <2>1, AskType, LocalsOfCall
<1>2. ASSUME call[c].op = "remove_blocker", NEW at \in {"row"}
      PROVE  [call[c] EXCEPT !.at = at] \in Call
  <2>1. call[c] \in RemoveBlockerCall
    BY <1>2, Locals DEF CallsOK
  <2>2. [call[c] EXCEPT !.at = at] \in RemoveBlockerCall
    BY <2>1 DEF RemoveBlockerCall
  <2>. QED BY <2>2, LocalsOfCall
<1>3. CASE RemoveRead(c)
  BY <1>2, <1>3, GoType, EndType DEF RemoveRead, At
<1>4. CASE RemoveRow(c)
  BY <1>4, EndType DEF RemoveRow
<1>. QED BY <1>1, <1>3, <1>4

LEMMA ShareCalls ==
  ASSUME RowsOK, CallsOK, NEW c \in Caller,
         \/ AskShare(c) \/ ShareOwner(c) \/ ShareExisting(c) \/ ShareCount(c)
         \/ ShareInsert(c) \/ ShareEdges(c) \/ SharePurge(c)
  PROVE  CallsOK'
<1>1. CASE AskShare(c)
  <2>1. PICK r \in ShareCall : Ask(c, r)
    BY <1>1 DEF AskShare, ShareCall
  <2>. QED BY <2>1, AskType, LocalsOfCall
<1>2. ASSUME call[c].op = "share"
      PROVE  call[c] \in ShareCall
  BY <1>2, Locals DEF CallsOK
<1>3. ASSUME call[c].op = "share", NEW at \in {"existing", "count", "edges"}
      PROVE  [call[c] EXCEPT !.at = at] \in Call
  <2>1. [call[c] EXCEPT !.at = at] \in ShareCall
    BY <1>2, <1>3 DEF ShareCall
  <2>. QED BY <2>1, LocalsOfCall
<1>4. CASE ShareOwner(c)
  BY <1>3, <1>4, GoType, EndType DEF ShareOwner, At
<1>5. CASE ShareExisting(c)
  BY <1>3, <1>5, GoType, EndType DEF ShareExisting, At
<1>6. CASE ShareCount(c)
  <2> DEFINE first == ~\E m \in User : <<call[c].p, m>> \in members
  <2>1. call[c] \in ShareCall /\ call' = [call EXCEPT ![c].at = "insert", ![c].first = first]
    BY <1>2, <1>6 DEF ShareCount, At
  <2>2. first \in BOOLEAN
    OBVIOUS
  <2>. HIDE DEF first
  <2>3. [call[c] EXCEPT !.at = "insert", !.first = first] \in ShareCall
    BY <2>1, <2>2 DEF ShareCall
  <2>4. [call[c] EXCEPT !.at = "insert", !.first = first] \in Call
    BY <2>3, LocalsOfCall
  <2>. QED BY <2>1, <2>4 DEF CallsOK
<1>7. CASE ShareInsert(c)
  BY <1>3, <1>7, GoType, EndType DEF ShareInsert, At
<1>8. CASE ShareEdges(c)
  <2>1. call[c] \in ShareCall
          /\ call' = [call EXCEPT ![c].at = "purge", ![c].doomed = CrossingEdges(call[c].p)]
    BY <1>2, <1>8 DEF ShareEdges, At
  <2>2. CrossingEdges(call[c].p) \in SUBSET Edge
    BY DEF CrossingEdges, RowsOK
  <2>3. [call[c] EXCEPT !.at = "purge", !.doomed = CrossingEdges(call[c].p)] \in ShareCall
    BY <2>1, <2>2 DEF ShareCall
  <2>4. [call[c] EXCEPT !.at = "purge", !.doomed = CrossingEdges(call[c].p)] \in Call
    BY <2>3, LocalsOfCall
  <2>. QED BY <2>1, <2>4 DEF CallsOK
<1>9. CASE SharePurge(c)
  <2>1. CASE End(c)
    BY <2>1, EndType
  <2>2. CASE ~End(c)
    <3>1. call[c] \in ShareCall
      BY <1>2, <1>9 DEF SharePurge, At
    <3>2. PICK e : call' = [call EXCEPT ![c].doomed = @ \ {e}]
      BY <1>9, <2>2 DEF SharePurge
    <3>3. [call[c] EXCEPT !.doomed = @ \ {e}] \in ShareCall
      BY <3>1 DEF ShareCall
    <3>4. [call[c] EXCEPT !.doomed = @ \ {e}] \in Call
      BY <3>3, LocalsOfCall
    <3>. QED BY <3>2, <3>4 DEF CallsOK
  <2>. QED BY <2>1, <2>2
<1>. QED BY <1>1, <1>4, <1>5, <1>6, <1>7, <1>8, <1>9

LEMMA UnshareCalls ==
  ASSUME CallsOK, NEW c \in Caller,
         AskUnshare(c) \/ UnshareOwner(c) \/ UnshareRow(c)
  PROVE  CallsOK'
<1>1. CASE AskUnshare(c)
  <2>1. PICK r \in UnshareCall : Ask(c, r)
    BY <1>1 DEF AskUnshare, UnshareCall
  <2>. QED BY <2>1, AskType, LocalsOfCall
<1>2. ASSUME call[c].op = "unshare", NEW at \in {"row"}
      PROVE  [call[c] EXCEPT !.at = at] \in Call
  <2>1. call[c] \in UnshareCall
    BY <1>2, Locals DEF CallsOK
  <2>2. [call[c] EXCEPT !.at = at] \in UnshareCall
    BY <2>1 DEF UnshareCall
  <2>. QED BY <2>2, LocalsOfCall
<1>3. CASE UnshareOwner(c)
  BY <1>2, <1>3, GoType, EndType DEF UnshareOwner, At
<1>4. CASE UnshareRow(c)
  BY <1>4, EndType DEF UnshareRow
<1>. QED BY <1>1, <1>3, <1>4

LEMMA CreateProjectCalls ==
  ASSUME CallsOK, NEW c \in Caller,
         AskCreateProject(c) \/ CreateProjectInsert(c)
  PROVE  CallsOK'
<1>1. CASE AskCreateProject(c)
  <2>1. PICK r \in CreateProjectCall : Ask(c, r)
    BY <1>1 DEF AskCreateProject, CreateProjectCall
  <2>. QED BY <2>1, AskType, LocalsOfCall
<1>2. CASE CreateProjectInsert(c)
  BY <1>2, EndType DEF CreateProjectInsert
<1>. QED BY <1>1, <1>2

LEMMA UpdateProjectCalls ==
  ASSUME RowsOK, CallsOK, NEW c \in Caller,
         AskUpdateProject(c) \/ ProjectRead(c) \/ ProjectWrite(c)
  PROVE  CallsOK'
<1>1. CASE AskUpdateProject(c)
  <2>1. PICK r \in UpdateProjectCall : Ask(c, r)
    BY <1>1 DEF AskUpdateProject, UpdateProjectCall
  <2>. QED BY <2>1, AskType, LocalsOfCall
<1>2. CASE ProjectRead(c)
  <2>1. CASE End(c)
    BY <2>1, EndType
  <2>2. CASE ~End(c)
    <3> DEFINE old == project[call[c].p]
    <3>1. call[c] \in UpdateProjectCall
      BY <1>2, Locals DEF ProjectRead, At, CallsOK
    <3>2. call' = [call EXCEPT ![c].at = "write", ![c].row = old]
      BY <1>2, <2>2 DEF ProjectRead
    <3>3. old \in ProjectRow
      BY <3>1 DEF UpdateProjectCall, RowsOK
    <3>. HIDE DEF old
    <3>4. [call[c] EXCEPT !.at = "write", !.row = old] \in UpdateProjectCall
      BY <3>1, <3>3 DEF UpdateProjectCall
    <3>5. [call[c] EXCEPT !.at = "write", !.row = old] \in Call
      BY <3>4, LocalsOfCall
    <3>. QED BY <3>2, <3>5 DEF CallsOK
  <2>. QED BY <2>1, <2>2
<1>3. CASE ProjectWrite(c)
  BY <1>3, EndType DEF ProjectWrite
<1>. QED BY <1>1, <1>2, <1>3

LEMMA DeleteProjectCalls ==
  ASSUME CallsOK, NEW c \in Caller,
         AskDeleteProject(c) \/ DeleteProjectOwner(c) \/ DeleteProjectRow(c)
  PROVE  CallsOK'
<1>1. CASE AskDeleteProject(c)
  <2>1. PICK r \in DeleteProjectCall : Ask(c, r)
    BY <1>1 DEF AskDeleteProject, DeleteProjectCall
  <2>. QED BY <2>1, AskType, LocalsOfCall
<1>2. ASSUME call[c].op = "delete_project", NEW at \in {"row"}
      PROVE  [call[c] EXCEPT !.at = at] \in Call
  <2>1. call[c] \in DeleteProjectCall
    BY <1>2, Locals DEF CallsOK
  <2>2. [call[c] EXCEPT !.at = at] \in DeleteProjectCall
    BY <2>1 DEF DeleteProjectCall
  <2>. QED BY <2>2, LocalsOfCall
<1>3. CASE DeleteProjectOwner(c)
  BY <1>2, <1>3, GoType, EndType DEF DeleteProjectOwner, At
<1>4. CASE DeleteProjectRow(c)
  BY <1>4, EndType DEF DeleteProjectRow
<1>. QED BY <1>1, <1>3, <1>4

LEMMA PostCalls ==
  ASSUME CallsOK, NEW c \in Caller,
         AskPost(c) \/ PostAccess(c) \/ PostInsert(c)
  PROVE  CallsOK'
<1>1. CASE AskPost(c)
  <2>1. PICK r \in PostCall : Ask(c, r)
    BY <1>1 DEF AskPost, PostCall
  <2>. QED BY <2>1, AskType, LocalsOfCall
<1>2. ASSUME call[c].op = "post", NEW at \in {"insert"}
      PROVE  [call[c] EXCEPT !.at = at] \in Call
  <2>1. call[c] \in PostCall
    BY <1>2, Locals DEF CallsOK
  <2>2. [call[c] EXCEPT !.at = at] \in PostCall
    BY <2>1 DEF PostCall
  <2>. QED BY <2>2, LocalsOfCall
<1>3. CASE PostAccess(c)
  BY <1>2, <1>3, GoType, EndType DEF PostAccess, At
<1>4. CASE PostInsert(c)
  BY <1>4, EndType DEF PostInsert
<1>. QED BY <1>1, <1>3, <1>4

LEMMA UnpostCalls ==
  ASSUME CallsOK, NEW c \in Caller,
         AskUnpost(c) \/ UnpostRead(c) \/ UnpostRow(c)
  PROVE  CallsOK'
<1>1. CASE AskUnpost(c)
  <2>1. PICK r \in UnpostCall : Ask(c, r)
    BY <1>1 DEF AskUnpost, UnpostCall
  <2>. QED BY <2>1, AskType, LocalsOfCall
<1>2. ASSUME call[c].op = "unpost", NEW at \in {"row"}
      PROVE  [call[c] EXCEPT !.at = at] \in Call
  <2>1. call[c] \in UnpostCall
    BY <1>2, Locals DEF CallsOK
  <2>2. [call[c] EXCEPT !.at = at] \in UnpostCall
    BY <2>1 DEF UnpostCall
  <2>. QED BY <2>2, LocalsOfCall
<1>3. CASE UnpostRead(c)
  BY <1>2, <1>3, GoType, EndType DEF UnpostRead, At
<1>4. CASE UnpostRow(c)
  BY <1>4, EndType DEF UnpostRow
<1>. QED BY <1>1, <1>3, <1>4

LEMMA UploadCalls ==
  ASSUME CallsOK, NEW c \in Caller,
         AskUpload(c) \/ UploadAccess(c) \/ UploadFile(c) \/ UploadRow(c)
  PROVE  CallsOK'
<1>1. CASE AskUpload(c)
  <2>1. PICK r \in UploadCall : Ask(c, r)
    BY <1>1 DEF AskUpload, UploadCall
  <2>. QED BY <2>1, AskType, LocalsOfCall
<1>2. ASSUME call[c].op = "upload", NEW at \in {"file", "row"}
      PROVE  [call[c] EXCEPT !.at = at] \in Call
  <2>1. call[c] \in UploadCall
    BY <1>2, Locals DEF CallsOK
  <2>2. [call[c] EXCEPT !.at = at] \in UploadCall
    BY <2>1 DEF UploadCall
  <2>. QED BY <2>2, LocalsOfCall
<1>3. CASE UploadAccess(c)
  BY <1>2, <1>3, GoType, EndType DEF UploadAccess, At
<1>4. CASE UploadFile(c)
  BY <1>2, <1>4, GoType, EndType DEF UploadFile, At
<1>5. CASE UploadRow(c)
  BY <1>5, EndType DEF UploadRow
<1>. QED BY <1>1, <1>3, <1>4, <1>5

LEMMA DeleteFileCalls ==
  ASSUME RowsOK, CallsOK, NEW c \in Caller,
         AskDeleteFile(c) \/ DeleteFileRead(c) \/ DeleteFileAccess(c) \/ DeleteFileRow(c)
  PROVE  CallsOK'
<1>1. CASE AskDeleteFile(c)
  <2>1. PICK r \in DeleteFileCall : Ask(c, r)
    BY <1>1 DEF AskDeleteFile, DeleteFileCall
  <2>. QED BY <2>1, AskType, LocalsOfCall
<1>2. ASSUME call[c].op = "delete_file"
      PROVE  call[c] \in DeleteFileCall
  BY <1>2, Locals DEF CallsOK
<1>3. CASE DeleteFileRead(c)
  <2>1. CASE End(c)
    BY <2>1, EndType
  <2>2. CASE ~End(c)
    <3>1. call[c] \in DeleteFileCall
            /\ call' = [call EXCEPT ![c].at = "access", ![c].i = row[call[c].f]]
      BY <1>2, <1>3, <2>2 DEF DeleteFileRead, At
    <3>2. row[call[c].f] \in Item \cup {Nil}
      BY <3>1 DEF DeleteFileCall, RowsOK
    <3>3. [call[c] EXCEPT !.at = "access", !.i = row[call[c].f]] \in DeleteFileCall
      BY <3>1, <3>2 DEF DeleteFileCall
    <3>4. [call[c] EXCEPT !.at = "access", !.i = row[call[c].f]] \in Call
      BY <3>3, LocalsOfCall
    <3>. QED BY <3>1, <3>4 DEF CallsOK
  <2>. QED BY <2>1, <2>2
<1>4. CASE DeleteFileAccess(c)
  <2>1. [call[c] EXCEPT !.at = "row"] \in DeleteFileCall
    BY <1>2, <1>4 DEF DeleteFileAccess, At, DeleteFileCall
  <2>. QED BY <1>4, <2>1, GoType, EndType, LocalsOfCall DEF DeleteFileAccess
<1>5. CASE DeleteFileRow(c)
  BY <1>5, EndType DEF DeleteFileRow
<1>. QED BY <1>1, <1>3, <1>4, <1>5

-----------------------------------------------------------------------------
(* The rows *)

\* What a statement leaves alone stays as it was.
LEMMA KeptRows ==
  ASSUME RowsOK, Coherent, UNCHANGED <<project, members, item, deps, child, row>>
  PROVE  RowsOK' /\ Coherent'
  BY DEF RowsOK, Coherent, Live

\* An item is written, but neither comes, goes nor moves to a project that is gone.
LEMMA WrittenItem ==
  ASSUME RowsOK, Coherent, NEW i \in Item, NEW r \in Row, item' = [item EXCEPT ![i] = r],
         Live(i) => r.state = "live",
         r.state = "live" /\ r.project # Nil => project[r.project].live,
         UNCHANGED <<project, members, deps, child, row>>
  PROVE  RowsOK' /\ Coherent'
<1>1. item' \in [Item -> Row]
  BY DEF RowsOK
<1>2. \A j \in Item : item'[j] = IF j = i THEN r ELSE item[j]
  BY DEF RowsOK
<1>3. \A j \in Item : Live(j) => Live(j)'
  BY <1>2 DEF Live
<1>4. \A j \in Item : Live(j)' /\ item'[j].project # Nil => project'[item'[j].project].live
  BY <1>2 DEF Live, Coherent
<1>5. (\A e \in deps : Live(e[1]) /\ Live(e[2]))'
  BY <1>3 DEF Coherent, RowsOK, Edge
<1>6. (\A f \in File : row[f] # Nil => Live(row[f]))'
  BY <1>3 DEF Coherent, RowsOK
<1>7. (\A k \in Child : /\ child[k] \in Item => Live(child[k])
                        /\ child[k] \in Project => project[child[k]].live)'
  BY <1>3 DEF Coherent, RowsOK
<1>8. (\A m \in members : project[m[1]].live)'
  BY DEF Coherent
<1>. QED BY <1>1, <1>4, <1>5, <1>6, <1>7, <1>8 DEF RowsOK, Coherent

LEMMA CreateRows ==
  ASSUME RowsOK, Coherent, CallsOK, NEW c \in Caller, CreateInsert(c)
  PROVE  RowsOK' /\ Coherent'
<1> DEFINE u == call[c].by
           p == call[c].p
<1>1. u \in User /\ p \in Project \cup {Nil}
  BY Locals DEF CreateInsert, At, CallsOK, CreateCall
<1>2. CASE UNCHANGED tables
  BY <1>2, KeptRows DEF tables
<1>3. CASE ~(p # Nil /\ ~project[p].live)
  <2>1. PICK i \in Item : /\ item[i].state = "unused"
                          /\ item' = [item EXCEPT ![i] = NewRow(u, p)]
                          /\ UNCHANGED <<project, members, deps, child, row>>
    BY <1>3 DEF CreateInsert
  <2>2. /\ NewRow(u, p) \in Row
        /\ NewRow(u, p).state = "live" /\ NewRow(u, p).project = p
    BY <1>1 DEF NewRow, Unused, Row, Status, Engine
  <2>. QED BY <1>3, <2>1, <2>2, WrittenItem DEF Live
<1>. QED BY <1>2, <1>3 DEF CreateInsert

\* An update keeps a row where it is, unless it moves the item.
LEMMA UpdatedRow ==
  ASSUME NEW q \in Row, NEW w \in Want
  PROVE  /\ Updated(q, w) \in Row /\ Updated(q, w).state = q.state
         /\ Updated(q, w).project = IF w.set = "project" THEN w.to ELSE q.project
<1> DEFINE s == [q EXCEPT !.version = @ + 1]
<1>1. s \in Row /\ s.state = q.state /\ s.project = q.project
  BY DEF Row
<1>2. CASE w.set = "status"
  <2>1. w.to \in Status /\ Updated(q, w) = [s EXCEPT !.status = w.to]
    BY <1>2 DEF Want, Updated
  <2>. HIDE DEF s
  <2>. QED BY <1>1, <1>2, <2>1 DEF Row
<1>3. CASE w.set = "assigned"
  <2>1. w.to \in Agent \cup {Nil} /\ Updated(q, w) = [s EXCEPT !.assigned = w.to]
    BY <1>3 DEF Want, Updated
  <2>. HIDE DEF s
  <2>. QED BY <1>1, <1>3, <2>1 DEF Row
<1>4. CASE w.set = "project"
  <2>1. w.to \in Project \cup {Nil} /\ Updated(q, w) = [s EXCEPT !.project = w.to]
    BY <1>4 DEF Want, Updated
  <2>. HIDE DEF s
  <2>. QED BY <1>1, <1>4, <2>1 DEF Row
<1>5. CASE w.set = "engine"
  <2>1. w.to \in Engine /\ Updated(q, w) = [s EXCEPT !.engine = w.to]
    BY <1>5 DEF Want, Updated
  <2>. HIDE DEF s
  <2>. QED BY <1>1, <1>5, <2>1 DEF Row
<1>. QED BY <1>2, <1>3, <1>4, <1>5 DEF Want

LEMMA UpdateRows ==
  ASSUME RowsOK, Coherent, CallsOK, NEW c \in Caller, UpdateWrite(c)
  PROVE  RowsOK' /\ Coherent'
<1> DEFINE i == call[c].i
           w == call[c].want
<1>1. i \in Item /\ w \in Want
  <2>1. call[c] \in UpdateCall
    BY Locals DEF UpdateWrite, CallsOK
  <2>. QED BY <2>1 DEF UpdateCall
<1>2. CASE UNCHANGED tables
  BY <1>2, KeptRows DEF tables
<1>3. CASE ~(~Live(i) \/ (w.set = "project" /\ w.to # Nil /\ ~project[w.to].live))
  <2> DEFINE r == Updated(item[i], w)
  <2>1. item[i] \in Row /\ Live(i)
    BY <1>1, <1>3 DEF RowsOK
  <2>2. item' = [item EXCEPT ![i] = r] /\ UNCHANGED <<project, members, deps, child, row>>
    BY <1>3 DEF UpdateWrite
  <2>3. r \in Row /\ r.state = "live"
           /\ r.project = IF w.set = "project" THEN w.to ELSE item[i].project
    BY <1>1, <2>1, UpdatedRow DEF Live
  <2>4. r.project # Nil => project[r.project].live
    BY <1>1, <1>3, <2>1, <2>3 DEF Coherent
  <2>. HIDE DEF r
  <2>. QED BY <1>1, <2>2, <2>3, <2>4, WrittenItem
<1>. QED BY <1>2, <1>3 DEF UpdateWrite

LEMMA LockRows ==
  ASSUME RowsOK, Coherent, NEW c \in Caller, RolloutLocks(c)
  PROVE  RowsOK' /\ Coherent'
<1>1. PICK i \in Item : Live(i) /\ item' = [item EXCEPT ![i].locked = ~@]
  BY DEF RolloutLocks
<1> DEFINE r == [item[i] EXCEPT !.locked = ~@]
<1>2. r \in Row /\ r.state = "live" /\ r.project = item[i].project
  BY <1>1 DEF RowsOK, Row, Live
<1>3. item' = [item EXCEPT ![i] = r]
  BY <1>1
<1>4. r.project # Nil => project[r.project].live
  BY <1>1, <1>2 DEF Coherent
<1>. HIDE DEF r
<1>. QED BY <1>2, <1>3, <1>4, WrittenItem DEF RolloutLocks

\* Items go with their blockers and attachments, and so do their comments.
LEMMA GoneItems ==
  ASSUME RowsOK, Coherent, NEW items \in SUBSET Item, NEW gone \in SUBSET Project,
         Cascade(items), \A i \in Item : Live(i) /\ item[i].project \in gone => i \in items,
         project' = [p \in Project |-> IF p \in gone THEN [project[p] EXCEPT !.live = FALSE]
                                       ELSE project[p]],
         members' = {m \in members : m[1] \notin gone},
         child' = [k \in Child |-> IF child[k] \in items \cup gone THEN Nil ELSE child[k]]
  PROVE  RowsOK' /\ Coherent'
<1>1. \A i \in Item : item'[i] = IF i \in items THEN [item[i] EXCEPT !.state = "gone"]
                                 ELSE item[i]
  BY DEF Cascade
<1>2. \A i \in Item : /\ Live(i)' <=> Live(i) /\ i \notin items
                      /\ item'[i].project = item[i].project
                      /\ item'[i] \in Row
  <2>1. \A q \in Row : /\ [q EXCEPT !.state = "gone"] \in Row
                       /\ [q EXCEPT !.state = "gone"].state = "gone"
                       /\ [q EXCEPT !.state = "gone"].project = q.project
    BY DEF Row
  <2>. QED BY <1>1, <2>1 DEF Live, RowsOK
<1>3. \A p \in Project : /\ project'[p].live <=> project[p].live /\ p \notin gone
                         /\ project'[p] \in ProjectRow
  BY DEF RowsOK, ProjectRow
<1>4. RowsOK'
  BY <1>2, <1>3 DEF RowsOK, Cascade
<1>5. (\A e \in deps : Live(e[1]) /\ Live(e[2]))'
  BY <1>2 DEF Coherent, RowsOK, Edge, Cascade
<1>6. (\A f \in File : row[f] # Nil => Live(row[f]))'
  BY <1>2 DEF Coherent, RowsOK, Cascade
<1>7. (\A k \in Child : /\ child[k] \in Item => Live(child[k])
                        /\ child[k] \in Project => project[child[k]].live)'
  BY <1>2, <1>3, BoardAssumption DEF Coherent, RowsOK
<1>8. (\A m \in members : project[m[1]].live)'
  BY <1>3 DEF Coherent, RowsOK
<1>9. (\A i \in Item : Live(i) /\ item[i].project # Nil => project[item[i].project].live)'
  <2>1. \A i \in Item : item[i].project \in Project \cup {Nil}
    BY DEF RowsOK, Row
  <2>. QED BY <2>1, <1>2, <1>3 DEF Coherent
<1>. QED BY <1>4, <1>5, <1>6, <1>7, <1>8, <1>9 DEF Coherent

\* An item that is deleted goes alone.
LEMMA DeleteRows ==
  ASSUME RowsOK, Coherent, CallsOK, NEW c \in Caller, DeleteRow(c)
  PROVE  RowsOK' /\ Coherent'
<1> DEFINE i == call[c].i
           its == {i} \cap {j \in Item : Live(j)}
<1>1. i \in Item
  BY Locals DEF DeleteRow, At, CallsOK, DeleteCall
<1>2. /\ Cascade(its) /\ UNCHANGED <<project, members>>
      /\ child' = [k \in Child |-> IF child[k] = i THEN Nil ELSE child[k]]
  BY DEF DeleteRow
<1>3. child' = [k \in Child |-> IF child[k] \in its \cup {} THEN Nil ELSE child[k]]
  <2>1. \A k \in Child : child[k] = i <=> child[k] \in its
    BY <1>1 DEF Coherent
  <2>. QED BY <1>2, <2>1
<1>4. /\ project' = [p \in Project |-> IF p \in {} THEN [project[p] EXCEPT !.live = FALSE]
                                       ELSE project[p]]
      /\ members' = {m \in members : m[1] \notin {}}
  BY <1>2 DEF RowsOK
<1> DEFINE none == {}
<1>5. /\ its \in SUBSET Item /\ none \in SUBSET Project
      /\ \A j \in Item : Live(j) /\ item[j].project \in none => j \in its
  OBVIOUS
<1>6. /\ child' = [k \in Child |-> IF child[k] \in its \cup none THEN Nil ELSE child[k]]
      /\ project' = [p \in Project |-> IF p \in none THEN [project[p] EXCEPT !.live = FALSE]
                                       ELSE project[p]]
      /\ members' = {m \in members : m[1] \notin none}
  BY <1>3, <1>4
<1>. HIDE DEF its, none
<1>. QED BY <1>2, <1>5, <1>6, GoneItems

\* A project goes with its items, and with its notes, comments and members.
LEMMA DeleteProjectRows ==
  ASSUME RowsOK, Coherent, CallsOK, NEW c \in Caller, DeleteProjectRow(c)
  PROVE  RowsOK' /\ Coherent'
<1> DEFINE p == call[c].p
           its == {i \in Item : Live(i) /\ item[i].project = p}
<1>1. p \in Project
  BY Locals DEF DeleteProjectRow, At, CallsOK, DeleteProjectCall
<1>2. /\ project' = [project EXCEPT ![p].live = FALSE]
      /\ members' = {m \in members : m[1] # p}
      /\ Cascade(its)
      /\ child' = [k \in Child |-> IF child[k] \in its \cup {p} THEN Nil ELSE child[k]]
  BY DEF DeleteProjectRow
<1>3. project' = [q \in Project |-> IF q \in {p} THEN [project[q] EXCEPT !.live = FALSE]
                                    ELSE project[q]]
  BY <1>2 DEF RowsOK
<1>4. members' = {m \in members : m[1] \notin {p}}
  BY <1>2
<1>5. /\ its \in SUBSET Item /\ {p} \in SUBSET Project
      /\ \A i \in Item : Live(i) /\ item[i].project \in {p} => i \in its
  BY <1>1
<1>. HIDE DEF its, p
<1>. QED BY <1>2, <1>3, <1>4, <1>5, GoneItems

\* Blockers join items there are; fewer blockers harm nothing.
LEMMA BlockerRows ==
  ASSUME RowsOK, Coherent, NEW new \in SUBSET Edge, \A e \in new : Live(e[1]) /\ Live(e[2]),
         deps' \subseteq deps \cup new, UNCHANGED <<project, members, item, child, row>>
  PROVE  RowsOK' /\ Coherent'
  BY DEF RowsOK, Coherent, Live

LEMMA AddRows ==
  ASSUME RowsOK, Coherent, CallsOK, NEW c \in Caller, AddInsert(c)
  PROVE  RowsOK' /\ Coherent'
<1> DEFINE i == call[c].i
           b == call[c].b
<1>1. i \in Item /\ b \in Item
  BY Locals DEF AddInsert, At, CallsOK, AddBlockerCall
<1>2. CASE UNCHANGED tables
  BY <1>2, KeptRows DEF tables
<1>3. CASE ~(~Live(i) \/ ~Live(b) \/ <<i, b>> \in deps)
  <2>1. {<<i, b>>} \in SUBSET Edge /\ \A e \in {<<i, b>>} : Live(e[1]) /\ Live(e[2])
    BY <1>1, <1>3 DEF Edge
  <2>2. deps' \subseteq deps \cup {<<i, b>>} /\ UNCHANGED <<project, members, item, child, row>>
    BY <1>3 DEF AddInsert
  <2>. QED BY <2>1, <2>2, BlockerRows
<1>. QED BY <1>2, <1>3 DEF AddInsert

LEMMA FewerRows ==
  ASSUME RowsOK, Coherent, NEW c \in Caller, RemoveRow(c) \/ SharePurge(c) \/ UnshareRow(c)
  PROVE  RowsOK' /\ Coherent'
<1>1. CASE RemoveRow(c) \/ SharePurge(c)
  <2> DEFINE new == {}
  <2>1. new \in SUBSET Edge /\ \A e \in new : Live(e[1]) /\ Live(e[2])
    OBVIOUS
  <2>2. deps' \subseteq deps \cup new /\ UNCHANGED <<project, members, item, child, row>>
    BY <1>1 DEF RemoveRow, SharePurge
  <2>. HIDE DEF new
  <2>. QED BY <2>1, <2>2, BlockerRows
<1>2. CASE UnshareRow(c)
  BY <1>2 DEF UnshareRow, RowsOK, Coherent, Live
<1>. QED BY <1>1, <1>2

\* A member of a project that is there.
LEMMA ShareRows ==
  ASSUME RowsOK, Coherent, CallsOK, NEW c \in Caller, ShareInsert(c)
  PROVE  RowsOK' /\ Coherent'
<1> DEFINE p == call[c].p
           m == call[c].m
<1>1. p \in Project /\ m \in User
  BY Locals DEF ShareInsert, At, CallsOK, ShareCall
<1>2. /\ UNCHANGED <<project, item, deps, child, row>>
      /\ members' = members \/ (project[p].live /\ members' = members \cup {<<p, m>>})
  BY DEF ShareInsert
<1>3. \A q \in members' : q \in Project \X User /\ project[q[1]].live
  BY <1>1, <1>2 DEF RowsOK, Coherent
<1>4. members' \subseteq Project \X User
  BY <1>3
<1>. QED BY <1>2, <1>3, <1>4 DEF RowsOK, Coherent, Live

\* A project is written: it is there before or after.
LEMMA WrittenProject ==
  ASSUME RowsOK, Coherent, NEW p \in Project, NEW q \in ProjectRow, q.live,
         project' = [project EXCEPT ![p] = q], UNCHANGED <<members, item, deps, child, row>>
  PROVE  RowsOK' /\ Coherent'
<1>1. project' \in [Project -> ProjectRow] /\ \A r \in Project : project[r].live => project'[r].live
  BY DEF RowsOK
<1>2. \A i \in Item : item[i].project \in Project \cup {Nil}
  BY DEF RowsOK, Row
<1>3. \A m \in members : m[1] \in Project
  BY DEF RowsOK
<1>. QED BY <1>1, <1>2, <1>3 DEF RowsOK, Coherent, Live

LEMMA CreateProjectRows ==
  ASSUME RowsOK, Coherent, CallsOK, NEW c \in Caller, CreateProjectInsert(c)
  PROVE  RowsOK' /\ Coherent'
<1> DEFINE q == [live |-> TRUE, workspace |-> call[c].workspace, repos |-> call[c].repos]
<1>1. call[c] \in CreateProjectCall
  BY Locals DEF CreateProjectInsert, At, CallsOK
<1>2. call[c].p \in Project /\ q \in ProjectRow /\ q.live
  BY <1>1 DEF CreateProjectCall, ProjectRow
<1>3. project' = [project EXCEPT ![call[c].p] = q] /\ UNCHANGED <<members, item, deps, child, row>>
  BY DEF CreateProjectInsert
<1>. HIDE DEF q
<1>. QED BY <1>2, <1>3, WrittenProject

LEMMA ProjectRows ==
  ASSUME RowsOK, Coherent, CallsOK, NEW c \in Caller, ProjectWrite(c)
  PROVE  RowsOK' /\ Coherent'
<1> DEFINE p == call[c].p
           w == Effective(call[c].mode, project[p].workspace)
           r == Effective(call[c].repos, project[p].repos)
           q == [project[p] EXCEPT !.workspace = w, !.repos = r]
<1>1. p \in Project
  BY Locals DEF ProjectWrite, At, CallsOK, UpdateProjectCall
<1>2. CASE UNCHANGED tables
  BY <1>2, KeptRows DEF tables
<1>3. CASE project[p].live
  <2>1. project[p] \in ProjectRow
    BY <1>1 DEF RowsOK
  <2>2. w \in BOOLEAN /\ r \in BOOLEAN
    BY <2>1 DEF Effective, ProjectRow
  <2>3. project' = [project EXCEPT ![p] = q] /\ UNCHANGED <<members, item, deps, child, row>>
    BY <1>3, <1>1 DEF ProjectWrite, RowsOK
  <2>. HIDE DEF w, r
  <2>4. q \in ProjectRow /\ q.live
    BY <1>3, <2>1, <2>2 DEF ProjectRow
  <2>. HIDE DEF q
  <2>. QED BY <1>1, <2>3, <2>4, WrittenProject
<1>. QED BY <1>2, <1>3 DEF ProjectWrite

\* A note or a comment hangs on what is there, or on nothing.
LEMMA WrittenChild ==
  ASSUME RowsOK, Coherent, NEW k \in Child, NEW to \in Item \cup Project \cup {Nil},
         to \in Item => Live(to), to \in Project => project[to].live,
         child' = [child EXCEPT ![k] = to], UNCHANGED <<project, members, item, deps, row>>
  PROVE  RowsOK' /\ Coherent'
  BY DEF RowsOK, Coherent, Live

LEMMA PostRows ==
  ASSUME RowsOK, Coherent, CallsOK, NEW c \in Caller, PostInsert(c) \/ UnpostRow(c)
  PROVE  RowsOK' /\ Coherent'
<1>1. CASE PostInsert(c)
  <2> DEFINE to == call[c].to
  <2>1. call[c].k \in Child /\ to \in Item \cup Project
    BY <1>1, Locals DEF PostInsert, At, CallsOK, PostCall
  <2>2. UNCHANGED <<project, members, item, deps, row>>
    BY <1>1 DEF PostInsert
  <2>3. CASE child' = child
    BY <2>2, <2>3, KeptRows
  <2>4. CASE child' = [child EXCEPT ![call[c].k] = to]
               /\ ((to \in Item /\ Live(to)) \/ (to \in Project /\ project[to].live))
    BY <2>1, <2>2, <2>4, WrittenChild, BoardAssumption
  <2>. QED BY <1>1, <2>3, <2>4 DEF PostInsert
<1>2. CASE UnpostRow(c)
  <2>1. call[c].k \in Child
    BY <1>2, Locals DEF UnpostRow, At, CallsOK, UnpostCall
  <2>. QED BY <1>2, <2>1, WrittenChild, BoardAssumption DEF UnpostRow
<1>. QED BY <1>1, <1>2

\* So does an attachment.
LEMMA FileRows ==
  ASSUME RowsOK, Coherent, CallsOK, NEW c \in Caller, UploadRow(c) \/ DeleteFileRow(c)
  PROVE  RowsOK' /\ Coherent'
<1>1. CASE UploadRow(c)
  <2>1. call[c].f \in File /\ call[c].i \in Item
    BY <1>1, Locals DEF UploadRow, At, CallsOK, UploadCall
  <2>. QED BY <1>1, <2>1 DEF UploadRow, RowsOK, Coherent, Live
<1>2. CASE DeleteFileRow(c)
  <2>1. call[c].f \in File
    BY <1>2, Locals DEF DeleteFileRow, At, CallsOK, DeleteFileCall
  <2>. QED BY <1>2, <2>1 DEF DeleteFileRow, RowsOK, Coherent, Live
<1>. QED BY <1>1, <1>2

-----------------------------------------------------------------------------
(* Theorems *)

BoardInv == RowsOK /\ CallsOK /\ Coherent

\* Every statement of a call keeps the references.
LEMMA CallStepKeeps ==
  ASSUME BoardInv, NEW c \in Caller, CallStep(c)
  PROVE  BoardInv'
<1>. USE DEF BoardInv
<1>1. CASE AskCreate(c) \/ CreateAccess(c) \/ CreateInsert(c)
  <2>1. CallsOK'
    BY <1>1, CreateCalls
  <2>2. CASE CreateInsert(c)
    BY <2>1, <2>2, CreateRows
  <2>3. CASE AskCreate(c) \/ CreateAccess(c)
    BY <2>1, <2>3, KeptRows DEF AskCreate, CreateAccess, Ask, ReadStep, tables
  <2>. QED BY <1>1, <2>2, <2>3
<1>2. CASE \/ AskUpdate(c) \/ AskClaim(c) \/ ClaimCheck(c) \/ UpdateRead(c)
           \/ UpdateBlockers(c) \/ UpdateAccess(c) \/ UpdateWrite(c)
  <2>1. CallsOK'
    BY <1>2, UpdateCalls
  <2>2. CASE UpdateWrite(c)
    BY <2>1, <2>2, UpdateRows
  <2>3. CASE \/ AskUpdate(c) \/ AskClaim(c) \/ ClaimCheck(c) \/ UpdateRead(c)
             \/ UpdateBlockers(c) \/ UpdateAccess(c)
    BY <2>1, <2>3, KeptRows DEF AskUpdate, AskClaim, ClaimCheck, UpdateRead, UpdateBlockers,
                                UpdateAccess, Ask, ReadStep, tables
  <2>. QED BY <1>2, <2>2, <2>3
<1>3. CASE RolloutLocks(c)
  BY <1>3, LockRows DEF RolloutLocks, CallsOK
<1>4. CASE AskDelete(c) \/ DeleteRead(c) \/ DeleteRow(c) \/ DeleteFiles(c)
  <2>1. CallsOK'
    BY <1>4, DeleteCalls
  <2>2. CASE DeleteRow(c)
    BY <2>1, <2>2, DeleteRows
  <2>3. CASE AskDelete(c) \/ DeleteRead(c) \/ DeleteFiles(c)
    BY <2>1, <2>3, KeptRows DEF AskDelete, DeleteRead, DeleteFiles, Ask, ReadStep, tables
  <2>. QED BY <1>4, <2>2, <2>3
<1>5. CASE \/ AskAddBlocker(c) \/ AddReadItem(c) \/ AddReadBlocker(c) \/ AddExisting(c)
           \/ AddWalk(c) \/ AddInsert(c)
  <2>1. CallsOK'
    BY <1>5, AddBlockerCalls
  <2>2. CASE AddInsert(c)
    BY <2>1, <2>2, AddRows
  <2>3. CASE \/ AskAddBlocker(c) \/ AddReadItem(c) \/ AddReadBlocker(c) \/ AddExisting(c)
             \/ AddWalk(c)
    BY <2>1, <2>3, KeptRows DEF AskAddBlocker, AddReadItem, AddReadBlocker, AddExisting,
                                AddWalk, Ask, ReadStep, tables
  <2>. QED BY <1>5, <2>2, <2>3
<1>6. CASE AskRemoveBlocker(c) \/ RemoveRead(c) \/ RemoveRow(c)
  <2>1. CallsOK'
    BY <1>6, RemoveBlockerCalls
  <2>2. CASE RemoveRow(c)
    BY <2>1, <2>2, FewerRows
  <2>3. CASE AskRemoveBlocker(c) \/ RemoveRead(c)
    BY <2>1, <2>3, KeptRows DEF AskRemoveBlocker, RemoveRead, Ask, ReadStep, tables
  <2>. QED BY <1>6, <2>2, <2>3
<1>7. CASE \/ AskShare(c) \/ ShareOwner(c) \/ ShareExisting(c) \/ ShareCount(c)
           \/ ShareInsert(c) \/ ShareEdges(c) \/ SharePurge(c)
  <2>1. CallsOK'
    BY <1>7, ShareCalls
  <2>2. CASE ShareInsert(c)
    BY <2>1, <2>2, ShareRows
  <2>3. CASE SharePurge(c)
    BY <2>1, <2>3, FewerRows
  <2>4. CASE \/ AskShare(c) \/ ShareOwner(c) \/ ShareExisting(c) \/ ShareCount(c)
             \/ ShareEdges(c)
    BY <2>1, <2>4, KeptRows DEF AskShare, ShareOwner, ShareExisting, ShareCount, ShareEdges,
                                Ask, ReadStep, tables
  <2>. QED BY <1>7, <2>2, <2>3, <2>4
<1>8. CASE AskUnshare(c) \/ UnshareOwner(c) \/ UnshareRow(c)
  <2>1. CallsOK'
    BY <1>8, UnshareCalls
  <2>2. CASE UnshareRow(c)
    BY <2>1, <2>2, FewerRows
  <2>3. CASE AskUnshare(c) \/ UnshareOwner(c)
    BY <2>1, <2>3, KeptRows DEF AskUnshare, UnshareOwner, Ask, ReadStep, tables
  <2>. QED BY <1>8, <2>2, <2>3
<1>9. CASE AskCreateProject(c) \/ CreateProjectInsert(c)
  <2>1. CallsOK'
    BY <1>9, CreateProjectCalls
  <2>2. CASE CreateProjectInsert(c)
    BY <2>1, <2>2, CreateProjectRows
  <2>3. CASE AskCreateProject(c)
    BY <2>1, <2>3, KeptRows DEF AskCreateProject, Ask, tables
  <2>. QED BY <1>9, <2>2, <2>3
<1>10. CASE AskUpdateProject(c) \/ ProjectRead(c) \/ ProjectWrite(c)
  <2>1. CallsOK'
    BY <1>10, UpdateProjectCalls
  <2>2. CASE ProjectWrite(c)
    BY <2>1, <2>2, ProjectRows
  <2>3. CASE AskUpdateProject(c) \/ ProjectRead(c)
    BY <2>1, <2>3, KeptRows DEF AskUpdateProject, ProjectRead, Ask, ReadStep, tables
  <2>. QED BY <1>10, <2>2, <2>3
<1>11. CASE AskDeleteProject(c) \/ DeleteProjectOwner(c) \/ DeleteProjectRow(c)
  <2>1. CallsOK'
    BY <1>11, DeleteProjectCalls
  <2>2. CASE DeleteProjectRow(c)
    BY <2>1, <2>2, DeleteProjectRows
  <2>3. CASE AskDeleteProject(c) \/ DeleteProjectOwner(c)
    BY <2>1, <2>3, KeptRows DEF AskDeleteProject, DeleteProjectOwner, Ask, ReadStep, tables
  <2>. QED BY <1>11, <2>2, <2>3
<1>12. CASE AskPost(c) \/ PostAccess(c) \/ PostInsert(c)
  <2>1. CallsOK'
    BY <1>12, PostCalls
  <2>2. CASE PostInsert(c)
    BY <2>1, <2>2, PostRows
  <2>3. CASE AskPost(c) \/ PostAccess(c)
    BY <2>1, <2>3, KeptRows DEF AskPost, PostAccess, Ask, ReadStep, tables
  <2>. QED BY <1>12, <2>2, <2>3
<1>13. CASE AskUnpost(c) \/ UnpostRead(c) \/ UnpostRow(c)
  <2>1. CallsOK'
    BY <1>13, UnpostCalls
  <2>2. CASE UnpostRow(c)
    BY <2>1, <2>2, PostRows
  <2>3. CASE AskUnpost(c) \/ UnpostRead(c)
    BY <2>1, <2>3, KeptRows DEF AskUnpost, UnpostRead, Ask, ReadStep, tables
  <2>. QED BY <1>13, <2>2, <2>3
<1>14. CASE AskUpload(c) \/ UploadAccess(c) \/ UploadFile(c) \/ UploadRow(c)
  <2>1. CallsOK'
    BY <1>14, UploadCalls
  <2>2. CASE UploadRow(c)
    BY <2>1, <2>2, FileRows
  <2>3. CASE AskUpload(c) \/ UploadAccess(c) \/ UploadFile(c)
    BY <2>1, <2>3, KeptRows DEF AskUpload, UploadAccess, UploadFile, Ask, ReadStep, tables
  <2>. QED BY <1>14, <2>2, <2>3
<1>15. CASE AskDeleteFile(c) \/ DeleteFileRead(c) \/ DeleteFileAccess(c) \/ DeleteFileRow(c)
  <2>1. CallsOK'
    BY <1>15, DeleteFileCalls
  <2>2. CASE DeleteFileRow(c)
    BY <2>1, <2>2, FileRows
  <2>3. CASE AskDeleteFile(c) \/ DeleteFileRead(c) \/ DeleteFileAccess(c)
    BY <2>1, <2>3, KeptRows DEF AskDeleteFile, DeleteFileRead, DeleteFileAccess, Ask,
                                ReadStep, tables
  <2>. QED BY <1>15, <2>2, <2>3
<1>. QED BY <1>1, <1>2, <1>3, <1>4, <1>5, <1>6, <1>7, <1>8, <1>9, <1>10, <1>11, <1>12, <1>13,
            <1>14, <1>15 DEF CallStep

\* A restart sweeps the blockers that cross projects, and leaves no call.
LEMMA RestartKeeps ==
  ASSUME BoardInv, Restart
  PROVE  BoardInv'
<1>1. CallsOK'
  BY LocalsOfCall DEF Restart, CallsOK
<1>2. RowsOK' /\ Coherent'
  <2> DEFINE new == {}
  <2>1. new \in SUBSET Edge /\ \A e \in new : Live(e[1]) /\ Live(e[2])
    OBVIOUS
  <2>2. deps' \subseteq deps \cup new /\ UNCHANGED <<project, members, item, child, row>>
    BY DEF Restart
  <2>. HIDE DEF new
  <2>. QED BY <2>1, <2>2, BlockerRows DEF BoardInv
<1>. QED BY <1>1, <1>2 DEF BoardInv

\* Statements of the accounts that keep the board's rows, or delete what a user
\* wrote and where it was a member.
LEMMA RequestStepKeeps ==
  ASSUME BoardInv, NEW c \in Caller, RequestStep(c)
  PROVE  BoardInv'
<1>1. CASE DeleteUserPosts(c)
  <2>1. /\ child' = [k \in Child |-> IF author[k] = req[c].u THEN Nil ELSE child[k]]
        /\ UNCHANGED <<project, members, item, deps, row, call>>
    BY <1>1 DEF DeleteUserPosts
  <2>. QED BY <2>1, BoardAssumption DEF BoardInv, RowsOK, CallsOK, Coherent, Live
<1>2. CASE DeleteUserRow(c)
  <2>1. members' \subseteq members /\ UNCHANGED <<project, item, deps, child, row, call>>
    BY <1>2 DEF DeleteUserRow
  <2>. QED BY <2>1 DEF BoardInv, RowsOK, CallsOK, Coherent, Live
<1>3. CASE ~DeleteUserPosts(c) /\ ~DeleteUserRow(c)
  <2>1. UNCHANGED <<tables, call>>
    BY <1>3 DEF RequestStep, AskRegister, RegisterInvite, RegisterMail, RegisterCommit,
       AskReset, ResetLink, ResetCommit, AskPassword, PasswordAuth, PasswordWrite,
       AskNewKey, NewKeyAuth, NewKeyInsert, AskDropKey, DropKeyAuth, DropKeyRead, DropKeyRow,
       AskInvite, InviteAuth, InviteInsert, AskRevoke, RevokeAuth, RevokeRead, RevokeRow,
       AskOnUser, OnUserAuth, OnUserRead, IssueInsert, PromoteWrite, DeleteAuth,
       DeleteUserRead, DeleteUserProjects, DeleteUserItems, DeleteUserResets,
       DeleteUserInvites, DeleteUserKeys, Demand, Authenticate, LookStep, BoardKept
  <2>. QED BY <2>1, KeptRows DEF BoardInv, CallsOK, tables
<1>. QED BY <1>1, <1>2, <1>3

\* The initial state, and every step of the accounts and of the board's calls.
THEOREM BoardInductive == AccountsSpec => []BoardInv
<1>1. AccountsInit => BoardInv
  <2>. SUFFICES ASSUME Init PROVE BoardInv
    BY DEF AccountsInit
  <2>1. \A p \in Project : NewRow(Owner[p], p) \in Row
    BY BoardAssumption DEF NewRow, Unused, Row, Status, Engine
  <2>2. Unused \in Row
    BY DEF Unused, Row, Status, Engine
  <2> DEFINE there == {p \in Project : project[p].live}
             new   == {NewRow(Owner[p], p) : p \in there}
  <2>3. item \in [Item -> {Unused} \cup new]
    BY DEF Init
  <2>4. RowsOK
    <3>1. project \in [Project -> ProjectRow]
      BY DEF Init, ProjectRow
    <3>2. {Unused} \cup new \subseteq Row
      BY <2>1, <2>2
    <3>3. item \in [Item -> Row]
      <4>. HIDE DEF new
      <4>. QED BY <2>3, <3>2
    <3>. QED BY <3>1, <3>3 DEF Init, RowsOK
  <2>5. Coherent
    <3>1. ASSUME NEW i \in Item, Live(i)
          PROVE  project[item[i].project].live
      <4>1. item[i] # Unused
        BY <3>1 DEF Live, Unused
      <4>2. PICK p \in there : item[i] = NewRow(Owner[p], p)
        BY <2>3, <4>1
      <4>3. item[i].project = p
        BY <4>2 DEF NewRow, Unused
      <4>. QED BY <4>2, <4>3
    <3>. QED BY <3>1, BoardAssumption DEF Init, Coherent
  <2>. QED BY <2>4, <2>5, LocalsOfCall DEF Init, BoardInv, CallsOK
<1>2. BoardInv /\ [AccountsNext]_accountsVars => BoardInv'
  <2>. SUFFICES ASSUME BoardInv, [AccountsNext]_accountsVars PROVE BoardInv'
    OBVIOUS
  <2>1. CASE AccountsRestart
    BY <2>1, RestartKeeps DEF AccountsRestart
  <2>2. ASSUME NEW l \in Link, LinkExpires(l) PROVE BoardInv'
    <3>1. UNCHANGED <<tables, call>>
      BY <2>2 DEF LinkExpires, BoardKept
    <3>. QED BY <3>1, KeptRows DEF BoardInv, CallsOK, tables
  <2>3. ASSUME NEW c \in Caller, BoardStep(c) PROVE BoardInv'
    BY <2>3, CallStepKeeps DEF BoardStep
  <2>4. ASSUME NEW c \in Caller, InsertRefused(c) PROVE BoardInv'
    <3>1. UNCHANGED tables /\ End(c)
      BY <2>4 DEF InsertRefused, ReadStep
    <3>. QED BY <3>1, KeptRows, EndType DEF BoardInv, tables
  <2>5. ASSUME NEW c \in Caller, RequestStep(c) PROVE BoardInv'
    BY <2>5, RequestStepKeeps
  <2>6. CASE UNCHANGED vars
    BY <2>6, KeptRows DEF vars, tables, BoardInv, CallsOK
  <2>. QED BY <2>1, <2>2, <2>3, <2>4, <2>5, <2>6 DEF AccountsNext, Publish, accountsVars
<1>. QED BY <1>1, <1>2, PTL DEF AccountsSpec

\* Whatever is deleted while it is being written, every blocker, note, comment,
\* attachment, membership and item refers to a row there is (the checks of the
\* services, and the foreign keys where a check has come too early).
THEOREM BoardCoherent == AccountsSpec => []Coherent
<1>1. BoardInv => Coherent
  BY DEF BoardInv
<1>. QED BY <1>1, BoardInductive, PTL

-----------------------------------------------------------------------------
(* Attachments and their files *)

\* The locals of a call are a record with an op.
LEMMA HasOp ==
  ASSUME NEW q \in Call
  PROVE  "op" \in DOMAIN q /\ q = [x \in DOMAIN q |-> q[x]]
<1> DEFINE Rec(r) == "op" \in DOMAIN r /\ r = [x \in DOMAIN r |-> r[x]]
<1>1. \A r \in CreateCall : Rec(r)
  BY DEF CreateCall
<1>2. \A r \in UpdateCall : Rec(r)
  BY DEF UpdateCall
<1>3. \A r \in DeleteCall : Rec(r)
  BY DEF DeleteCall
<1>4. \A r \in AddBlockerCall : Rec(r)
  BY DEF AddBlockerCall
<1>5. \A r \in RemoveBlockerCall : Rec(r)
  BY DEF RemoveBlockerCall
<1>6. \A r \in ShareCall : Rec(r)
  BY DEF ShareCall
<1>7. \A r \in UnshareCall : Rec(r)
  BY DEF UnshareCall
<1>8. \A r \in UpdateProjectCall : Rec(r)
  BY DEF UpdateProjectCall
<1>9. \A r \in CreateProjectCall : Rec(r)
  BY DEF CreateProjectCall
<1>10. \A r \in DeleteProjectCall : Rec(r)
  BY DEF DeleteProjectCall
<1>11. \A r \in PostCall : Rec(r)
  BY DEF PostCall
<1>12. \A r \in UnpostCall : Rec(r)
  BY DEF UnpostCall
<1>13. \A r \in UploadCall : Rec(r)
  BY DEF UploadCall
<1>14. \A r \in DeleteFileCall : Rec(r)
  BY DEF DeleteFileCall
<1>15. Rec(NoCall)
  BY DEF NoCall
<1>16. Rec(q)
  BY <1>1, <1>2, <1>3, <1>4, <1>5, <1>6, <1>7, <1>8, <1>9, <1>10, <1>11, <1>12, <1>13,
     <1>14, <1>15 DEF Call
<1>. QED BY <1>16

\* What a call on an attachment, or on an item with attachments, relies on: the
\* id of an upload is its own until the row is there; an item that a deletion
\* has found is there or gone for good; and what another deletion has found is
\* the file of an upload that is over.
UploadOK(c) ==
  LET f == call[c].f  i == call[c].i IN
  call[c].op = "upload" =>
    /\ f \in used /\ row[f] = Nil
    /\ call[c].at \in {"access", "file"} => disk[f] = Nil
    /\ call[c].at = "row" => disk[f] = i \/ item[i].state = "gone"
    /\ \A d \in Caller \ {c} :
         call[d].op = "upload" \/ At(d, "delete_file", "access") \/ At(d, "delete_file", "row")
           => call[d].f # f
DeletionOK(c) ==
  /\ At(c, "delete", "row") => item[call[c].i].state # "unused"
  /\ At(c, "delete", "files") => item[call[c].i].state = "gone"
  /\ At(c, "delete_file", "access") \/ At(c, "delete_file", "row") => call[c].f \in used
  /\ At(c, "delete_file", "row") => disk[call[c].f] = Nil
FilesOK ==
  /\ disk \in [File -> Item \cup {Nil}]
  /\ \A f \in File : /\ disk[f] = Nil \/ row[f] = Nil \/ row[f] = disk[f]
                     /\ f \notin used => row[f] = Nil /\ disk[f] = Nil
  /\ \A c \in Caller : UploadOK(c) /\ DeletionOK(c)
  /\ FilesMatchRows

FileOps == {"upload", "delete", "delete_file"}

\* A step of a call on something else disturbs none of this.
LEMMA OtherCall ==
  ASSUME FilesOK, NEW c \in Caller,
         \A d \in Caller \ {c} : call'[d] = call[d] \/ {call[d].op, call'[d].op} = {"share"},
         call[c].op \notin FileOps, call'[c].op \notin FileOps,
         UNCHANGED <<row, disk>>, used \subseteq used', excused \subseteq excused',
         \A i \in Item : /\ item[i].state = "gone" => item'[i].state = "gone"
                         /\ item'[i].state = "unused" => item[i].state = "unused",
         CallsOK
  PROVE  FilesOK'
<1>1. ASSUME NEW d \in Caller, call'[d].op \in FileOps
      PROVE  d # c /\ call'[d] = call[d]
  BY <1>1 DEF FileOps
<1>2. ASSUME NEW d \in Caller, call[d].op \in FileOps
      PROVE  d # c /\ call'[d] = call[d]
  BY <1>2 DEF FileOps
<1>3. \A d \in Caller : call[d].op = "upload" \/ At(d, "delete", "row") \/ At(d, "delete", "files")
                          => call[d].i \in Item
  BY Locals DEF CallsOK, UploadCall, DeleteCall, At
<1>4. \A d \in Caller : UploadOK(d)'
  <2>. TAKE d \in Caller
  <2>1. CASE call'[d].op # "upload"
    BY <2>1 DEF UploadOK
  <2>2. CASE call'[d].op = "upload"
    <3>1. call'[d] = call[d] /\ UploadOK(d)
      BY <2>2, <1>1 DEF FileOps, FilesOK
    <3>2. ASSUME NEW e \in Caller \ {d},
                 (call[e].op = "upload" \/ At(e, "delete_file", "access")
                    \/ At(e, "delete_file", "row"))'
          PROVE  call'[e].f # call'[d].f
      <4>1. call'[e] = call[e]
        BY <3>2, <1>1 DEF FileOps, At
      <4>. QED BY <3>1, <3>2, <4>1, <2>2 DEF UploadOK, At
    <3>3. call[d].i \in Item
      BY <2>2, <3>1, <1>3
    <3>. QED BY <2>2, <3>1, <3>2, <3>3 DEF UploadOK
  <2>. QED BY <2>1, <2>2
<1>5. \A d \in Caller : DeletionOK(d)'
  BY <1>1, <1>3 DEF FilesOK, DeletionOK, At, FileOps
<1>6. FilesMatchRows'
  BY <1>2 DEF FilesOK, FilesMatchRows, At, FileOps
<1>. QED BY <1>4, <1>5, <1>6 DEF FilesOK

\* A call begins that is not about an attachment.
LEMMA AskOther ==
  ASSUME FilesOK, CallsOK, NEW c \in Caller, NEW r, r.op \notin FileOps, Ask(c, r)
  PROVE  FilesOK'
<1>1. call[c].op \notin FileOps /\ call'[c] = r /\ \A d \in Caller \ {c} : call'[d] = call[d]
  BY DEF Ask, Busy, FileOps, CallsOK
<1>2. UNCHANGED <<item, row, disk, excused>> /\ used \subseteq used'
  BY DEF Ask, tables, history
<1>. QED BY <1>1, <1>2, OtherCall

\* A call goes on, or ends, with a statement that deletes no item.
LEMMA StepOther ==
  ASSUME FilesOK, CallsOK, NEW c \in Caller, call[c].op \notin FileOps,
         call'[c].op \in {call[c].op, "none"}, \A d \in Caller \ {c} : call'[d] = call[d],
         UNCHANGED <<row, disk, used, excused>>,
         \A i \in Item : /\ item[i].state = "gone" => item'[i].state = "gone"
                         /\ item'[i].state = "unused" => item[i].state = "unused"
  PROVE  FilesOK'
<1>1. call'[c].op \notin FileOps
  BY DEF FileOps
<1>. QED BY <1>1, OtherCall

\* A read, which changes a local or two of its call.
LEMMA ReadOther ==
  ASSUME FilesOK, CallsOK, NEW c \in Caller, call[c].op \notin FileOps, ReadStep(c),
         \/ End(c)
         \/ \E a, x : a # "op" /\ call' = [call EXCEPT ![c][a] = x]
         \/ \E a, x, b, y : /\ a # "op" /\ b # "op"
                            /\ call' = [call EXCEPT ![c][a] = x, ![c][b] = y]
         \/ \E a, x, b, y, d, z : /\ a # "op" /\ b # "op" /\ d # "op"
                                  /\ call' = [call EXCEPT ![c][a] = x, ![c][b] = y, ![c][d] = z]
  PROVE  FilesOK'
<1>1. call[c] \in Call
  BY DEF CallsOK
<1>2. call'[c].op \in {call[c].op, "none"} /\ \A d \in Caller \ {c} : call'[d] = call[d]
  <2>1. CASE End(c)
    BY <2>1 DEF End, NoCall, CallsOK
  <2>2. CASE \E a, x : a # "op" /\ call' = [call EXCEPT ![c][a] = x]
    BY <1>1, <2>2, HasOp DEF CallsOK
  <2>3. CASE \E a, x, b, y : /\ a # "op" /\ b # "op"
                             /\ call' = [call EXCEPT ![c][a] = x, ![c][b] = y]
    <3>1. PICK a, x, b, y : /\ a # "op" /\ b # "op"
                            /\ call' = [call EXCEPT ![c][a] = x, ![c][b] = y]
      BY <2>3
    <3>2. call'[c] = [call[c] EXCEPT ![a] = x, ![b] = y]
      BY <3>1 DEF CallsOK
    <3>3. call'[c].op = call[c].op
      BY <1>1, <3>1, <3>2, HasOp
    <3>4. \A e \in Caller \ {c} : call'[e] = call[e]
      BY <3>1 DEF CallsOK
    <3>. QED BY <3>3, <3>4
  <2>4. CASE \E a, x, b, y, d, z :
               /\ a # "op" /\ b # "op" /\ d # "op"
               /\ call' = [call EXCEPT ![c][a] = x, ![c][b] = y, ![c][d] = z]
    <3>1. PICK a, x, b, y, d, z :
            /\ a # "op" /\ b # "op" /\ d # "op"
            /\ call' = [call EXCEPT ![c][a] = x, ![c][b] = y, ![c][d] = z]
      BY <2>4
    <3>2. call'[c] = [call[c] EXCEPT ![a] = x, ![b] = y, ![d] = z]
      BY <3>1 DEF CallsOK
    <3>3. call'[c].op = call[c].op
      BY <1>1, <3>1, <3>2, HasOp
    <3>4. \A e \in Caller \ {c} : call'[e] = call[e]
      BY <3>1 DEF CallsOK
    <3>. QED BY <3>3, <3>4
  <2>. QED BY <2>1, <2>2, <2>3, <2>4
<1>3. UNCHANGED <<item, row, disk, used, excused>>
  BY DEF ReadStep, tables, history, Steady
<1>. QED BY <1>2, <1>3, StepOther

LEMMA LookOther ==
  ASSUME FilesOK, CallsOK, NEW c \in Caller, call[c].op \notin FileOps, ReadStep(c),
         End(c) \/ \E at : Go(c, at)
  PROVE  FilesOK'
<1>1. CASE End(c)
  BY <1>1, ReadOther
<1>2. CASE \E at : Go(c, at)
  BY <1>2, ReadOther DEF Go
<1>. QED BY <1>1, <1>2

\* The statements that change no attachment, file or item.
LEMMA ReadsOther ==
  ASSUME FilesOK, CallsOK, NEW c \in Caller,
         \/ CreateAccess(c) \/ ClaimCheck(c) \/ UpdateRead(c) \/ UpdateBlockers(c)
         \/ UpdateAccess(c)
         \/ AddReadItem(c) \/ AddReadBlocker(c) \/ AddExisting(c) \/ AddWalk(c)
         \/ RemoveRead(c) \/ ShareOwner(c) \/ ShareExisting(c) \/ ShareCount(c)
         \/ UnshareOwner(c) \/ ProjectRead(c) \/ DeleteProjectOwner(c) \/ PostAccess(c)
         \/ UnpostRead(c)
  PROVE  FilesOK'
<1>1. call[c].op \notin FileOps /\ ReadStep(c)
  BY DEF CreateAccess, ClaimCheck, UpdateRead, UpdateBlockers, UpdateAccess, AddReadItem,
         AddReadBlocker, AddExisting, AddWalk, RemoveRead, ShareOwner, ShareExisting,
         ShareCount, UnshareOwner, ProjectRead, DeleteProjectOwner, PostAccess, UnpostRead,
         At, FileOps
<1>2. CASE End(c) \/ \E at : Go(c, at)
  BY <1>1, <1>2, LookOther
<1>3. CASE ~End(c) /\ ~\E at : Go(c, at)
  <2>1. CASE UpdateRead(c)
    <3>1. PICK at : call' = [call EXCEPT ![c].row = item[call[c].i], ![c].at = at]
      BY <1>3, <2>1 DEF UpdateRead
    <3>. QED BY <1>1, <3>1, ReadOther
  <2>2. CASE AddReadItem(c)
    BY <1>1, <1>3, <2>2, ReadOther DEF AddReadItem
  <2>3. CASE AddExisting(c)
    <3>1. call' = [call EXCEPT ![c].at = "walk", ![c].seen = {call[c].b},
                               ![c].queue = {call[c].b}]
      BY <1>3, <2>3 DEF AddExisting
    <3>. QED BY <1>1, <3>1, ReadOther
  <2>4. CASE AddWalk(c)
    BY <1>1, <1>3, <2>4, ReadOther DEF AddWalk
  <2>5. CASE ShareCount(c)
    BY <1>1, <1>3, <2>5, ReadOther DEF ShareCount
  <2>6. CASE ProjectRead(c)
    BY <1>1, <1>3, <2>6, ReadOther DEF ProjectRead
  <2>7. CASE ~UpdateRead(c) /\ ~AddReadItem(c) /\ ~AddExisting(c) /\ ~AddWalk(c)
             /\ ~ShareCount(c) /\ ~ProjectRead(c)
    BY <1>3, <2>7 DEF CreateAccess, ClaimCheck, UpdateBlockers, UpdateAccess,
       AddReadBlocker, RemoveRead, ShareOwner, ShareExisting, UnshareOwner,
       DeleteProjectOwner, PostAccess, UnpostRead
  <2>. QED BY <2>1, <2>2, <2>3, <2>4, <2>5, <2>6, <2>7
<1>. QED BY <1>2, <1>3

\* An item that is written does not come back, and is one that was created.
LEMMA NoneReturns ==
  ASSUME RowsOK, NEW i \in Item, item[i].state # "gone", NEW r, r.state = "live",
         item' = [item EXCEPT ![i] = r]
  PROVE  \A j \in Item : /\ item[j].state = "gone" => item'[j].state = "gone"
                         /\ item'[j].state = "unused" => item[j].state = "unused"
  BY DEF RowsOK

\* The statements that write something else.
LEMMA WritesOther ==
  ASSUME FilesOK, RowsOK, CallsOK, NEW c \in Caller,
         \/ CreateInsert(c) \/ UpdateWrite(c) \/ RolloutLocks(c) \/ AddInsert(c)
         \/ RemoveRow(c) \/ ShareInsert(c) \/ ShareEdges(c) \/ SharePurge(c)
         \/ UnshareRow(c) \/ CreateProjectInsert(c) \/ ProjectWrite(c)
         \/ PostInsert(c) \/ UnpostRow(c)
  PROVE  FilesOK'
<1> DEFINE Later == \A i \in Item : /\ item[i].state = "gone" => item'[i].state = "gone"
                                    /\ item'[i].state = "unused" => item[i].state = "unused"
<1>1. ASSUME Later, End(c), call[c].op \notin FileOps,
             UNCHANGED <<row, disk, used, excused>>
      PROVE  FilesOK'
  BY <1>1, StepOther DEF End, NoCall, CallsOK
<1>2. CASE CreateInsert(c)
  <2>1. Later
    <3>1. CASE UNCHANGED tables
      BY <3>1 DEF tables
    <3>2. CASE ~UNCHANGED tables
      <4>1. PICK i \in Item : item[i].state = "unused"
                                /\ item' = [item EXCEPT ![i] = NewRow(call[c].by, call[c].p)]
        BY <1>2, <3>2 DEF CreateInsert
      <4>2. NewRow(call[c].by, call[c].p).state = "live"
        BY DEF NewRow, Unused
      <4>. QED BY <4>1, <4>2, NoneReturns
    <3>. QED BY <3>1, <3>2
  <2>2. End(c) /\ call[c].op \notin FileOps /\ UNCHANGED <<row, disk, used, excused>>
    BY <1>2 DEF CreateInsert, At, FileOps, tables, history, Steady
  <2>. QED BY <1>1, <2>1, <2>2
<1>3. CASE UpdateWrite(c)
  <2>1. Later
    <3>1. CASE UNCHANGED tables
      BY <3>1 DEF tables
    <3>2. CASE ~UNCHANGED tables
      <4>1. Live(call[c].i) /\ item' = [item EXCEPT ![call[c].i] = Updated(@, call[c].want)]
        BY <1>3, <3>2 DEF UpdateWrite
      <4>2. call[c].i \in Item /\ call[c].want \in Want
        BY <1>3, Locals DEF UpdateWrite, CallsOK, UpdateCall
      <4>3. Updated(item[call[c].i], call[c].want).state = "live"
        BY <4>1, <4>2, UpdatedRow DEF Live, RowsOK
      <4>. QED BY <4>1, <4>2, <4>3, NoneReturns DEF Live
    <3>. QED BY <3>1, <3>2
  <2>2. End(c) /\ call[c].op \notin FileOps /\ UNCHANGED <<row, disk, used, excused>>
    BY <1>3 DEF UpdateWrite, FileOps, tables, Steady
  <2>. QED BY <1>1, <2>1, <2>2
<1>4. CASE RolloutLocks(c)
  <2>1. PICK i \in Item : Live(i) /\ item' = [item EXCEPT ![i] = [item[i] EXCEPT !.locked = ~@]]
    BY <1>4 DEF RolloutLocks
  <2>2. [item[i] EXCEPT !.locked = ~@].state = "live"
    BY <2>1 DEF Live, RowsOK, Row
  <2>3. Later
    BY <2>1, <2>2, NoneReturns DEF Live
  <2>4. call[c].op \notin FileOps /\ UNCHANGED <<call, row, disk, used, excused>>
    BY <1>4 DEF RolloutLocks, Busy, FileOps, history
  <2>. QED BY <2>3, <2>4, StepOther
<1>5. CASE AddInsert(c)
  <2>1. call[c].op \notin FileOps /\ UNCHANGED <<item, row, disk, used, excused>>
    BY <1>5 DEF AddInsert, At, FileOps, tables, Steady
  <2>2. CASE End(c)
    BY <1>1, <2>1, <2>2
  <2>3. CASE ~End(c)
    <3>1. PICK e : EndAdding(c, e)
      BY <1>5, <2>3 DEF AddInsert
    <3>2. call'[c].op \notin FileOps
      BY <3>1 DEF EndAdding, NoCall, FileOps
    <3>3. ASSUME NEW d \in Caller \ {c}
          PROVE  call'[d] = call[d] \/ {call[d].op, call'[d].op} = {"share"}
      BY <3>1, HasOp DEF EndAdding, CallsOK
    <3>. QED BY <2>1, <3>2, <3>3, OtherCall
  <2>. QED BY <2>2, <2>3
<1>6. CASE ShareInsert(c) \/ ShareEdges(c) \/ SharePurge(c)
  <2>1. call[c].op \notin FileOps /\ UNCHANGED <<item, row, disk, used, excused>>
    BY <1>6 DEF ShareInsert, ShareEdges, SharePurge, At, FileOps, tables, history, Steady
  <2>2. CASE End(c)
    BY <1>1, <2>1, <2>2
  <2>3. CASE ~End(c)
    <3>1. \/ Go(c, "edges")
          \/ call' = [call EXCEPT ![c].at = "purge", ![c].doomed = CrossingEdges(call[c].p)]
          \/ \E e : call' = [call EXCEPT ![c].doomed = @ \ {e}]
      BY <1>6, <2>3 DEF ShareInsert, ShareEdges, SharePurge
    <3>2. \A d \in Caller \ {c} : call'[d] = call[d]
      BY <3>1 DEF Go, CallsOK
    <3>3. \/ call'[c] = [call[c] EXCEPT !.at = "edges"]
          \/ call'[c] = [call[c] EXCEPT !.at = "purge", !.doomed = CrossingEdges(call[c].p)]
          \/ \E e : call'[c] = [call[c] EXCEPT !.doomed = @ \ {e}]
      BY <3>1 DEF Go, CallsOK
    <3>4. call'[c].op = call[c].op
      BY <3>3, HasOp DEF CallsOK
    <3>. QED BY <2>1, <3>2, <3>4, StepOther
  <2>. QED BY <2>2, <2>3
<1>7. CASE \/ RemoveRow(c) \/ UnshareRow(c) \/ CreateProjectInsert(c) \/ ProjectWrite(c)
           \/ PostInsert(c) \/ UnpostRow(c)
  <2>1. /\ End(c) /\ call[c].op \notin FileOps
        /\ UNCHANGED <<item, row, disk, used, excused>>
    BY <1>7 DEF RemoveRow, UnshareRow, CreateProjectInsert, ProjectWrite,
       PostInsert, UnpostRow, At, FileOps, tables, history, Steady
  <2>. QED BY <1>1, <2>1
<1>. QED BY <1>2, <1>3, <1>4, <1>5, <1>6, <1>7

\* The calls on attachments.
LEMMA UploadFiles ==
  ASSUME FilesOK, RowsOK, CallsOK, Coherent, NEW c \in Caller,
         AskUpload(c) \/ UploadAccess(c) \/ UploadFile(c) \/ UploadRow(c)
  PROVE  FilesOK'
<1>1. CASE AskUpload(c)
  <2>1. PICK u \in User, f \in File, i \in Item :
          /\ f \notin used
          /\ Ask(c, [op |-> "upload", at |-> "access", by |-> u, f |-> f, i |-> i])
    BY <1>1 DEF AskUpload
  <2>2. /\ call[c].op = "none" /\ call'[c].op = "upload" /\ call'[c].at = "access"
        /\ call'[c].f = f
        /\ \A d \in Caller \ {c} : call'[d] = call[d]
        /\ UNCHANGED <<item, row, disk, excused>> /\ used' = used \cup {f}
    BY <2>1 DEF Ask, Busy, CallsOK, tables, history
  <2>3. \A d \in Caller \ {c} :
          call[d].op = "upload" \/ At(d, "delete_file", "access") \/ At(d, "delete_file", "row")
            => call[d].f # f
    BY <2>1 DEF FilesOK, UploadOK, DeletionOK
  <2>4. row[f] = Nil /\ disk[f] = Nil
    BY <2>1 DEF FilesOK
  <2>5. \A d \in Caller : UploadOK(d)'
    BY <2>2, <2>3, <2>4 DEF FilesOK, UploadOK, At
  <2>6. \A d \in Caller : DeletionOK(d)'
    BY <2>2 DEF FilesOK, DeletionOK, At
  <2>7. FilesMatchRows'
    BY <2>2 DEF FilesOK, FilesMatchRows, At
  <2>. QED BY <2>2, <2>5, <2>6, <2>7 DEF FilesOK
<1>2. ASSUME call[c].op = "upload"
      PROVE  call[c] \in UploadCall /\ call[c].f \in File /\ call[c].i \in Item
  BY <1>2, Locals DEF CallsOK, UploadCall
<1>3. CASE UploadAccess(c)
  <2>1. /\ call[c].op = "upload" /\ call[c].at = "access"
        /\ UNCHANGED <<item, row, disk, used, excused>>
    BY <1>3 DEF UploadAccess, At, ReadStep, tables, history, Steady
  <2>2. /\ \A d \in Caller \ {c} : call'[d] = call[d]
        /\ call'[c] = NoCall \/ call'[c] = [call[c] EXCEPT !.at = "file"]
    BY <1>3 DEF UploadAccess, Go, End, CallsOK
  <2>3. call'[c].op = "none" \/ (/\ call'[c].op = "upload" /\ call'[c].at = "file"
                                 /\ call'[c].f = call[c].f)
    BY <1>2, <2>1, <2>2 DEF UploadCall, NoCall
  <2>4. \A d \in Caller : UploadOK(d)'
    BY <2>1, <2>2, <2>3 DEF FilesOK, UploadOK, At
  <2>5. \A d \in Caller : DeletionOK(d)'
    BY <2>1, <2>2, <2>3 DEF FilesOK, DeletionOK, At
  <2>6. FilesMatchRows'
    BY <2>1, <2>2 DEF FilesOK, FilesMatchRows, At
  <2>. QED BY <2>1, <2>4, <2>5, <2>6 DEF FilesOK
<1>4. CASE UploadFile(c)
  <2> DEFINE f == call[c].f
             i == call[c].i
  <2>1. /\ call[c].op = "upload" /\ call[c].at = "file"
        /\ disk' = [disk EXCEPT ![f] = i] /\ UNCHANGED <<item, row, used, excused>>
    BY <1>4 DEF UploadFile, At, history, Steady
  <2>2. /\ \A d \in Caller \ {c} : call'[d] = call[d]
        /\ call'[c] = [call[c] EXCEPT !.at = "row"]
    BY <1>4 DEF UploadFile, Go, CallsOK
  <2>3. /\ call'[c].op = "upload" /\ call'[c].at = "row" /\ call'[c].f = f
        /\ call'[c].i = i
    BY <1>2, <2>1, <2>2 DEF UploadCall
  <2>4. f \in File /\ i \in Item /\ f \in used /\ row[f] = Nil
    BY <1>2, <2>1 DEF FilesOK, UploadOK
  <2>5. disk' \in [File -> Item \cup {Nil}] /\ disk'[f] = i
          /\ \A g \in File \ {f} : disk'[g] = disk[g]
    BY <2>1, <2>4 DEF FilesOK
  <2>6. \A d \in Caller \ {c} :
          call[d].op = "upload" \/ At(d, "delete_file", "access") \/ At(d, "delete_file", "row")
            => call[d].f # f
    BY <2>1 DEF FilesOK, UploadOK
  <2>7. \A d \in Caller : UploadOK(d)'
    <3>1. UploadOK(c)'
      BY <2>1, <2>2, <2>3, <2>4, <2>5, <2>6 DEF UploadOK, At
    <3>2. ASSUME NEW d \in Caller \ {c}, call[d].op = "upload" PROVE UploadOK(d)'
      <4>1. call[d].f \in File \ {f}
        BY <3>2, <2>6, Locals DEF CallsOK, UploadCall
      <4>2. UploadOK(d)
        BY DEF FilesOK
      <4>3. ASSUME NEW e \in Caller \ {d},
                   (\/ call[e].op = "upload" \/ At(e, "delete_file", "access")
                    \/ At(e, "delete_file", "row"))'
            PROVE  call'[e].f # call'[d].f
        BY <4>1, <4>2, <4>3, <3>2, <2>2, <2>3 DEF UploadOK, At
      <4>. QED BY <4>1, <4>2, <4>3, <3>2, <2>1, <2>2, <2>5 DEF UploadOK
    <3>. QED BY <3>1, <3>2, <2>2 DEF UploadOK
  <2>8. \A d \in Caller : DeletionOK(d)'
    <3>1. DeletionOK(c)'
      BY <2>3 DEF DeletionOK, At
    <3>2. ASSUME NEW d \in Caller \ {c} PROVE DeletionOK(d)'
      <4>1. At(d, "delete_file", "row") => call[d].f \in File \ {f}
        BY <2>6, Locals DEF CallsOK, DeleteFileCall, At
      <4>2. DeletionOK(d)
        BY DEF FilesOK
      <4>. QED BY <4>1, <4>2, <2>1, <2>2, <2>5 DEF DeletionOK, At
    <3>. QED BY <3>1, <3>2
  <2>9. FilesMatchRows'
    <3>1. ASSUME NEW g \in File \ {f}, row[g] # disk[g], g \notin excused
          PROVE  \E d \in Caller \ {c} : \/ At(d, "upload", "row") /\ call[d].f = g
                                         \/ At(d, "delete", "files") /\ call[d].i = disk[g]
                                         \/ At(d, "delete_file", "row") /\ call[d].f = g
      BY <3>1, <2>1 DEF FilesOK, FilesMatchRows, At
    <3>2. At(c, "upload", "row")' /\ call'[c].f = f
      BY <2>3 DEF At
    <3>3. ASSUME NEW g \in File \ {f}, (row[g] # disk[g] /\ g \notin excused)'
          PROVE  (\E d \in Caller : \/ At(d, "upload", "row") /\ call[d].f = g
                                    \/ At(d, "delete", "files") /\ call[d].i = disk[g]
                                    \/ At(d, "delete_file", "row") /\ call[d].f = g)'
      BY <3>1, <3>3, <2>1, <2>2, <2>5 DEF At
    <3>. QED BY <3>2, <3>3 DEF FilesMatchRows
  <2>. QED BY <2>1, <2>4, <2>5, <2>7, <2>8, <2>9 DEF FilesOK
<1>5. CASE UploadRow(c)
  <2> DEFINE f == call[c].f
             i == call[c].i
  <2>1. /\ call[c].op = "upload" /\ call[c].at = "row" /\ End(c)
        /\ UNCHANGED <<item, used, excused>>
        /\ IF Live(i) THEN row' = [row EXCEPT ![f] = i] /\ UNCHANGED disk
           ELSE disk' = [disk EXCEPT ![f] = Nil] /\ UNCHANGED row
    BY <1>5 DEF UploadRow, At, history, Steady
  <2>2. call'[c].op = "none" /\ \A d \in Caller \ {c} : call'[d] = call[d]
    BY <2>1 DEF End, NoCall, CallsOK
  <2>3. f \in File /\ i \in Item /\ f \in used /\ row[f] = Nil
    BY <1>2, <2>1 DEF FilesOK, UploadOK
  <2>4. /\ disk' \in [File -> Item \cup {Nil}] /\ row'[f] = disk'[f]
        /\ \A g \in File \ {f} : disk'[g] = disk[g] /\ row'[g] = row[g]
        /\ disk'[f] = Nil \/ disk'[f] = disk[f]
    BY <2>1, <2>3 DEF FilesOK, UploadOK, RowsOK, Live
  <2>5. \A d \in Caller \ {c} :
          call[d].op = "upload" \/ At(d, "delete_file", "access") \/ At(d, "delete_file", "row")
            => call[d].f # f
    BY <2>1 DEF FilesOK, UploadOK
  <2>6. \A d \in Caller : UploadOK(d)'
    <3>1. ASSUME NEW d \in Caller \ {c}, call[d].op = "upload" PROVE UploadOK(d)'
      <4>1. call[d].f \in File \ {f}
        BY <3>1, <2>5, Locals DEF CallsOK, UploadCall
      <4>. QED BY <4>1, <3>1, <2>1, <2>2, <2>4 DEF FilesOK, UploadOK, At
    <3>. QED BY <3>1, <2>2 DEF UploadOK
  <2>7. \A d \in Caller : DeletionOK(d)'
    BY <2>1, <2>2, <2>4, Locals DEF FilesOK, DeletionOK, At, CallsOK, DeleteFileCall
  <2>8. FilesMatchRows'
    BY <2>1, <2>2, <2>4 DEF FilesOK, FilesMatchRows, At
  <2>. QED BY <2>1, <2>3, <2>4, <2>6, <2>7, <2>8 DEF FilesOK
<1>. QED BY <1>1, <1>3, <1>4, <1>5

LEMMA DeleteFileFiles ==
  ASSUME FilesOK, RowsOK, CallsOK, Coherent, NEW c \in Caller,
         AskDeleteFile(c) \/ DeleteFileRead(c) \/ DeleteFileAccess(c) \/ DeleteFileRow(c)
  PROVE  FilesOK'
<1>1. CASE AskDeleteFile(c)
  <2>1. PICK u \in User, f \in File :
          Ask(c, [op |-> "delete_file", at |-> "read", by |-> u, f |-> f, i |-> Nil])
    BY <1>1 DEF AskDeleteFile
  <2>2. /\ call[c].op = "none" /\ call'[c].op = "delete_file" /\ call'[c].at = "read"
        /\ \A d \in Caller \ {c} : call'[d] = call[d]
        /\ UNCHANGED <<item, row, disk, excused>> /\ used \subseteq used'
    BY <2>1 DEF Ask, Busy, CallsOK, tables, history
  <2>3. \A d \in Caller : UploadOK(d)'
    BY <2>2 DEF FilesOK, UploadOK, At
  <2>4. \A d \in Caller : DeletionOK(d)'
    BY <2>2 DEF FilesOK, DeletionOK, At
  <2>5. FilesMatchRows'
    BY <2>2 DEF FilesOK, FilesMatchRows, At
  <2>. QED BY <2>2, <2>3, <2>4, <2>5 DEF FilesOK
<1> DEFINE f == call[c].f
<1>2. ASSUME call[c].op = "delete_file"
      PROVE  call[c] \in DeleteFileCall /\ f \in File
  BY <1>2, Locals DEF CallsOK, DeleteFileCall
<1>3. CASE DeleteFileRead(c)
  <2>1. /\ call[c].op = "delete_file" /\ call[c].at = "read"
        /\ UNCHANGED <<item, row, disk, used, excused>>
    BY <1>3 DEF DeleteFileRead, At, ReadStep, tables, history, Steady
  <2>2. /\ \A d \in Caller \ {c} : call'[d] = call[d]
        /\ \/ call'[c] = NoCall
           \/ row[f] # Nil /\ call'[c] = [call[c] EXCEPT !.at = "access", !.i = row[f]]
    BY <1>3 DEF DeleteFileRead, End, CallsOK
  <2>3. \/ call'[c].op = "none"
        \/ /\ row[f] # Nil /\ call'[c].op = "delete_file" /\ call'[c].at = "access"
           /\ call'[c].f = f
    <3>1. NoCall.op = "none"
      BY DEF NoCall
    <3>2. \A q \in DeleteFileCall :
            LET r == [q EXCEPT !.at = "access", !.i = row[f]] IN
            r.op = "delete_file" /\ r.at = "access" /\ r.f = q.f
      BY DEF DeleteFileCall
    <3>. QED BY <1>2, <2>1, <2>2, <3>1, <3>2
  <2>4. row[f] # Nil => f \in used
    BY <1>2, <2>1 DEF FilesOK
  <2>5. \A d \in Caller : UploadOK(d)'
    BY <2>1, <2>2, <2>3 DEF FilesOK, UploadOK, At
  <2>6. \A d \in Caller : DeletionOK(d)'
    BY <2>1, <2>2, <2>3, <2>4 DEF FilesOK, DeletionOK, At
  <2>7. FilesMatchRows'
    BY <2>1, <2>2 DEF FilesOK, FilesMatchRows, At
  <2>. QED BY <2>1, <2>5, <2>6, <2>7 DEF FilesOK
<1>4. ASSUME NEW d \in Caller \ {c}, call[c].op = "delete_file", call[c].at \in {"access", "row"},
             call[d].op = "upload"
      PROVE  call[d].f # f
  BY <1>4 DEF FilesOK, UploadOK, At
<1>5. CASE DeleteFileAccess(c)
  <2>1. CASE End(c)
    <3>1. /\ call[c].op = "delete_file" /\ call[c].at = "access"
          /\ UNCHANGED <<item, row, used, excused>>
      BY <1>5 DEF DeleteFileAccess, At, history, Steady
    <3>2. UNCHANGED disk
      BY <1>2, <1>5, <2>1, <3>1 DEF DeleteFileAccess, Go, End, CallsOK, DeleteFileCall, NoCall
    <3>3. call'[c].op = "none" /\ \A d \in Caller \ {c} : call'[d] = call[d]
      BY <2>1 DEF End, NoCall, CallsOK
    <3>4. \A d \in Caller : UploadOK(d)'
      BY <3>1, <3>2, <3>3 DEF FilesOK, UploadOK, At
    <3>5. \A d \in Caller : DeletionOK(d)'
      BY <3>1, <3>2, <3>3 DEF FilesOK, DeletionOK, At
    <3>6. FilesMatchRows'
      BY <3>1, <3>2, <3>3 DEF FilesOK, FilesMatchRows, At
    <3>. QED BY <3>1, <3>2, <3>4, <3>5, <3>6 DEF FilesOK
  <2>2. CASE ~End(c)
    <3>1. /\ call[c].op = "delete_file" /\ call[c].at = "access"
          /\ disk' = [disk EXCEPT ![f] = Nil] /\ UNCHANGED <<item, row, used, excused>>
      BY <1>5, <2>2 DEF DeleteFileAccess, At, history, Steady
    <3>2. /\ \A d \in Caller \ {c} : call'[d] = call[d]
          /\ call'[c] = [call[c] EXCEPT !.at = "row"]
      BY <1>5, <2>2 DEF DeleteFileAccess, Go, CallsOK
    <3>3. call'[c].op = "delete_file" /\ call'[c].at = "row" /\ call'[c].f = f
      BY <1>2, <3>1, <3>2 DEF DeleteFileCall
    <3>4. /\ f \in File /\ disk' \in [File -> Item \cup {Nil}] /\ disk'[f] = Nil
          /\ \A g \in File \ {f} : disk'[g] = disk[g]
      BY <1>2, <3>1 DEF FilesOK
    <3>5. f \in used
      BY <3>1 DEF FilesOK, DeletionOK, At
    <3>6. \A d \in Caller : UploadOK(d)'
      <4>1. UploadOK(c)'
        BY <3>3 DEF UploadOK
      <4>2. ASSUME NEW d \in Caller \ {c}, call[d].op = "upload" PROVE UploadOK(d)'
        <5>1. UploadOK(d) /\ call[d].f \in File \ {f}
          BY <1>4, <4>2, <3>1, Locals DEF CallsOK, UploadCall, FilesOK
        <5>2. ASSUME NEW e \in Caller \ {d},
                     (\/ call[e].op = "upload" \/ At(e, "delete_file", "access")
                      \/ At(e, "delete_file", "row"))'
              PROVE  call'[e].f # call'[d].f
          BY <4>2, <5>1, <5>2, <3>2, <3>3 DEF UploadOK, At
        <5>. QED BY <4>2, <5>1, <5>2, <3>1, <3>2, <3>4 DEF UploadOK
      <4>. QED BY <4>1, <4>2, <3>2 DEF UploadOK
    <3>7. \A d \in Caller : DeletionOK(d)'
      <4>1. DeletionOK(c)'
        BY <3>1, <3>3, <3>4, <3>5 DEF DeletionOK, At
      <4>2. ASSUME NEW d \in Caller \ {c} PROVE DeletionOK(d)'
        <5>1. DeletionOK(d) /\ (At(d, "delete_file", "row") => call[d].f \in File)
          BY Locals DEF FilesOK, CallsOK, DeleteFileCall, At
        <5>. QED BY <5>1, <3>1, <3>2, <3>4 DEF DeletionOK, At
      <4>. QED BY <4>1, <4>2
    <3>8. FilesMatchRows'
      <4>1. ASSUME NEW g \in File \ {f}, row[g] # disk[g], g \notin excused
            PROVE  \E d \in Caller \ {c} : \/ At(d, "upload", "row") /\ call[d].f = g
                                           \/ At(d, "delete", "files") /\ call[d].i = disk[g]
                                           \/ At(d, "delete_file", "row") /\ call[d].f = g
        BY <4>1, <3>1 DEF FilesOK, FilesMatchRows, At
      <4>2. At(c, "delete_file", "row")' /\ call'[c].f = f
        BY <3>3 DEF At
      <4>3. ASSUME NEW g \in File \ {f}, (row[g] # disk[g] /\ g \notin excused)'
            PROVE  (\E d \in Caller : \/ At(d, "upload", "row") /\ call[d].f = g
                                      \/ At(d, "delete", "files") /\ call[d].i = disk[g]
                                      \/ At(d, "delete_file", "row") /\ call[d].f = g)'
        BY <4>1, <4>3, <3>1, <3>2, <3>4 DEF At
      <4>. QED BY <4>2, <4>3 DEF FilesMatchRows
    <3>. QED BY <3>1, <3>4, <3>5, <3>6, <3>7, <3>8 DEF FilesOK
  <2>. QED BY <2>1, <2>2
<1>6. CASE DeleteFileRow(c)
  <2>1. /\ call[c].op = "delete_file" /\ call[c].at = "row" /\ End(c)
        /\ row' = [row EXCEPT ![f] = Nil] /\ UNCHANGED <<item, disk, used, excused>>
    BY <1>6 DEF DeleteFileRow, At, history, Steady
  <2>2. call'[c].op = "none" /\ \A d \in Caller \ {c} : call'[d] = call[d]
    BY <2>1 DEF End, NoCall, CallsOK
  <2>3. /\ f \in File /\ disk[f] = Nil /\ row'[f] = Nil
        /\ \A g \in File \ {f} : row'[g] = row[g]
    BY <1>2, <2>1 DEF FilesOK, DeletionOK, At, RowsOK
  <2>4. \A d \in Caller : UploadOK(d)'
    <3>1. ASSUME NEW d \in Caller \ {c}, call[d].op = "upload" PROVE UploadOK(d)'
      <4>1. UploadOK(d) /\ call[d].f \in File \ {f}
        BY <1>4, <3>1, <2>1, Locals DEF CallsOK, UploadCall, FilesOK
      <4>. QED BY <4>1, <3>1, <2>1, <2>2, <2>3 DEF UploadOK, At
    <3>. QED BY <3>1, <2>2 DEF UploadOK
  <2>5. \A d \in Caller : DeletionOK(d)'
    BY <2>1, <2>2 DEF FilesOK, DeletionOK, At
  <2>6. FilesMatchRows'
    BY <2>1, <2>2, <2>3 DEF FilesOK, FilesMatchRows, At
  <2>. QED BY <2>1, <2>3, <2>4, <2>5, <2>6 DEF FilesOK
<1>. QED BY <1>1, <1>3, <1>5, <1>6

\* Items go with the rows of their attachments; what is left of the files is
\* known to the call that deletes them, or excused.
LEMMA GoneFiles ==
  ASSUME FilesOK, RowsOK, CallsOK, NEW c \in Caller, NEW its \in SUBSET Item,
         Cascade(its), UNCHANGED <<disk, used>>, excused \subseteq excused',
         call[c].op \notin {"upload", "delete_file"}, ~At(c, "delete", "files"),
         call'[c].op \notin {"upload", "delete_file"}, ~At(c, "delete", "row")',
         At(c, "delete", "files")' => item'[call'[c].i].state = "gone",
         \A d \in Caller \ {c} : call'[d] = call[d],
         \A f \in File : disk[f] \in its =>
           f \in excused' \/ (At(c, "delete", "files") /\ call[c].i = disk[f])'
  PROVE  FilesOK'
<1>1. /\ \A i \in Item : item'[i].state = IF i \in its THEN "gone" ELSE item[i].state
      /\ \A f \in File : row'[f] = IF row[f] \in its THEN Nil ELSE row[f]
  BY DEF Cascade, RowsOK, Row
<1>2. ASSUME NEW d \in Caller \ {c}
      PROVE  UploadOK(d)' /\ DeletionOK(d)'
  <2>1. UploadOK(d) /\ DeletionOK(d)
    BY DEF FilesOK
  <2>2. UploadOK(d)'
    <3>1. CASE call[d].op = "upload"
      <4>1. call[d].f \in File /\ call[d].i \in Item
        BY <3>1, Locals DEF CallsOK, UploadCall
      <4>. QED BY <1>1, <2>1, <3>1, <4>1 DEF UploadOK, At
    <3>2. CASE call[d].op # "upload"
      BY <3>2 DEF UploadOK
    <3>. QED BY <3>1, <3>2
  <2>3. call[d].op = "delete" => call[d].i \in Item
    BY Locals DEF CallsOK, DeleteCall
  <2>4. DeletionOK(d)'
    BY <1>1, <2>1, <2>3 DEF DeletionOK, At
  <2>. QED BY <2>2, <2>4
<1>3. UploadOK(c)' /\ DeletionOK(c)'
  BY DEF UploadOK, DeletionOK, At
<1>4. FilesMatchRows'
  <2>1. ASSUME NEW f \in File, (row[f] # disk[f] /\ f \notin excused)'
        PROVE  (\E d \in Caller : \/ At(d, "upload", "row") /\ call[d].f = f
                                  \/ At(d, "delete", "files") /\ call[d].i = disk[f]
                                  \/ At(d, "delete_file", "row") /\ call[d].f = f)'
    <3>1. CASE row[f] = disk[f]
      BY <1>1, <2>1, <3>1
    <3>2. CASE row[f] # disk[f]
      <4>1. PICK d \in Caller : \/ At(d, "upload", "row") /\ call[d].f = f
                                \/ At(d, "delete", "files") /\ call[d].i = disk[f]
                                \/ At(d, "delete_file", "row") /\ call[d].f = f
        BY <2>1, <3>2 DEF FilesOK, FilesMatchRows
      <4>2. d # c
        BY <4>1 DEF At
      <4>. QED BY <4>1, <4>2 DEF At
    <3>. QED BY <3>1, <3>2
  <2>. QED BY <2>1 DEF FilesMatchRows
<1>5. \A f \in File : /\ disk'[f] = Nil \/ row'[f] = Nil \/ row'[f] = disk'[f]
                      /\ f \notin used' => row'[f] = Nil /\ disk'[f] = Nil
  BY <1>1 DEF FilesOK
<1>6. \A d \in Caller : UploadOK(d)' /\ DeletionOK(d)'
  BY <1>2, <1>3
<1>. QED BY <1>4, <1>5, <1>6 DEF FilesOK

LEMMA DeleteProjectFiles ==
  ASSUME FilesOK, RowsOK, CallsOK, NEW c \in Caller, DeleteProjectRow(c)
  PROVE  FilesOK'
<1> DEFINE its == {i \in Item : Live(i) /\ item[i].project = call[c].p}
<1>1. /\ End(c) /\ call[c].op = "delete_project" /\ Cascade(its)
      /\ UNCHANGED <<disk, used>> /\ excused' = excused \cup {f \in File : disk[f] \in its}
  BY DEF DeleteProjectRow, At, Steady
<1>2. call'[c].op = "none" /\ \A d \in Caller \ {c} : call'[d] = call[d]
  BY <1>1 DEF End, NoCall, CallsOK
<1>. HIDE DEF its
<1>3. its \in SUBSET Item
  BY DEF its
<1>4. /\ excused \subseteq excused' /\ \A f \in File : disk[f] \in its => f \in excused'
      /\ ~At(c, "delete", "files") /\ ~At(c, "delete", "row")' /\ ~At(c, "delete", "files")'
  BY <1>1, <1>2 DEF At
<1>. QED BY <1>1, <1>2, <1>3, <1>4, GoneFiles

LEMMA DeleteFilesKept ==
  ASSUME FilesOK, RowsOK, CallsOK, Coherent, NEW c \in Caller,
         AskDelete(c) \/ DeleteRead(c) \/ DeleteRow(c) \/ DeleteFiles(c)
  PROVE  FilesOK'
<1>1. CASE AskDelete(c)
  <2>1. PICK u \in User, i \in Item, http \in BOOLEAN :
          Ask(c, [op |-> "delete", at |-> "read", by |-> u, i |-> i, http |-> http])
    BY <1>1 DEF AskDelete
  <2>2. /\ call[c].op = "none" /\ call'[c].op = "delete" /\ call'[c].at = "read"
        /\ \A d \in Caller \ {c} : call'[d] = call[d]
        /\ UNCHANGED <<item, row, disk, excused>> /\ used \subseteq used'
    BY <2>1 DEF Ask, Busy, CallsOK, tables, history
  <2>3. \A d \in Caller : UploadOK(d)'
    BY <2>2 DEF FilesOK, UploadOK, At
  <2>4. \A d \in Caller : DeletionOK(d)'
    BY <2>2 DEF FilesOK, DeletionOK, At
  <2>5. FilesMatchRows'
    BY <2>2 DEF FilesOK, FilesMatchRows, At
  <2>. QED BY <2>2, <2>3, <2>4, <2>5 DEF FilesOK
<1> DEFINE i == call[c].i
<1>2. ASSUME call[c].op = "delete"
      PROVE  call[c] \in DeleteCall /\ i \in Item
  BY <1>2, Locals DEF CallsOK, DeleteCall
<1>3. ASSUME call[c].op = "delete", NEW at, call'[c] = [call[c] EXCEPT !.at = at]
      PROVE  call'[c].op = "delete" /\ call'[c].at = at /\ call'[c].i = i
  BY <1>2, <1>3 DEF DeleteCall
<1>4. CASE DeleteRead(c)
  <2>1. /\ call[c].op = "delete" /\ call[c].at = "read"
        /\ UNCHANGED <<item, row, disk, used, excused>>
    BY <1>4 DEF DeleteRead, At, ReadStep, tables, history, Steady
  <2>2. /\ \A d \in Caller \ {c} : call'[d] = call[d]
        /\ \/ call'[c].op = "none"
           \/ Live(i) /\ call'[c] = [call[c] EXCEPT !.at = "row"]
    BY <1>4 DEF DeleteRead, Visible, Go, End, CallsOK, NoCall
  <2>3. call'[c].op = "none" \/ (/\ call'[c].op = "delete" /\ call'[c].at = "row"
                                 /\ call'[c].i = i /\ item[i].state = "live")
    BY <1>3, <2>1, <2>2 DEF Live
  <2>4. \A d \in Caller : UploadOK(d)'
    BY <2>1, <2>2, <2>3 DEF FilesOK, UploadOK, At
  <2>5. \A d \in Caller : DeletionOK(d)'
    BY <2>1, <2>2, <2>3 DEF FilesOK, DeletionOK, At
  <2>6. FilesMatchRows'
    BY <2>1, <2>2 DEF FilesOK, FilesMatchRows, At
  <2>. QED BY <2>1, <2>4, <2>5, <2>6 DEF FilesOK
<1>5. CASE DeleteRow(c)
  <2> DEFINE its == {i} \cap {j \in Item : Live(j)}
  <2>1. /\ call[c].op = "delete" /\ call[c].at = "row" /\ Cascade(its)
        /\ UNCHANGED <<disk, used>>
        /\ \/ Go(c, "files") /\ excused' = excused
           \/ End(c) /\ excused' = excused \cup {f \in File : disk[f] = i}
    BY <1>5 DEF DeleteRow, At, Steady
  <2>2. item[i].state # "unused" /\ i \in Item
    BY <1>2, <2>1 DEF FilesOK, DeletionOK, At
  <2>3. its \in SUBSET Item
    OBVIOUS
  <2>4. item'[i].state = "gone"
    BY <2>1, <2>2 DEF Cascade, RowsOK, Row, Live
  <2>5. \A d \in Caller \ {c} : call'[d] = call[d]
    BY <2>1 DEF Go, End, CallsOK
  <2>6. \A f \in File : disk[f] \in its => disk[f] = i
    OBVIOUS
  <2>. HIDE DEF its
  <2>7. CASE Go(c, "files") /\ excused' = excused
    <3>1. call'[c].op = "delete" /\ call'[c].at = "files" /\ call'[c].i = i
      BY <1>3, <2>1, <2>7 DEF Go, CallsOK
    <3>2. At(c, "delete", "files")' /\ ~At(c, "delete", "files") /\ ~At(c, "delete", "row")'
      BY <2>1, <3>1 DEF At
    <3>3. item'[call'[c].i].state = "gone"
      BY <2>4, <3>1
    <3>4. \A f \in File : disk[f] \in its => (At(c, "delete", "files") /\ call[c].i = disk[f])'
      BY <2>1, <2>6, <3>1, <3>2
    <3>. QED BY <2>1, <2>3, <2>5, <2>7, <3>1, <3>2, <3>3, <3>4, GoneFiles
  <2>8. CASE End(c) /\ excused' = excused \cup {f \in File : disk[f] = i}
    <3>1. call'[c].op = "none"
      BY <2>8 DEF End, NoCall, CallsOK
    <3>2. ~At(c, "delete", "files") /\ ~At(c, "delete", "row")' /\ ~At(c, "delete", "files")'
      BY <2>1, <3>1 DEF At
    <3>. QED BY <2>1, <2>3, <2>5, <2>6, <2>8, <3>1, <3>2, GoneFiles
  <2>. QED BY <2>1, <2>7, <2>8
<1>6. CASE DeleteFiles(c)
  <2>1. /\ call[c].op = "delete" /\ call[c].at = "files" /\ End(c)
        /\ disk' = [f \in File |-> IF disk[f] = i THEN Nil ELSE disk[f]]
        /\ UNCHANGED <<item, row, used, excused>>
    BY <1>6 DEF DeleteFiles, At, history, Steady
  <2>2. call'[c].op = "none" /\ \A d \in Caller \ {c} : call'[d] = call[d]
    BY <2>1 DEF End, NoCall, CallsOK
  <2>3. i \in Item /\ item[i].state = "gone"
    BY <1>2, <2>1 DEF FilesOK, DeletionOK, At
  <2>4. \A f \in File : row[f] # i
    BY <2>3, BoardAssumption DEF Coherent, Live
  <2>5. \A d \in Caller : UploadOK(d)'
    <3>1. ASSUME NEW d \in Caller \ {c}, call[d].op = "upload" PROVE UploadOK(d)'
      <4>1. UploadOK(d) /\ call[d].f \in File
        BY <3>1, Locals DEF CallsOK, UploadCall, FilesOK
      <4>. QED BY <4>1, <3>1, <2>1, <2>2, <2>3 DEF UploadOK, At
    <3>. QED BY <3>1, <2>2 DEF UploadOK
  <2>6. \A d \in Caller : DeletionOK(d)'
    <3>1. ASSUME NEW d \in Caller \ {c} PROVE DeletionOK(d)'
      <4>1. DeletionOK(d) /\ (At(d, "delete_file", "row") => call[d].f \in File)
        BY Locals DEF FilesOK, CallsOK, DeleteFileCall, At
      <4>. QED BY <4>1, <2>1, <2>2 DEF DeletionOK, At
    <3>. QED BY <3>1, <2>2 DEF DeletionOK, At
  <2>7. FilesMatchRows'
    <3>1. ASSUME NEW f \in File, (row[f] # disk[f] /\ f \notin excused)'
          PROVE  (\E d \in Caller : \/ At(d, "upload", "row") /\ call[d].f = f
                                    \/ At(d, "delete", "files") /\ call[d].i = disk[f]
                                    \/ At(d, "delete_file", "row") /\ call[d].f = f)'
      <4>1. CASE disk[f] = i
        <5>1. row[f] = Nil /\ disk'[f] = Nil
          BY <2>1, <2>3, <2>4, <4>1, BoardAssumption DEF FilesOK
        <5>. QED BY <2>1, <3>1, <5>1
      <4>2. CASE disk[f] # i
        <5>1. disk'[f] = disk[f]
          BY <2>1, <4>2
        <5>2. PICK d \in Caller : \/ At(d, "upload", "row") /\ call[d].f = f
                                  \/ At(d, "delete", "files") /\ call[d].i = disk[f]
                                  \/ At(d, "delete_file", "row") /\ call[d].f = f
          BY <2>1, <3>1, <5>1 DEF FilesOK, FilesMatchRows
        <5>3. d # c
          BY <2>1, <4>2, <5>2 DEF At
        <5>. QED BY <2>2, <5>1, <5>2, <5>3 DEF At
      <4>. QED BY <4>1, <4>2
    <3>. QED BY <3>1 DEF FilesMatchRows
  <2>. QED BY <2>1, <2>4, <2>5, <2>6, <2>7 DEF FilesOK
<1>. QED BY <1>1, <1>4, <1>5, <1>6

LEMMA CallStepFiles ==
  ASSUME FilesOK, BoardInv, NEW c \in Caller, CallStep(c)
  PROVE  FilesOK'
<1>. USE DEF BoardInv
<1>1. CASE \/ AskCreate(c) \/ AskUpdate(c) \/ AskClaim(c) \/ AskAddBlocker(c)
           \/ AskRemoveBlocker(c) \/ AskShare(c) \/ AskUnshare(c) \/ AskCreateProject(c)
           \/ AskUpdateProject(c) \/ AskDeleteProject(c) \/ AskPost(c) \/ AskUnpost(c)
  <2>1. CASE AskCreate(c)
    BY <2>1, AskOther DEF AskCreate, FileOps
  <2>2. CASE AskUpdate(c)
    BY <2>2, AskOther DEF AskUpdate, FileOps
  <2>3. CASE AskClaim(c)
    BY <2>3, AskOther DEF AskClaim, FileOps
  <2>4. CASE AskAddBlocker(c)
    BY <2>4, AskOther DEF AskAddBlocker, FileOps
  <2>5. CASE AskRemoveBlocker(c)
    BY <2>5, AskOther DEF AskRemoveBlocker, FileOps
  <2>6. CASE AskShare(c)
    BY <2>6, AskOther DEF AskShare, FileOps
  <2>7. CASE AskUnshare(c)
    BY <2>7, AskOther DEF AskUnshare, FileOps
  <2>8. CASE AskCreateProject(c)
    BY <2>8, AskOther DEF AskCreateProject, FileOps
  <2>9. CASE AskUpdateProject(c)
    BY <2>9, AskOther DEF AskUpdateProject, FileOps
  <2>10. CASE AskDeleteProject(c)
    BY <2>10, AskOther DEF AskDeleteProject, FileOps
  <2>11. CASE AskPost(c)
    BY <2>11, AskOther DEF AskPost, FileOps
  <2>12. CASE AskUnpost(c)
    BY <2>12, AskOther DEF AskUnpost, FileOps
  <2>. QED BY <1>1, <2>1, <2>2, <2>3, <2>4, <2>5, <2>6, <2>7, <2>8, <2>9,
              <2>10, <2>11, <2>12
<1>2. CASE \/ CreateAccess(c) \/ ClaimCheck(c) \/ UpdateRead(c) \/ UpdateBlockers(c)
           \/ UpdateAccess(c)
           \/ AddReadItem(c) \/ AddReadBlocker(c) \/ AddExisting(c) \/ AddWalk(c)
           \/ RemoveRead(c) \/ ShareOwner(c) \/ ShareExisting(c) \/ ShareCount(c)
           \/ UnshareOwner(c) \/ ProjectRead(c) \/ DeleteProjectOwner(c) \/ PostAccess(c)
           \/ UnpostRead(c)
  BY <1>2, ReadsOther
<1>3. CASE \/ CreateInsert(c) \/ UpdateWrite(c) \/ RolloutLocks(c) \/ AddInsert(c)
           \/ RemoveRow(c) \/ ShareInsert(c) \/ ShareEdges(c) \/ SharePurge(c)
           \/ UnshareRow(c) \/ CreateProjectInsert(c) \/ ProjectWrite(c)
           \/ PostInsert(c) \/ UnpostRow(c)
  BY <1>3, WritesOther
<1>4. CASE AskDelete(c) \/ DeleteRead(c) \/ DeleteRow(c) \/ DeleteFiles(c)
  BY <1>4, DeleteFilesKept
<1>5. CASE DeleteProjectRow(c)
  BY <1>5, DeleteProjectFiles
<1>6. CASE AskUpload(c) \/ UploadAccess(c) \/ UploadFile(c) \/ UploadRow(c)
  BY <1>6, UploadFiles
<1>7. CASE AskDeleteFile(c) \/ DeleteFileRead(c) \/ DeleteFileAccess(c) \/ DeleteFileRow(c)
  BY <1>7, DeleteFileFiles
<1>. QED BY <1>1, <1>2, <1>3, <1>4, <1>5, <1>6, <1>7 DEF CallStep

\* What the accounts do has no hand in it.
LEMMA ElsewhereFiles ==
  ASSUME FilesOK, UNCHANGED <<item, row, disk, used, excused, call>>
  PROVE  FilesOK'
<1>1. \A c \in Caller : UploadOK(c)' /\ DeletionOK(c)'
  BY DEF FilesOK, UploadOK, DeletionOK, At
<1>2. FilesMatchRows'
  BY DEF FilesOK, FilesMatchRows, At
<1>. QED BY <1>1, <1>2 DEF FilesOK

LEMMA RequestStepFiles ==
  ASSUME FilesOK, NEW c \in Caller, RequestStep(c)
  PROVE  FilesOK'
<1>1. UNCHANGED <<item, row, disk, used, excused, call>>
  BY DEF RequestStep, AskRegister, RegisterInvite, RegisterMail, RegisterCommit,
     AskReset, ResetLink, ResetCommit, AskPassword, PasswordAuth, PasswordWrite,
     AskNewKey, NewKeyAuth, NewKeyInsert, AskDropKey, DropKeyAuth, DropKeyRead, DropKeyRow,
     AskInvite, InviteAuth, InviteInsert, AskRevoke, RevokeAuth, RevokeRead, RevokeRow,
     AskOnUser, OnUserAuth, OnUserRead, IssueInsert, PromoteWrite, DeleteAuth,
     DeleteUserRead, DeleteUserProjects, DeleteUserItems, DeleteUserResets,
     DeleteUserInvites, DeleteUserKeys, DeleteUserPosts, DeleteUserRow,
     Demand, Authenticate, LookStep, BoardKept, tables, history
<1>. QED BY <1>1, ElsewhereFiles

\* An attachment has its row and its file or neither, but for the call that is
\* changing one of them, whatever uploads and deletions meet: the id of an
\* upload is its own, and a deleted item does not come back.
THEOREM FilesKept == AccountsSpec => []FilesMatchRows
<1>1. AccountsInit => FilesOK
  <2>. SUFFICES ASSUME Init PROVE FilesOK
    BY DEF AccountsInit
  <2>1. \A c \in Caller : call[c].op = "none"
    BY DEF Init, NoCall
  <2>2. \A c \in Caller : UploadOK(c) /\ DeletionOK(c)
    BY <2>1 DEF UploadOK, DeletionOK, At
  <2>3. \A f \in File : row[f] = Nil /\ disk[f] = Nil
    BY DEF Init
  <2>4. disk \in [File -> Item \cup {Nil}]
    BY DEF Init
  <2>. QED BY <2>2, <2>3, <2>4 DEF FilesOK, FilesMatchRows
<1>2. FilesOK /\ BoardInv /\ [AccountsNext]_accountsVars => FilesOK'
  <2>. SUFFICES ASSUME FilesOK, BoardInv, [AccountsNext]_accountsVars PROVE FilesOK'
    OBVIOUS
  <2>1. CASE AccountsRestart
    <3>1. /\ call' = [c \in Caller |-> NoCall] /\ UNCHANGED <<row, disk, used>>
          /\ excused' = excused \cup {f \in File : row[f] # disk[f]}
      BY <2>1 DEF AccountsRestart, Restart
    <3>2. \A c \in Caller : call'[c].op = "none"
      BY <3>1 DEF NoCall
    <3>3. \A c \in Caller : UploadOK(c)' /\ DeletionOK(c)'
      BY <3>2 DEF UploadOK, DeletionOK, At
    <3>. QED BY <3>1, <3>3 DEF FilesOK, FilesMatchRows
  <2>2. ASSUME NEW l \in Link, LinkExpires(l) PROVE FilesOK'
    <3>1. UNCHANGED <<item, row, disk, used, excused, call>>
      BY <2>2 DEF LinkExpires, BoardKept, tables, history
    <3>. QED BY <3>1, ElsewhereFiles
  <2>3. ASSUME NEW c \in Caller, BoardStep(c) PROVE FilesOK'
    BY <2>3, CallStepFiles DEF BoardStep
  <2>4. ASSUME NEW c \in Caller, InsertRefused(c) PROVE FilesOK'
    BY <2>4, LookOther DEF InsertRefused, Inserts, FileOps, BoardInv
  <2>5. ASSUME NEW c \in Caller, RequestStep(c) PROVE FilesOK'
    BY <2>5, RequestStepFiles
  <2>6. CASE UNCHANGED vars
    BY <2>6, ElsewhereFiles DEF vars, tables, history
  <2>. QED BY <2>1, <2>2, <2>3, <2>4, <2>5, <2>6 DEF AccountsNext, Publish, accountsVars
<1>3. FilesOK => FilesMatchRows
  BY DEF FilesOK
<1>. QED BY <1>1, <1>2, <1>3, BoardInductive, PTL DEF AccountsSpec
-----------------------------------------------------------------------------
(* What one call does to the others *)

\* The first statement of a call, the statements that only read, those that write.
Asks(c) ==
  \/ AskCreate(c) \/ AskUpdate(c) \/ AskClaim(c) \/ AskDelete(c) \/ AskAddBlocker(c)
  \/ AskRemoveBlocker(c) \/ AskShare(c) \/ AskUnshare(c) \/ AskCreateProject(c)
  \/ AskUpdateProject(c) \/ AskDeleteProject(c) \/ AskPost(c) \/ AskUnpost(c)
  \/ AskUpload(c) \/ AskDeleteFile(c)
Reads(c) ==
  \/ CreateAccess(c) \/ ClaimCheck(c) \/ UpdateRead(c) \/ UpdateBlockers(c)
  \/ UpdateAccess(c) \/ DeleteRead(c) \/ AddReadItem(c) \/ AddReadBlocker(c)
  \/ AddExisting(c) \/ AddWalk(c) \/ RemoveRead(c) \/ ShareOwner(c) \/ ShareExisting(c)
  \/ ShareCount(c) \/ UnshareOwner(c) \/ ProjectRead(c) \/ DeleteProjectOwner(c)
  \/ PostAccess(c) \/ UnpostRead(c) \/ UploadAccess(c) \/ DeleteFileRead(c)
FileWrites(c) ==
  DeleteFiles(c) \/ UploadFile(c) \/ UploadRow(c) \/ DeleteFileAccess(c) \/ DeleteFileRow(c)
RowWrites(c) ==
  \/ CreateInsert(c) \/ UpdateWrite(c) \/ DeleteRow(c) \/ RemoveRow(c) \/ ShareInsert(c)
  \/ ShareEdges(c) \/ SharePurge(c) \/ UnshareRow(c) \/ CreateProjectInsert(c)
  \/ ProjectWrite(c) \/ DeleteProjectRow(c) \/ PostInsert(c) \/ UnpostRow(c)

LEMMA StepKinds ==
  ASSUME NEW c \in Caller, CallStep(c)
  PROVE  Asks(c) \/ Reads(c) \/ FileWrites(c) \/ RowWrites(c) \/ RolloutLocks(c) \/ AddInsert(c)
BY DEF CallStep, Asks, Reads, FileWrites, RowWrites

LEMMA AskIs ==
  ASSUME NEW c \in Caller, Asks(c)
  PROVE  ~Busy(c) /\ \E r : Ask(c, r)
<1>1. \E r : Ask(c, r)
  <2>1. CASE AskCreate(c)
    BY <2>1 DEF AskCreate
  <2>2. CASE AskUpdate(c)
    BY <2>2 DEF AskUpdate
  <2>3. CASE AskClaim(c)
    BY <2>3 DEF AskClaim
  <2>4. CASE AskDelete(c)
    BY <2>4 DEF AskDelete
  <2>5. CASE AskAddBlocker(c)
    BY <2>5 DEF AskAddBlocker
  <2>6. CASE AskRemoveBlocker(c)
    BY <2>6 DEF AskRemoveBlocker
  <2>7. CASE AskShare(c)
    BY <2>7 DEF AskShare
  <2>8. CASE AskUnshare(c)
    BY <2>8 DEF AskUnshare
  <2>9. CASE AskCreateProject(c)
    BY <2>9 DEF AskCreateProject
  <2>10. CASE AskUpdateProject(c)
    BY <2>10 DEF AskUpdateProject
  <2>11. CASE AskDeleteProject(c)
    BY <2>11 DEF AskDeleteProject
  <2>12. CASE AskPost(c)
    BY <2>12 DEF AskPost
  <2>13. CASE AskUnpost(c)
    BY <2>13 DEF AskUnpost
  <2>14. CASE AskUpload(c)
    BY <2>14 DEF AskUpload
  <2>15. CASE AskDeleteFile(c)
    BY <2>15 DEF AskDeleteFile
  <2> QED  BY <2>1, <2>2, <2>3, <2>4, <2>5, <2>6, <2>7, <2>8,
              <2>9, <2>10, <2>11, <2>12, <2>13, <2>14, <2>15 DEF Asks
<1> QED  BY <1>1 DEF Ask

LEMMA ReadIs ==
  ASSUME NEW c \in Caller, Reads(c)
  PROVE  ReadStep(c) /\ \E k : call' = [call EXCEPT ![c] = k]
<1>1. ReadStep(c)
  BY DEF Reads, CreateAccess, ClaimCheck, UpdateRead, UpdateBlockers, UpdateAccess,
       DeleteRead, AddReadItem, AddReadBlocker, AddExisting, AddWalk, RemoveRead, ShareOwner,
       ShareExisting, ShareCount, UnshareOwner, ProjectRead, DeleteProjectOwner, PostAccess,
       UnpostRead, UploadAccess, DeleteFileRead
<1>2. \E k : call' = [call EXCEPT ![c] = k]
  BY DEF Reads, CreateAccess, ClaimCheck, UpdateRead, UpdateBlockers, UpdateAccess,
       DeleteRead, AddReadItem, AddReadBlocker, AddExisting, AddWalk, RemoveRead, ShareOwner,
       ShareExisting, ShareCount, UnshareOwner, ProjectRead, DeleteProjectOwner, PostAccess,
       UnpostRead, UploadAccess, DeleteFileRead, Go, End
<1> QED  BY <1>1, <1>2
\* A call goes on as it was while another takes a step, and has noted what that
\* step wrote; a purge only forgets an edge that was not there.
Sees(d) ==
  /\ \/ call'[d] = call[d]
     \/ /\ call[d].op = "share" /\ call'[d].op = "share" /\ call'[d].at = call[d].at
        /\ call[d].doomed \cap deps \subseteq call'[d].doomed
  /\ Busy(d) => /\ late[d] \subseteq late'[d]
                /\ \A j \in Item : item'[j] # item[j] => j \in late'[d]
                /\ deps' \ deps \subseteq late'[d]

LEMMA WroteOthers ==
  ASSUME NEW c \in Caller, NEW d \in Caller, d # c, NEW objects, Wrote(c, objects), Busy(d)
  PROVE  late'[d] = late[d] \cup objects
BY DEF Wrote

LEMMA CallElsewhere ==
  ASSUME CallsOK, NEW c \in Caller, NEW d \in Caller, d # c, NEW k,
         call' = [call EXCEPT ![c] = k]
  PROVE  call'[d] = call[d]
BY DEF CallsOK

LEMMA RowWriteSeen ==
  ASSUME BoardInv, NEW c \in Caller, RowWrites(c), NEW d \in Caller, d # c
  PROVE  Sees(d)
<1> USE DEF BoardInv
<1>1. call'[d] = call[d]
  <2>1. \E k : call' = [call EXCEPT ![c] = k]
    BY DEF RowWrites, CreateInsert, UpdateWrite, DeleteRow, RemoveRow, ShareInsert,
           ShareEdges, SharePurge, UnshareRow, CreateProjectInsert, ProjectWrite,
           DeleteProjectRow, PostInsert, UnpostRow, Go, End
  <2> QED  BY <2>1, CallElsewhere
<1> SUFFICES ASSUME Busy(d)
             PROVE  /\ late[d] \subseteq late'[d]
                    /\ \A j \in Item : item'[j] # item[j] => j \in late'[d]
                    /\ deps' \ deps \subseteq late'[d]
  BY <1>1 DEF Sees
<1>2. ASSUME UNCHANGED <<item, deps>>, NEW objects, Wrote(c, objects)
      PROVE  /\ late[d] \subseteq late'[d]
             /\ \A j \in Item : item'[j] # item[j] => j \in late'[d]
             /\ deps' \ deps \subseteq late'[d]
  BY <1>2, WroteOthers
<1>3. CASE CreateInsert(c)
  <2>1. CASE UNCHANGED tables /\ Wrote(c, {})
    BY <1>2, <2>1 DEF tables
  <2>2. ASSUME NEW i \in Item, NEW q, item' = [item EXCEPT ![i] = q], deps' = deps, Wrote(c, {i})
        PROVE  /\ late[d] \subseteq late'[d]
               /\ \A j \in Item : item'[j] # item[j] => j \in late'[d]
               /\ deps' \ deps \subseteq late'[d]
    BY <2>2, WroteOthers DEF RowsOK
  <2> QED  BY <1>3, <2>1, <2>2 DEF CreateInsert
<1>4. CASE UpdateWrite(c)
  <2>1. CASE UNCHANGED <<tables, strayed>> /\ Wrote(c, {})
    BY <1>2, <2>1 DEF tables
  <2>2. CASE /\ item' = [item EXCEPT ![call[c].i] = Updated(@, call[c].want)]
             /\ deps' = deps /\ Wrote(c, {call[c].i})
    BY <2>2, WroteOthers DEF RowsOK
  <2> QED  BY <1>4, <2>1, <2>2 DEF UpdateWrite
<1>5. CASE DeleteRow(c)
  <2>1. Cascade({call[c].i} \cap {j \in Item : Live(j)}) /\ Wrote(c, {call[c].i})
    BY <1>5 DEF DeleteRow
  <2> QED  BY <2>1, WroteOthers DEF Cascade
<1>6. CASE DeleteProjectRow(c)
  <2> DEFINE its == {i \in Item : Live(i) /\ item[i].project = call[c].p}
  <2>1. Cascade(its) /\ Wrote(c, its \cup {call[c].p})
    BY <1>6 DEF DeleteProjectRow
  <2> HIDE DEF its
  <2> QED  BY <2>1, WroteOthers DEF Cascade
<1>7. CASE RemoveRow(c) \/ SharePurge(c)
  <2>1. item' = item /\ deps' \subseteq deps /\ Wrote(c, {})
    BY <1>7 DEF RemoveRow, SharePurge
  <2> QED  BY <2>1, WroteOthers
<1>8. CASE \/ ShareInsert(c) \/ ShareEdges(c) \/ UnshareRow(c) \/ CreateProjectInsert(c)
           \/ ProjectWrite(c) \/ PostInsert(c) \/ UnpostRow(c)
  <2>1. UNCHANGED <<item, deps>>
    BY <1>8 DEF ShareInsert, ShareEdges, UnshareRow, CreateProjectInsert, ProjectWrite,
                PostInsert, UnpostRow, tables
  <2>2. \E objects : Wrote(c, objects)
    <3>1. CASE ShareInsert(c)  BY <3>1 DEF ShareInsert
    <3>2. CASE ShareEdges(c)  BY <3>2 DEF ShareEdges
    <3>3. CASE UnshareRow(c)  BY <3>3 DEF UnshareRow
    <3>4. CASE CreateProjectInsert(c)  BY <3>4 DEF CreateProjectInsert
    <3>5. CASE ProjectWrite(c)
      <4>1. Wrote(c, {}) \/ Wrote(c, {call[c].p})
        BY <3>5 DEF ProjectWrite
      <4> QED  BY <4>1
    <3>6. CASE PostInsert(c)  BY <3>6 DEF PostInsert
    <3>7. CASE UnpostRow(c)  BY <3>7 DEF UnpostRow
    <3> QED  BY <1>8, <3>1, <3>2, <3>3, <3>4, <3>5, <3>6, <3>7
  <2> QED  BY <1>2, <2>1, <2>2
<1> QED  BY <1>3, <1>4, <1>5, <1>6, <1>7, <1>8 DEF RowWrites

LEMMA OthersSee ==
  ASSUME BoardInv, NEW c \in Caller, CallStep(c), NEW d \in Caller, d # c
  PROVE  Sees(d)
<1> USE DEF BoardInv
<1>1. CASE Asks(c)
  <2>1. PICK r : Ask(c, r)
    BY <1>1, AskIs
  <2> QED  BY <2>1, CallElsewhere DEF Ask, Sees, tables
<1>2. CASE Reads(c)
  <2>1. UNCHANGED tables /\ Wrote(c, {}) /\ call'[d] = call[d]
    BY <1>2, ReadIs, CallElsewhere DEF ReadStep
  <2> QED  BY <2>1, WroteOthers DEF Sees, tables
<1>3. CASE FileWrites(c)
  <2>1. UNCHANGED <<item, deps>> /\ Wrote(c, {})
    BY <1>3 DEF FileWrites, DeleteFiles, UploadFile, UploadRow, DeleteFileAccess, DeleteFileRow
  <2>2. \E k : call' = [call EXCEPT ![c] = k]
    BY <1>3 DEF FileWrites, DeleteFiles, UploadFile, UploadRow, DeleteFileAccess,
                DeleteFileRow, Go, End
  <2> QED  BY <2>1, <2>2, WroteOthers, CallElsewhere DEF Sees
<1>4. CASE RolloutLocks(c)
  <2>1. PICK i \in Item : /\ item' = [item EXCEPT ![i].locked = ~@]
                          /\ call' = call /\ Wrote(c, {i}) /\ deps' = deps
    BY <1>4 DEF RolloutLocks
  <2> QED  BY <2>1, WroteOthers DEF Sees, RowsOK
<1>5. CASE AddInsert(c)
  <2> DEFINE e == <<call[c].i, call[c].b>>
  <2>1. CASE End(c) /\ UNCHANGED <<tables, raced, strayed>> /\ Wrote(c, {})
    BY <2>1, WroteOthers, CallElsewhere DEF Sees, End, tables
  <2>2. CASE /\ EndAdding(c, e) /\ deps' = deps \cup {e} /\ e \notin deps
             /\ item' = item /\ Wrote(c, {e})
    <3>1. \/ call'[d] = call[d]
          \/ call[d].op = "share" /\ call'[d] = [call[d] EXCEPT !.doomed = @ \ {e}]
      BY <2>2 DEF EndAdding
    <3>2. ASSUME call[d].op = "share", call'[d] = [call[d] EXCEPT !.doomed = @ \ {e}]
          PROVE  /\ call'[d].op = "share" /\ call'[d].at = call[d].at
                 /\ call'[d].doomed = call[d].doomed \ {e}
      <4>1. call[d] \in ShareCall
        BY <3>2, Locals DEF CallsOK
      <4> QED  BY <3>2, <4>1 DEF ShareCall
    <3> HIDE DEF e
    <3> QED  BY <2>2, <3>1, <3>2, WroteOthers DEF Sees
  <2> QED  BY <1>5, <2>1, <2>2 DEF AddInsert
<1>6. CASE RowWrites(c)
  BY <1>6, RowWriteSeen
<1> QED  BY <1>1, <1>2, <1>3, <1>4, <1>5, <1>6, StepKinds

-----------------------------------------------------------------------------
(* The rules *)

\* What a call knows of the rows it has read, others' writes aside: the projects
\* of the two items of a blocker, and that the walk has met no way back,
AddOK(c) ==
  call[c].op = "add_blocker" =>
    /\ call[c].i # call[c].b
    /\ call[c].at # "item" => item[call[c].i].project = call[c].p \/ call[c].i \in late[c]
    /\ call[c].at \in {"existing", "walk", "insert"}
       => item[call[c].b].project = call[c].p \/ call[c].b \in late[c]
    /\ call[c].at \in {"walk", "insert"} =>
         /\ call[c].b \in call[c].seen
         /\ \A e \in deps : e[1] \in call[c].seen \ call[c].queue =>
              (e[2] \in call[c].seen /\ e[2] # call[c].i) \/ e \in late[c]
    /\ call[c].at = "insert" => call[c].queue = {}

\* that the row still accepts the update,
UpdateOK(c) ==
  LET i == call[c].i  w == call[c].want IN
  call[c].op \in {"update", "claim"} =>
    /\ call[c].op = "claim" /\ call[c].at # "check" => i \in late[c] \/ item[i].assigned = Nil
    /\ call[c].at \in {"blockers", "access", "write"}
       => i \in late[c] \/ ~UpdateRefused(item[i], w, call[c].version)
    /\ call[c].at = "access" => w.set = "project"
    /\ call[c].at = "write" /\ w.set = "status" /\ w.to = "active" =>
         \/ i \in late[c] \/ item[i].status = "active"
         \/ \A b \in Unresolved(i) : {b, <<i, b>>} \cap late[c] # {}

\* and that the settings of a project fit the row as it was.
SettingOK(c) ==
  /\ call[c].op = "create_project" => (call[c].workspace => call[c].repos)
  /\ At(c, "update_project", "write") =>
       (Effective(call[c].mode, call[c].row.workspace)
         => Effective(call[c].repos, call[c].row.repos))

RulesInv ==
  /\ \A c \in Caller : AddOK(c) /\ UpdateOK(c) /\ SettingOK(c)
  /\ CyclesAreRaced /\ CrossEdgesStrayed /\ WorkspaceHasRepos

\* A call that is over or not of this kind knows nothing.
LEMMA OverOK ==
  ASSUME NEW c \in Caller, call'[c].op = "none"
  PROVE  AddOK(c)' /\ UpdateOK(c)' /\ SettingOK(c)'
BY DEF AddOK, UpdateOK, SettingOK, At

\* What the others write is noted, so a call knows what it knew.
LEMMA OthersOK ==
  ASSUME RowsOK, CallsOK, NEW d \in Caller, Sees(d), AddOK(d), UpdateOK(d), SettingOK(d)
  PROVE  AddOK(d)' /\ UpdateOK(d)' /\ SettingOK(d)'
<1>1. CASE call[d].op = "share" /\ call'[d].op = "share"
  BY <1>1 DEF AddOK, UpdateOK, SettingOK, At
<1>2. CASE call'[d] = call[d]
  <2>1. SettingOK(d)'
    BY <1>2 DEF SettingOK, At
  <2>2. AddOK(d)'
    <3> SUFFICES ASSUME call[d].op = "add_blocker"
                 PROVE  AddOK(d)'
      BY <1>2 DEF AddOK
    <3>1. call[d].i \in Item /\ call[d].b \in Item
      BY Locals DEF CallsOK, AddBlockerCall
    <3>2. /\ late[d] \subseteq late'[d]
          /\ \A j \in Item : item'[j] # item[j] => j \in late'[d]
          /\ deps' \ deps \subseteq late'[d]
      BY DEF Sees, Busy
    <3> QED  BY <1>2, <3>1, <3>2 DEF AddOK
  <2>3. UpdateOK(d)'
    <3> SUFFICES ASSUME call[d].op \in {"update", "claim"}
                 PROVE  UpdateOK(d)'
      BY <1>2 DEF UpdateOK
    <3>1. call[d].i \in Item
      BY Locals DEF CallsOK, UpdateCall
    <3>2. /\ late[d] \subseteq late'[d]
          /\ \A j \in Item : item'[j] # item[j] => j \in late'[d]
          /\ deps' \ deps \subseteq late'[d]
      BY DEF Sees, Busy
    <3> DEFINE i == call[d].i
               w == call[d].want
    <3>3. ASSUME \A b \in Unresolved(i) : {b, <<i, b>>} \cap late[d] # {}
          PROVE  (\A b \in Unresolved(i) : {b, <<i, b>>} \cap late[d] # {})'
      <4> SUFFICES ASSUME NEW b \in Item, <<i, b>> \in deps', item'[b].status # "done"
                   PROVE  {b, <<i, b>>} \cap late'[d] # {}
        BY <1>2 DEF Unresolved
      <4>1. CASE b \in Unresolved(i)
        BY <3>2, <3>3, <4>1
      <4>2. CASE b \notin Unresolved(i)
        BY <3>2, <4>2 DEF Unresolved
      <4> QED  BY <4>1, <4>2
    <3>4. i \in late'[d] \/ item'[i] = item[i]
      BY <3>1, <3>2
    <3> QED  BY <1>2, <3>1, <3>2, <3>3, <3>4 DEF UpdateOK, UpdateRefused
  <2> QED  BY <2>1, <2>2, <2>3
<1> QED  BY <1>1, <1>2 DEF Sees

-----------------------------------------------------------------------------
(* What a call learns from its own statements *)

\* The calls that the rules are about.
RuleOps == {"add_blocker", "update", "claim", "create_project", "update_project"}

LEMMA NoRuleOK ==
  ASSUME NEW c \in Caller, call'[c].op \notin RuleOps
  PROVE  AddOK(c)' /\ UpdateOK(c)' /\ SettingOK(c)'
BY DEF AddOK, UpdateOK, SettingOK, At, RuleOps

LEMMA AskOK ==
  ASSUME CallsOK, NEW c \in Caller, Asks(c)
  PROVE  AddOK(c)' /\ UpdateOK(c)' /\ SettingOK(c)'
<1>1. ASSUME NEW r, Ask(c, r)
      PROVE  call'[c] = r
  BY <1>1 DEF Ask, CallsOK
<1>2. CASE AskAddBlocker(c)
  <2>1. PICK u \in User, i \in Item, b \in Item :
          i # b /\ Ask(c, [op |-> "add_blocker", at |-> "item", by |-> u, i |-> i, b |-> b,
                           p |-> Nil, seen |-> {}, queue |-> {}])
    BY <1>2 DEF AskAddBlocker
  <2>2. call'[c] = [op |-> "add_blocker", at |-> "item", by |-> u, i |-> i, b |-> b,
                    p |-> Nil, seen |-> {}, queue |-> {}]
    BY <1>1, <2>1
  <2>3. /\ call'[c].op = "add_blocker" /\ call'[c].at = "item"
        /\ call'[c].i = i /\ call'[c].b = b
    BY <2>2
  <2> QED  BY <2>1, <2>3 DEF AddOK, UpdateOK, SettingOK, At
<1>3. CASE AskUpdate(c)
  <2>1. PICK u \in User, i \in Item, w \in Want, v \in {AnyVersion} \cup 1..(MaxCalls + 1) :
          Ask(c, [op |-> "update", at |-> "read", by |-> u, i |-> i, want |-> w,
                  version |-> v, row |-> Nil])
    BY <1>3 DEF AskUpdate
  <2>2. call'[c] = [op |-> "update", at |-> "read", by |-> u, i |-> i, want |-> w,
                    version |-> v, row |-> Nil]
    BY <1>1, <2>1
  <2>3. call'[c].op = "update" /\ call'[c].at = "read"
    BY <2>2
  <2> QED  BY <2>3 DEF AddOK, UpdateOK, SettingOK, At
<1>4. CASE AskClaim(c)
  <2>1. PICK u \in User, i \in Item, a \in Agent :
          Ask(c, [op |-> "claim", at |-> "check", by |-> u, i |-> i,
                  want |-> [set |-> "assigned", to |-> a], version |-> AnyVersion, row |-> Nil])
    BY <1>4 DEF AskClaim
  <2>2. call'[c] = [op |-> "claim", at |-> "check", by |-> u, i |-> i,
                    want |-> [set |-> "assigned", to |-> a], version |-> AnyVersion, row |-> Nil]
    BY <1>1, <2>1
  <2>3. call'[c].op = "claim" /\ call'[c].at = "check"
    BY <2>2
  <2> QED  BY <2>3 DEF AddOK, UpdateOK, SettingOK, At
<1>5. CASE AskCreateProject(c)
  <2>1. PICK u \in User, p \in Project, workspace \in BOOLEAN, repos \in BOOLEAN :
          /\ workspace => repos
          /\ Ask(c, [op |-> "create_project", at |-> "insert", by |-> u, p |-> p,
                     workspace |-> workspace, repos |-> repos])
    BY <1>5 DEF AskCreateProject
  <2>2. call'[c] = [op |-> "create_project", at |-> "insert", by |-> u, p |-> p,
                    workspace |-> workspace, repos |-> repos]
    BY <1>1, <2>1
  <2>3. /\ call'[c].op = "create_project"
        /\ call'[c].workspace = workspace /\ call'[c].repos = repos
    BY <2>2
  <2> QED  BY <2>1, <2>3 DEF AddOK, UpdateOK, SettingOK, At
<1>6. CASE AskUpdateProject(c)
  <2>1. PICK u \in User, p \in Project, mode \in Field, repos \in Field :
          Ask(c, [op |-> "update_project", at |-> "read", by |-> u, p |-> p, mode |-> mode,
                  repos |-> repos, row |-> Nil])
    BY <1>6 DEF AskUpdateProject
  <2>2. call'[c] = [op |-> "update_project", at |-> "read", by |-> u, p |-> p, mode |-> mode,
                    repos |-> repos, row |-> Nil]
    BY <1>1, <2>1
  <2>3. call'[c].op = "update_project" /\ call'[c].at = "read"
    BY <2>2
  <2> QED  BY <2>3 DEF AddOK, UpdateOK, SettingOK, At
<1>7. ASSUME NEW r, Ask(c, r), r.op \notin RuleOps
      PROVE  AddOK(c)' /\ UpdateOK(c)' /\ SettingOK(c)'
  BY <1>1, <1>7, NoRuleOK
<1>8. CASE AskCreate(c)
  BY <1>7, <1>8 DEF AskCreate, RuleOps
<1>9. CASE AskDelete(c)
  BY <1>7, <1>9 DEF AskDelete, RuleOps
<1>10. CASE AskRemoveBlocker(c)
  BY <1>7, <1>10 DEF AskRemoveBlocker, RuleOps
<1>11. CASE AskShare(c)
  BY <1>7, <1>11 DEF AskShare, RuleOps
<1>12. CASE AskUnshare(c)
  BY <1>7, <1>12 DEF AskUnshare, RuleOps
<1>13. CASE AskDeleteProject(c)
  BY <1>7, <1>13 DEF AskDeleteProject, RuleOps
<1>14. CASE AskPost(c)
  BY <1>7, <1>14 DEF AskPost, RuleOps
<1>15. CASE AskUnpost(c)
  BY <1>7, <1>15 DEF AskUnpost, RuleOps
<1>16. CASE AskUpload(c)
  BY <1>7, <1>16 DEF AskUpload, RuleOps
<1>17. CASE AskDeleteFile(c)
  BY <1>7, <1>17 DEF AskDeleteFile, RuleOps
<1> QED  BY <1>2, <1>3, <1>4, <1>5, <1>6, <1>8, <1>9, <1>10, <1>11, <1>12, <1>13, <1>14,
            <1>15, <1>16, <1>17 DEF Asks

LEMMA EndedOK ==
  ASSUME CallsOK, NEW c \in Caller, End(c)
  PROVE  AddOK(c)' /\ UpdateOK(c)' /\ SettingOK(c)'
<1>1. call'[c].op = "none"
  BY DEF End, NoCall, CallsOK
<1> QED  BY <1>1, OverOK

\* The statements that go on with the same call, and note nothing of their own.
LEMMA SameOp ==
  ASSUME CallsOK, NEW c \in Caller, NEW a, NEW x, a # "op",
         call' = [call EXCEPT ![c][a] = x]
  PROVE  call'[c].op = call[c].op
<1>1. call[c] \in Call
  BY DEF CallsOK
<1>2. call'[c] = [call[c] EXCEPT ![a] = x]
  BY DEF CallsOK
<1> QED  BY <1>1, <1>2, HasOp

LEMMA LateKept ==
  ASSUME CallsOK, NEW c \in Caller, NEW objects, Wrote(c, objects), call'[c].op # "none"
  PROVE  late'[c] = late[c]
BY DEF Wrote

\* add_blocker: the projects are compared, and the walk closes the set of items
\* it has seen over the edges of those it has taken from its queue.
LEMMA AddReadsOK ==
  ASSUME BoardInv, NEW c \in Caller, AddOK(c),
         AddReadItem(c) \/ AddReadBlocker(c) \/ AddExisting(c) \/ AddWalk(c)
  PROVE  AddOK(c)' /\ UpdateOK(c)' /\ SettingOK(c)'
<1> USE DEF BoardInv
<1>1. call[c] \in AddBlockerCall /\ call[c].op = "add_blocker"
  <2>1. call[c].op = "add_blocker"
    BY DEF AddReadItem, AddReadBlocker, AddExisting, AddWalk, At
  <2> QED  BY <2>1, Locals DEF CallsOK
<1>2. call[c].i \in Item /\ call[c].b \in Item /\ call[c].seen \subseteq Item
  BY <1>1 DEF AddBlockerCall
<1>3. UNCHANGED <<item, deps>> /\ Wrote(c, {})
  BY DEF AddReadItem, AddReadBlocker, AddExisting, AddWalk, ReadStep, tables
<1>4. SUFFICES ASSUME ~End(c)
               PROVE  AddOK(c)' /\ UpdateOK(c)' /\ SettingOK(c)'
  BY EndedOK
<1>5. ASSUME call'[c].op = "add_blocker"
      PROVE  late'[c] = late[c] /\ UpdateOK(c)' /\ SettingOK(c)'
  BY <1>3, <1>5, LateKept DEF UpdateOK, SettingOK, At
<1>6. CASE AddReadItem(c)
  <2>1. call' = [call EXCEPT ![c].at = "blocker", ![c].p = item[call[c].i].project]
    BY <1>4, <1>6 DEF AddReadItem
  <2>2. call'[c] = [call[c] EXCEPT !.at = "blocker", !.p = item[call[c].i].project]
    BY <2>1 DEF CallsOK
  <2>3. /\ call'[c].op = "add_blocker" /\ call'[c].at = "blocker"
        /\ call'[c].p = item[call[c].i].project
        /\ call'[c].i = call[c].i /\ call'[c].b = call[c].b
    BY <1>1, <2>2 DEF AddBlockerCall
  <2> QED  BY <1>1, <1>3, <1>5, <2>3 DEF AddOK
<1>7. CASE AddReadBlocker(c)
  <2>1. Go(c, "existing") /\ item[call[c].b].project = call[c].p /\ call[c].at = "blocker"
    BY <1>4, <1>7 DEF AddReadBlocker, At
  <2>2. call'[c] = [call[c] EXCEPT !.at = "existing"]
    BY <2>1 DEF CallsOK, Go
  <2>3. /\ call'[c].op = "add_blocker" /\ call'[c].at = "existing"
        /\ call'[c].p = call[c].p
        /\ call'[c].i = call[c].i /\ call'[c].b = call[c].b
    BY <1>1, <2>2 DEF AddBlockerCall
  <2> QED  BY <1>1, <1>3, <1>5, <2>1, <2>3 DEF AddOK
<1>8. CASE AddExisting(c)
  <2>1. /\ call' = [call EXCEPT ![c].at = "walk", ![c].seen = {call[c].b},
                                ![c].queue = {call[c].b}]
        /\ call[c].at = "existing"
    BY <1>4, <1>8 DEF AddExisting, At
  <2>2. call'[c] = [call[c] EXCEPT !.at = "walk", !.seen = {call[c].b}, !.queue = {call[c].b}]
    BY <2>1 DEF CallsOK
  <2>3. /\ call'[c].op = "add_blocker" /\ call'[c].at = "walk"
        /\ call'[c].p = call[c].p /\ call'[c].seen = {call[c].b}
        /\ call'[c].queue = {call[c].b}
        /\ call'[c].i = call[c].i /\ call'[c].b = call[c].b
    BY <1>1, <2>2 DEF AddBlockerCall
  <2> QED  BY <1>1, <1>3, <1>5, <2>1, <2>3 DEF AddOK
<1>9. CASE AddWalk(c)
  <2>1. call[c].at = "walk"
    BY <1>9 DEF AddWalk, At
  <2>2. CASE call[c].queue = {}
    <3>1. Go(c, "insert")
      BY <1>9, <2>2 DEF AddWalk
    <3>2. call'[c] = [call[c] EXCEPT !.at = "insert"]
      BY <3>1 DEF CallsOK, Go
    <3>3. /\ call'[c].op = "add_blocker" /\ call'[c].at = "insert"
          /\ call'[c].p = call[c].p /\ call'[c].seen = call[c].seen
          /\ call'[c].queue = call[c].queue
          /\ call'[c].i = call[c].i /\ call'[c].b = call[c].b
      BY <1>1, <3>2 DEF AddBlockerCall
    <3> QED  BY <1>1, <1>3, <1>5, <2>1, <2>2, <3>3 DEF AddOK
  <2>3. CASE call[c].queue # {}
    <3>1. PICK n \in call[c].queue :
            LET next == {b \in Item : <<n, b>> \in deps} IN
            /\ call[c].i \notin next
            /\ call' = [call EXCEPT ![c].seen = @ \cup next,
                                    ![c].queue = (@ \cup (next \ call[c].seen)) \ {n}]
      BY <1>4, <1>9, <2>3 DEF AddWalk
    <3> DEFINE next == {b \in Item : <<n, b>> \in deps}
    <3>2. call'[c] = [call[c] EXCEPT !.seen = @ \cup next,
                                     !.queue = (@ \cup (next \ call[c].seen)) \ {n}]
      BY <3>1 DEF CallsOK
    <3>3. /\ call'[c].op = "add_blocker" /\ call'[c].at = "walk"
          /\ call'[c].p = call[c].p /\ call'[c].seen = call[c].seen \cup next
          /\ call'[c].queue = (call[c].queue \cup (next \ call[c].seen)) \ {n}
          /\ call'[c].i = call[c].i /\ call'[c].b = call[c].b
      <4> HIDE DEF next
      <4> QED  BY <1>1, <2>1, <3>2 DEF AddBlockerCall
    <3>4. ASSUME NEW e \in deps', e[1] \in call'[c].seen \ call'[c].queue
          PROVE  (e[2] \in call'[c].seen /\ e[2] # call'[c].i) \/ e \in late'[c]
      <4>1. e \in deps /\ late'[c] = late[c]
        BY <1>3, <1>5, <3>3, <3>4
      <4>2. e[2] \in Item /\ e = <<e[1], e[2]>>
        BY <4>1 DEF RowsOK, Edge
      <4>3. CASE e[1] = n
        <5>1. e[2] \in next
          BY <4>1, <4>2, <4>3
        <5> QED  BY <3>1, <3>3, <5>1
      <4>4. CASE e[1] # n
        <5>1. e[1] \in call[c].seen \ call[c].queue
          <6> HIDE DEF next
          <6> QED  BY <3>3, <3>4, <4>4
        <5>2. (e[2] \in call[c].seen /\ e[2] # call[c].i) \/ e \in late[c]
          BY <1>1, <2>1, <4>1, <5>1 DEF AddOK
        <5> QED  BY <3>3, <4>1, <5>2
      <4> QED  BY <4>3, <4>4
    <3> HIDE DEF next
    <3> QED  BY <1>1, <1>3, <1>5, <2>1, <3>3, <3>4 DEF AddOK
  <2> QED  BY <2>2, <2>3
<1> QED  BY <1>6, <1>7, <1>8, <1>9

\* update_item and claim_item: what the row that is read refuses.
LEMMA UpdateReadsOK ==
  ASSUME BoardInv, NEW c \in Caller, UpdateOK(c),
         ClaimCheck(c) \/ UpdateRead(c) \/ UpdateBlockers(c) \/ UpdateAccess(c)
  PROVE  AddOK(c)' /\ UpdateOK(c)' /\ SettingOK(c)'
<1> USE DEF BoardInv
<1>1. call[c] \in UpdateCall /\ call[c].op \in {"update", "claim"}
  <2>1. call[c].op \in {"update", "claim"}
    BY DEF ClaimCheck, UpdateRead, UpdateBlockers, UpdateAccess, At
  <2> QED  BY <2>1, Locals DEF CallsOK
<1>2. call[c].i \in Item
  BY <1>1 DEF UpdateCall
<1>3. UNCHANGED <<item, deps>> /\ Wrote(c, {})
  BY DEF ClaimCheck, UpdateRead, UpdateBlockers, UpdateAccess, ReadStep, tables
<1>4. SUFFICES ASSUME ~End(c)
               PROVE  AddOK(c)' /\ UpdateOK(c)' /\ SettingOK(c)'
  BY EndedOK
<1>5. ASSUME call'[c].op = call[c].op
      PROVE  late'[c] = late[c] /\ AddOK(c)' /\ SettingOK(c)'
  BY <1>1, <1>3, <1>5, LateKept DEF AddOK, SettingOK, At
<1>6. ASSUME NEW at, Go(c, at)
      PROVE  /\ call'[c].op = call[c].op /\ call'[c].at = at /\ call'[c].i = call[c].i
             /\ call'[c].want = call[c].want /\ call'[c].version = call[c].version
  <2>1. call'[c] = [call[c] EXCEPT !.at = at]
    BY <1>6 DEF CallsOK, Go
  <2> QED  BY <1>1, <2>1 DEF UpdateCall
<1>7. CASE ClaimCheck(c)
  <2>1. Go(c, "read") /\ item[call[c].i].assigned = Nil
    BY <1>4, <1>7 DEF ClaimCheck
  <2> QED  BY <1>3, <1>5, <1>6, <2>1 DEF UpdateOK
<1>8. CASE UpdateRead(c)
  <2> DEFINE i == call[c].i
             w == call[c].want
             next == IF w.set = "status" /\ w.to = "active" /\ item[i].status # "active"
                     THEN "blockers"
                     ELSE IF w.set = "project" /\ w.to # Nil THEN "access" ELSE "write"
  <2>1. /\ ~UpdateRefused(item[i], w, call[c].version)
        /\ call' = [call EXCEPT ![c].row = item[i], ![c].at = next]
        /\ call[c].at = "read"
    BY <1>4, <1>8 DEF UpdateRead
  <2>2. call'[c] = [call[c] EXCEPT !.row = item[i], !.at = next]
    BY <2>1 DEF CallsOK
  <2>3. /\ call'[c].op = call[c].op /\ call'[c].at = next /\ call'[c].i = call[c].i
        /\ call'[c].want = call[c].want /\ call'[c].version = call[c].version
    <3> HIDE DEF next
    <3> QED  BY <1>1, <2>2 DEF UpdateCall
  <2>4. late'[c] = late[c] /\ AddOK(c)' /\ SettingOK(c)'
    BY <1>5, <2>3
  <2>5. call[c].op = "claim" => i \in late[c] \/ item[i].assigned = Nil
    BY <1>1, <2>1 DEF UpdateOK
  <2>6. UpdateOK(c)'
    BY <1>3, <2>1, <2>3, <2>4, <2>5 DEF UpdateOK, UpdateRefused
  <2> QED  BY <2>4, <2>6
<1>9. CASE UpdateBlockers(c)
  <2>1. Go(c, "write") /\ Unresolved(call[c].i) = {} /\ call[c].at = "blockers"
    BY <1>4, <1>9 DEF UpdateBlockers
  <2>2. Unresolved(call[c].i)' = {}
    BY <1>3, <1>6, <2>1 DEF Unresolved
  <2> QED  BY <1>1, <1>3, <1>5, <1>6, <2>1, <2>2 DEF UpdateOK, UpdateRefused
<1>10. CASE UpdateAccess(c)
  <2>1. Go(c, "write") /\ call[c].at = "access"
    BY <1>4, <1>10 DEF UpdateAccess
  <2> QED  BY <1>1, <1>3, <1>5, <1>6, <2>1 DEF UpdateOK, UpdateRefused
<1> QED  BY <1>7, <1>8, <1>9, <1>10

\* update_project: the settings as they will be, on the row that is read.
LEMMA ProjectReadOK ==
  ASSUME BoardInv, NEW c \in Caller, ProjectRead(c)
  PROVE  AddOK(c)' /\ UpdateOK(c)' /\ SettingOK(c)'
<1> USE DEF BoardInv
<1>1. call[c] \in UpdateProjectCall /\ call[c].op = "update_project"
  BY Locals DEF CallsOK, ProjectRead, At
<1>2. CASE End(c)
  BY <1>2, EndedOK
<1>3. CASE ~End(c)
  <2> DEFINE old == project[call[c].p]
  <2>1. /\ call' = [call EXCEPT ![c].at = "write", ![c].row = old]
        /\ Effective(call[c].mode, old.workspace) => Effective(call[c].repos, old.repos)
    BY <1>3 DEF ProjectRead
  <2>2. call'[c] = [call[c] EXCEPT !.at = "write", !.row = old]
    BY <2>1 DEF CallsOK
  <2>3. /\ call'[c].op = "update_project" /\ call'[c].row = old
        /\ call'[c].mode = call[c].mode /\ call'[c].repos = call[c].repos
    BY <1>1, <2>2 DEF UpdateProjectCall
  <2> QED  BY <2>1, <2>3 DEF AddOK, UpdateOK, SettingOK, At, Effective
<1> QED  BY <1>2, <1>3

\* The statements of the other calls, and the last of these.
LEMMA OtherOpsOK ==
  ASSUME CallsOK, NEW c \in Caller, call[c].op \notin RuleOps,
         \/ End(c)
         \/ \E a, x : a # "op" /\ call' = [call EXCEPT ![c][a] = x]
         \/ \E a, x, b, y : /\ a # "op" /\ b # "op"
                            /\ call' = [call EXCEPT ![c][a] = x, ![c][b] = y]
  PROVE  AddOK(c)' /\ UpdateOK(c)' /\ SettingOK(c)'
<1>1. call[c] \in Call
  BY DEF CallsOK
<1>2. CASE End(c)
  BY <1>2, EndedOK
<1>3. CASE \E a, x : a # "op" /\ call' = [call EXCEPT ![c][a] = x]
  BY <1>3, SameOp, NoRuleOK
<1>4. CASE \E a, x, b, y : /\ a # "op" /\ b # "op"
                           /\ call' = [call EXCEPT ![c][a] = x, ![c][b] = y]
  <2>1. PICK a, x, b, y : /\ a # "op" /\ b # "op"
                          /\ call' = [call EXCEPT ![c][a] = x, ![c][b] = y]
    BY <1>4
  <2>2. call'[c] = [call[c] EXCEPT ![a] = x, ![b] = y]
    BY <2>1 DEF CallsOK
  <2>3. call'[c].op = call[c].op
    BY <1>1, <2>1, <2>2, HasOp
  <2> QED  BY <2>3, NoRuleOK
<1> QED  BY <1>2, <1>3, <1>4

LEMMA OtherReadsOK ==
  ASSUME CallsOK, NEW c \in Caller,
         \/ CreateAccess(c) \/ DeleteRead(c) \/ RemoveRead(c) \/ ShareOwner(c)
         \/ ShareExisting(c) \/ ShareCount(c) \/ UnshareOwner(c) \/ DeleteProjectOwner(c)
         \/ PostAccess(c) \/ UnpostRead(c) \/ UploadAccess(c) \/ DeleteFileRead(c)
  PROVE  AddOK(c)' /\ UpdateOK(c)' /\ SettingOK(c)'
<1>1. call[c].op \notin RuleOps
  BY DEF CreateAccess, DeleteRead, RemoveRead, ShareOwner, ShareExisting, ShareCount,
         UnshareOwner, DeleteProjectOwner, PostAccess, UnpostRead, UploadAccess,
         DeleteFileRead, At, RuleOps
<1>2. CASE End(c)
  BY <1>1, <1>2, OtherOpsOK
<1>3. CASE \E at : Go(c, at)
  BY <1>1, <1>3, OtherOpsOK DEF Go
<1>4. CASE ShareCount(c)
  BY <1>1, <1>4, OtherOpsOK DEF ShareCount
<1>5. CASE DeleteFileRead(c)
  BY <1>1, <1>2, <1>5, OtherOpsOK DEF DeleteFileRead
<1>6. \/ End(c) \/ \E at : Go(c, at)
      \/ ShareCount(c) \/ DeleteFileRead(c)
  BY DEF CreateAccess, DeleteRead, RemoveRead, ShareOwner, ShareExisting,
         UnshareOwner, DeleteProjectOwner, PostAccess, UnpostRead, UploadAccess
<1> QED  BY <1>2, <1>3, <1>4, <1>5, <1>6

LEMMA WritesOK ==
  ASSUME CallsOK, NEW c \in Caller, RowWrites(c) \/ FileWrites(c)
  PROVE  AddOK(c)' /\ UpdateOK(c)' /\ SettingOK(c)'
<1>1. CASE End(c)
  BY <1>1, EndedOK
<1>2. CASE \E at : Go(c, at) /\ call[c].op \notin RuleOps
  BY <1>2, OtherOpsOK DEF Go
<1>3. CASE ShareEdges(c)
  <2>1. call[c].op \notin RuleOps
    BY <1>3 DEF ShareEdges, At, RuleOps
  <2> DEFINE edges == CrossingEdges(call[c].p)
  <2>2. call' = [call EXCEPT ![c].at = "purge", ![c].doomed = edges]
    BY <1>3 DEF ShareEdges
  <2> HIDE DEF edges
  <2> QED  BY <2>1, <2>2, OtherOpsOK
<1>4. CASE SharePurge(c)
  <2>1. call[c].op \notin RuleOps
    BY <1>4 DEF SharePurge, At, RuleOps
  <2>2. CASE End(c)
    BY <2>2, EndedOK
  <2>3. ASSUME NEW e \in call[c].doomed, call' = [call EXCEPT ![c].doomed = @ \ {e}]
        PROVE  AddOK(c)' /\ UpdateOK(c)' /\ SettingOK(c)'
    <3>1. call' = [call EXCEPT ![c]["doomed"] = call[c].doomed \ {e}]
      BY <2>3 DEF CallsOK
    <3> QED  BY <2>1, <3>1, OtherOpsOK
  <2> QED  BY <1>4, <2>2, <2>3 DEF SharePurge
<1>5. CASE RowWrites(c) /\ ~ShareEdges(c) /\ ~SharePurge(c)
  <2>1. End(c) \/ \E at : Go(c, at) /\ call[c].op \notin RuleOps
    BY <1>5 DEF RowWrites, CreateInsert, UpdateWrite, DeleteRow, RemoveRow, ShareInsert,
           UnshareRow, CreateProjectInsert, ProjectWrite, DeleteProjectRow, PostInsert,
           UnpostRow, At, RuleOps
  <2> QED  BY <1>1, <1>2, <2>1
<1>6. CASE FileWrites(c)
  <2>1. End(c) \/ \E at : Go(c, at) /\ call[c].op \notin RuleOps
    BY <1>6 DEF FileWrites, DeleteFiles, UploadFile, UploadRow, DeleteFileAccess,
           DeleteFileRow, At, RuleOps
  <2> QED  BY <1>1, <1>2, <2>1
<1> QED  BY <1>3, <1>4, <1>5, <1>6

LEMMA OwnOK ==
  ASSUME BoardInv, NEW c \in Caller, CallStep(c), AddOK(c), UpdateOK(c)
  PROVE  AddOK(c)' /\ UpdateOK(c)' /\ SettingOK(c)'
<1>1. CallsOK
  BY DEF BoardInv
<1>2. CASE Asks(c)
  BY <1>1, <1>2, AskOK
<1>3. CASE Reads(c)
  <2>1. CASE AddReadItem(c) \/ AddReadBlocker(c) \/ AddExisting(c) \/ AddWalk(c)
    BY <2>1, AddReadsOK
  <2>2. CASE ClaimCheck(c) \/ UpdateRead(c) \/ UpdateBlockers(c) \/ UpdateAccess(c)
    BY <2>2, UpdateReadsOK
  <2>3. CASE ProjectRead(c)
    BY <2>3, ProjectReadOK
  <2>4. CASE \/ CreateAccess(c) \/ DeleteRead(c) \/ RemoveRead(c) \/ ShareOwner(c)
             \/ ShareExisting(c) \/ ShareCount(c) \/ UnshareOwner(c) \/ DeleteProjectOwner(c)
             \/ PostAccess(c) \/ UnpostRead(c) \/ UploadAccess(c) \/ DeleteFileRead(c)
    BY <1>1, <2>4, OtherReadsOK
  <2> QED  BY <1>3, <2>1, <2>2, <2>3, <2>4 DEF Reads
<1>4. CASE FileWrites(c) \/ RowWrites(c)
  BY <1>1, <1>4, WritesOK
<1>5. CASE RolloutLocks(c)
  <2>1. call'[c].op = "none"
    BY <1>5 DEF RolloutLocks, Busy
  <2> QED  BY <2>1, OverOK
<1>6. CASE AddInsert(c)
  <2>1. call'[c].op = "none"
    BY <1>1, <1>6 DEF AddInsert, End, EndAdding, NoCall, CallsOK
  <2> QED  BY <2>1, OverOK
<1> QED  BY <1>2, <1>3, <1>4, <1>5, <1>6, StepKinds

-----------------------------------------------------------------------------
(* The rules on what is stored *)

\* Only add_blocker adds an edge or notes a race.
LEMMA OnlyAddsRace ==
  ASSUME NEW c \in Caller, CallStep(c), ~AddInsert(c)
  PROVE  deps' \subseteq deps /\ raced' = raced
<1>1. CASE Asks(c)
  BY <1>1, AskIs DEF Ask, tables, history
<1>2. CASE Reads(c)
  BY <1>2, ReadIs DEF ReadStep, tables, history
<1>3. CASE FileWrites(c)
  BY <1>3 DEF FileWrites, DeleteFiles, UploadFile, UploadRow, DeleteFileAccess,
              DeleteFileRow, history
<1>4. CASE RolloutLocks(c)
  BY <1>4 DEF RolloutLocks, history
<1>5. CASE RowWrites(c)
  BY <1>5 DEF RowWrites, CreateInsert, UpdateWrite, DeleteRow, RemoveRow, ShareInsert,
              ShareEdges, SharePurge, UnshareRow, CreateProjectInsert, ProjectWrite,
              DeleteProjectRow, PostInsert, UnpostRow, Cascade, tables, history
<1> QED  BY <1>1, <1>2, <1>3, <1>4, <1>5, StepKinds

\* The walk has seen all that the blocker waits for, and not the item: a cycle
\* through the new edge has an edge that came during the call, or was one already.
LEMMA CyclesKept ==
  ASSUME BoardInv, CyclesAreRaced, NEW c \in Caller, CallStep(c), AddOK(c)
  PROVE  CyclesAreRaced'
<1>1. CASE deps' \subseteq deps /\ raced' = raced
  BY <1>1 DEF CyclesAreRaced
<1>2. CASE AddInsert(c) /\ ~(deps' \subseteq deps)
  <2> DEFINE i == call[c].i
             b == call[c].b
             e == <<i, b>>
             seen == call[c].seen
  <2>1. /\ deps' = deps \cup {e}
        /\ raced' = {q \in raced : q[1] # e /\ q[2] # e} \cup {<<e, f>> : f \in late[c] \cap Edge}
        /\ e \notin deps
    BY <1>2 DEF AddInsert, tables
  <2>2. call[c].op = "add_blocker" /\ call[c].at = "insert"
    BY <1>2 DEF AddInsert, At
  <2>3. i \in Item /\ b \in Item
    BY <2>2, Locals DEF BoardInv, CallsOK, AddBlockerCall
  <2>4. /\ i # b /\ b \in seen
        /\ \A f \in deps : f[1] \in seen => (f[2] \in seen /\ f[2] # i) \/ f \in late[c]
    BY <2>2 DEF AddOK
  <2>5. e[1] = i /\ e[2] = b /\ e \in Edge
    BY <2>3 DEF Edge
  <2>6. \A f \in deps : f \in Edge
    BY DEF BoardInv, RowsOK
  <2> HIDE DEF e, i, b, seen
  <2>7. SUFFICES ASSUME NEW C \in SUBSET deps', C # {},
                        \A g \in C : \E f \in C : f[1] = g[2]
                 PROVE  \E g, f \in C : <<g, f>> \in raced'
    BY DEF CyclesAreRaced
  <2>8. ASSUME NEW D \in SUBSET deps, D # {}, \A g \in D : \E f \in D : f[1] = g[2]
        PROVE  \E g, f \in D : <<g, f>> \in raced'
    <3>1. PICK g \in D, f \in D : <<g, f>> \in raced
      BY <2>8 DEF CyclesAreRaced
    <3>2. g # e /\ f # e
      BY <2>1
    <3> QED  BY <2>1, <3>1, <3>2
  <2>9. CASE e \notin C
    BY <2>1, <2>7, <2>8, <2>9
  <2>10. CASE e \in C /\ \E f \in C : f \in late[c]
    <3>1. PICK f \in C : f \in late[c]
      BY <2>10
    <3>2. f \in Edge
      BY <2>1, <2>5, <2>6
    <3>3. <<e, f>> \in raced'
      BY <2>1, <3>1, <3>2
    <3> QED  BY <2>10, <3>3
  <2>11. CASE e \in C /\ \A f \in C : f \notin late[c]
    <3> DEFINE D == {f \in C : f[1] \in seen /\ f # e}
    <3>1. D \in SUBSET deps
      BY <2>1
    <3>2. D # {}
      <4>1. PICK f \in C : f[1] = e[2]
        BY <2>7, <2>11
      <4> QED  BY <2>4, <2>5, <4>1
    <3>3. ASSUME NEW g \in D PROVE \E f \in D : f[1] = g[2]
      <4>1. g[2] \in seen /\ g[2] # i
        BY <2>4, <2>11, <3>1
      <4>2. PICK f \in C : f[1] = g[2]
        BY <2>7
      <4> QED  BY <2>5, <4>1, <4>2
    <3>4. \E g, f \in D : <<g, f>> \in raced'
      <4> HIDE DEF D
      <4> QED  BY <2>8, <3>1, <3>2, <3>3
    <3> QED  BY <3>4
  <2> QED  BY <2>9, <2>10, <2>11
<1> QED  BY <1>1, <1>2, OnlyAddsRace DEF AddInsert, tables

\* What a purge is about to delete, it deletes.
LEMMA PurgeSeen ==
  ASSUME NEW d \in Caller, Sees(d), NEW e \in deps,
         At(d, "share", "purge"), e \in call[d].doomed
  PROVE  At(d, "share", "purge")' /\ e \in call'[d].doomed
BY DEF Sees, At

LEMMA OnlyPurges ==
  ASSUME NEW c \in Caller, CallStep(c), At(c, "share", "purge")
  PROVE  SharePurge(c)
<1>1. ~Asks(c)
  BY AskIs DEF Busy, At
<1>2. ~RolloutLocks(c)
  BY DEF RolloutLocks, Busy, At
<1>3. ~Reads(c)
  BY DEF Reads, CreateAccess, ClaimCheck, UpdateRead, UpdateBlockers, UpdateAccess,
       DeleteRead, AddReadItem, AddReadBlocker, AddExisting, AddWalk, RemoveRead, ShareOwner,
       ShareExisting, ShareCount, UnshareOwner, ProjectRead, DeleteProjectOwner, PostAccess,
       UnpostRead, UploadAccess, DeleteFileRead, At
<1>4. ~FileWrites(c) /\ ~AddInsert(c)
  BY DEF FileWrites, DeleteFiles, UploadFile, UploadRow, DeleteFileAccess, DeleteFileRow,
         AddInsert, At
<1> QED  BY <1>1, <1>2, <1>3, <1>4, StepKinds DEF RowWrites, CreateInsert, UpdateWrite,
            DeleteRow, RemoveRow, ShareInsert, ShareEdges, UnshareRow, CreateProjectInsert,
            ProjectWrite, DeleteProjectRow, PostInsert, UnpostRow, At

\* An edge that was there and crosses two projects is still strayed, or doomed.
LEMMA CrossersKept ==
  ASSUME BoardInv, CrossEdgesStrayed, NEW c \in Caller, CallStep(c),
         NEW e \in deps, e \in deps', Crosses(e),
         e \in strayed => e \in strayed'
  PROVE  e \in strayed' \/ \E d \in Caller : At(d, "share", "purge")' /\ e \in call'[d].doomed
<1>1. CASE e \in strayed
  BY <1>1
<1>2. ASSUME NEW d \in Caller, At(d, "share", "purge"), e \in call[d].doomed
      PROVE  At(d, "share", "purge")' /\ e \in call'[d].doomed
  <2>1. CASE d # c
    BY <1>2, <2>1, OthersSee, PurgeSeen
  <2>2. CASE d = c
    <3>1. SharePurge(c) /\ e \in call[c].doomed
      BY <1>2, <2>2, OnlyPurges
    <3>2. PICK g \in call[c].doomed : /\ deps' = deps \ {g}
                                      /\ call' = [call EXCEPT ![c].doomed = @ \ {g}]
      BY <3>1 DEF SharePurge
    <3>3. call[c] \in ShareCall
      BY <1>2, <2>2, Locals DEF BoardInv, CallsOK, At
    <3>4. call'[c] = [call[c] EXCEPT !.doomed = @ \ {g}]
      BY <3>2 DEF BoardInv, CallsOK
    <3>5. /\ call'[c].op = call[c].op /\ call'[c].at = call[c].at
          /\ call'[c].doomed = call[c].doomed \ {g}
      BY <3>3, <3>4 DEF ShareCall
    <3>6. e # g
      BY <3>2
    <3> QED  BY <1>2, <2>2, <3>1, <3>5, <3>6 DEF At
  <2> QED  BY <2>1, <2>2
<1> QED  BY <1>1, <1>2 DEF CrossEdgesStrayed

\* The statements after which every edge joins the same projects as before.
LEMMA SameProjects ==
  ASSUME NEW c \in Caller, CallStep(c), ~CreateInsert(c), ~UpdateWrite(c),
         ~ShareEdges(c), ~AddInsert(c), RowsOK
  PROVE  strayed' = strayed /\ \A i \in Item : item'[i].project = item[i].project
<1>1. CASE Asks(c)
  BY <1>1, AskIs DEF Ask, tables, history
<1>2. CASE Reads(c)
  BY <1>2, ReadIs DEF ReadStep, tables, history
<1>3. CASE FileWrites(c)
  BY <1>3 DEF FileWrites, DeleteFiles, UploadFile, UploadRow, DeleteFileAccess,
              DeleteFileRow, history
<1>4. CASE RolloutLocks(c)
  <2>1. PICK i \in Item : item' = [item EXCEPT ![i].locked = ~@]
    BY <1>4 DEF RolloutLocks
  <2>2. item'[i] = [item[i] EXCEPT !.locked = ~@]
    BY <2>1 DEF RowsOK
  <2>3. item'[i].project = item[i].project
    BY <2>2 DEF RowsOK, Row
  <2>4. \A j \in Item : j # i => item'[j] = item[j]
    BY <2>1 DEF RowsOK
  <2> QED  BY <1>4, <2>3, <2>4 DEF RolloutLocks, history
<1>5. ASSUME NEW items, Cascade(items)
      PROVE  \A i \in Item : item'[i].project = item[i].project
  <2> SUFFICES ASSUME NEW i \in Item
               PROVE  item'[i].project = item[i].project
    OBVIOUS
  <2>1. item'[i] \in {item[i], [item[i] EXCEPT !.state = "gone"]}
    BY <1>5 DEF Cascade
  <2> QED  BY <2>1 DEF RowsOK, Row
<1>6. CASE DeleteRow(c)
  BY <1>5, <1>6 DEF DeleteRow
<1>7. CASE DeleteProjectRow(c)
  <2> DEFINE its == {i \in Item : Live(i) /\ item[i].project = call[c].p}
  <2>1. Cascade(its)
    BY <1>7 DEF DeleteProjectRow
  <2> HIDE DEF its
  <2> QED  BY <1>5, <1>7, <2>1 DEF DeleteProjectRow
<1>8. CASE RowWrites(c) /\ ~DeleteRow(c) /\ ~DeleteProjectRow(c)
  BY <1>8 DEF RowWrites, RemoveRow, ShareInsert, SharePurge, UnshareRow,
              CreateProjectInsert, ProjectWrite, PostInsert, UnpostRow, tables, history
<1> QED  BY <1>1, <1>2, <1>3, <1>4, <1>6, <1>7, <1>8, StepKinds

LEMMA CrossEdgesKept ==
  ASSUME BoardInv, CrossEdgesStrayed, NEW c \in Caller, CallStep(c), AddOK(c)
  PROVE  CrossEdgesStrayed'
<1> USE DEF BoardInv
<1> SUFFICES ASSUME NEW e \in deps', Crosses(e)'
             PROVE  e \in strayed' \/ \E d \in Caller : At(d, "share", "purge")'
                                                        /\ e \in call'[d].doomed
  BY DEF CrossEdgesStrayed, At
<1>0. ASSUME e \in deps
      PROVE  e \in Edge /\ e[1] \in Item /\ e[2] \in Item /\ Live(e[1]) /\ Live(e[2])
  BY <1>0 DEF RowsOK, Edge, Coherent
<1>1. CASE CreateInsert(c)
  <2>1. e \in deps /\ strayed' = strayed
    BY <1>1 DEF CreateInsert, tables, history
  <2>2. item'[e[1]] = item[e[1]] /\ item'[e[2]] = item[e[2]]
    <3>1. CASE UNCHANGED tables
      BY <3>1 DEF tables
    <3>2. ASSUME NEW i \in Item, item[i].state = "unused", NEW r, item' = [item EXCEPT ![i] = r]
          PROVE  item'[e[1]] = item[e[1]] /\ item'[e[2]] = item[e[2]]
      BY <1>0, <2>1, <3>2 DEF RowsOK, Live
    <3> QED  BY <1>1, <3>1, <3>2 DEF CreateInsert
  <2> QED  BY <2>1, <2>2, CrossersKept DEF Crosses
<1>2. CASE UpdateWrite(c)
  <2>1. e \in deps /\ strayed \subseteq strayed'
    BY <1>2 DEF UpdateWrite, tables
  <2> DEFINE i == call[c].i
             r == Updated(item[i], call[c].want)
  <2>2. CASE UNCHANGED <<tables, strayed>>
    BY <2>1, <2>2, CrossersKept DEF Crosses, tables
  <2>3. CASE /\ item' = [item EXCEPT ![i] = r]
             /\ strayed' = IF item'[i].project = item[i].project THEN strayed
                           ELSE strayed \cup {f \in deps : Touches(f, i)}
    <3> HIDE DEF r, i
    <3>1. CASE e \in strayed'
      BY <3>1
    <3>2. CASE e \notin strayed'
      <4>1. item'[e[1]].project = item[e[1]].project /\ item'[e[2]].project = item[e[2]].project
        BY <1>0, <2>1, <2>3, <3>2 DEF RowsOK, Touches
      <4> QED  BY <2>1, <3>2, <4>1, CrossersKept DEF Crosses
    <3> QED  BY <3>1, <3>2
  <2> QED  BY <1>2, <2>2, <2>3 DEF UpdateWrite
<1>3. CASE ShareEdges(c)
  <2> DEFINE p == call[c].p
             crossing == CrossingEdges(p)
  <2>1. /\ call' = [call EXCEPT ![c].at = "purge", ![c].doomed = crossing]
        /\ strayed' = {f \in strayed : p \notin {item[f[1]].project, item[f[2]].project}}
        /\ UNCHANGED <<item, deps>>
    BY <1>3 DEF ShareEdges, tables
  <2>2. e \in deps /\ Crosses(e)
    BY <2>1 DEF Crosses
  <2>3. CASE p \in {item[e[1]].project, item[e[2]].project}
    <3>1. e \in crossing
      BY <2>2, <2>3 DEF CrossingEdges
    <3> HIDE DEF crossing, p
    <3>2. call[c] \in ShareCall
      BY <1>3, Locals DEF CallsOK, ShareEdges, At
    <3>3. call'[c] = [call[c] EXCEPT !.at = "purge", !.doomed = crossing]
      BY <2>1 DEF CallsOK
    <3>4. call'[c].op = "share" /\ call'[c].at = "purge" /\ call'[c].doomed = crossing
      BY <1>3, <3>2, <3>3 DEF ShareCall, ShareEdges, At
    <3> QED  BY <3>1, <3>4 DEF At
  <2>4. CASE p \notin {item[e[1]].project, item[e[2]].project}
    BY <2>1, <2>2, <2>4, CrossersKept
  <2> QED  BY <2>3, <2>4
<1>4. CASE AddInsert(c)
  <2> DEFINE i == call[c].i
             b == call[c].b
             g == <<i, b>>
  <2>1. CASE UNCHANGED <<tables, raced, strayed>>
    BY <2>1, CrossersKept DEF Crosses, tables
  <2>2. CASE /\ deps' = deps \cup {g} /\ g \notin deps
             /\ strayed' = IF {i, b} \cap late[c] # {} THEN strayed \cup {g} ELSE strayed \ {g}
             /\ item' = item
    <3>1. CASE e # g
      <4> HIDE DEF g
      <4> QED  BY <2>2, <3>1, CrossersKept DEF Crosses
    <3>2. CASE e = g
      <4>1. call[c].op = "add_blocker" /\ call[c].at = "insert"
        BY <1>4 DEF AddInsert, At
      <4>2. /\ item[i].project = call[c].p \/ i \in late[c]
            /\ item[b].project = call[c].p \/ b \in late[c]
        BY <4>1 DEF AddOK
      <4>3. e[1] = i /\ e[2] = b
        BY <3>2
      <4> QED  BY <2>2, <3>2, <4>2, <4>3 DEF Crosses
    <3> QED  BY <3>1, <3>2
  <2> QED  BY <1>4, <2>1, <2>2 DEF AddInsert
<1>5. CASE ~CreateInsert(c) /\ ~UpdateWrite(c) /\ ~ShareEdges(c) /\ ~AddInsert(c)
  <2>1. e \in deps
    BY <1>5, OnlyAddsRace
  <2> QED  BY <1>0, <1>5, <2>1, SameProjects, CrossersKept DEF Crosses
<1> QED  BY <1>1, <1>2, <1>3, <1>4, <1>5

LEMMA WorkspacesKept ==
  ASSUME BoardInv, WorkspaceHasRepos, NEW c \in Caller, CallStep(c), SettingOK(c)
  PROVE  WorkspaceHasRepos'
<1> USE DEF BoardInv
<1>1. CASE UNCHANGED <<project, torn>>
  BY <1>1 DEF WorkspaceHasRepos
<1>2. CASE CreateProjectInsert(c)
  <2>1. call[c].workspace => call[c].repos
    BY <1>2 DEF CreateProjectInsert, At, SettingOK
  <2>2. /\ project' = [project EXCEPT ![call[c].p] =
             [live |-> TRUE, workspace |-> call[c].workspace, repos |-> call[c].repos]]
        /\ torn' = torn
    BY <1>2 DEF CreateProjectInsert, history
  <2> QED  BY <2>1, <2>2 DEF WorkspaceHasRepos, RowsOK
<1>3. CASE ProjectWrite(c) /\ ~UNCHANGED <<project, torn>>
  <2> DEFINE p == call[c].p
             work == Effective(call[c].mode, project[p].workspace)
             urls == Effective(call[c].repos, project[p].repos)
  <2>1. /\ project' = [project EXCEPT ![p].workspace = Effective(call[c].mode, @),
                                      ![p].repos = Effective(call[c].repos, @)]
        /\ torn' = IF call[c].row # project[p] THEN torn \cup {p} ELSE torn \ {p}
    BY <1>3 DEF ProjectWrite, tables
  <2>2. call[c].row = project[p] => (work => urls)
    BY <1>3 DEF ProjectWrite, SettingOK, At
  <2>3. p \in Project
    BY <1>3, Locals DEF ProjectWrite, At, CallsOK, UpdateProjectCall
  <2>4. project'[p] = [project[p] EXCEPT !.workspace = work, !.repos = urls]
    BY <2>1, <2>3 DEF RowsOK
  <2>5. project'[p].workspace = work /\ project'[p].repos = urls
    <3> HIDE DEF work, urls
    <3> QED  BY <2>3, <2>4 DEF RowsOK, ProjectRow
  <2>6. \A q \in Project : q # p => project'[q] = project[q]
    BY <2>1, <2>3 DEF RowsOK
  <2> HIDE DEF p, work, urls
  <2> QED  BY <2>1, <2>2, <2>5, <2>6 DEF WorkspaceHasRepos
<1>4. CASE DeleteProjectRow(c)
  <2>1. project' = [project EXCEPT ![call[c].p].live = FALSE] /\ torn' = torn
    BY <1>4 DEF DeleteProjectRow
  <2>2. \A q \in Project : /\ project'[q].workspace = project[q].workspace
                           /\ project'[q].repos = project[q].repos
    <3> SUFFICES ASSUME NEW q \in Project
                 PROVE  /\ project'[q].workspace = project[q].workspace
                        /\ project'[q].repos = project[q].repos
      OBVIOUS
    <3>1. project'[q] \in {project[q], [project[q] EXCEPT !.live = FALSE]}
      BY <2>1 DEF RowsOK
    <3> QED  BY <3>1 DEF RowsOK, ProjectRow
  <2> QED  BY <2>1, <2>2 DEF WorkspaceHasRepos
<1>5. ASSUME ~CreateProjectInsert(c), ~ProjectWrite(c), ~DeleteProjectRow(c)
      PROVE  UNCHANGED <<project, torn>>
  <2>1. CASE Asks(c)
    BY <2>1, AskIs DEF Ask, tables, history
  <2>2. CASE Reads(c)
    BY <2>2, ReadIs DEF ReadStep, tables, history
  <2>3. CASE FileWrites(c)
    BY <2>3 DEF FileWrites, DeleteFiles, UploadFile, UploadRow, DeleteFileAccess,
                DeleteFileRow, history
  <2>4. CASE RolloutLocks(c) \/ AddInsert(c)
    BY <2>4 DEF RolloutLocks, AddInsert, tables, history
  <2>5. CASE RowWrites(c)
    BY <1>5, <2>5 DEF RowWrites, CreateInsert, UpdateWrite, DeleteRow, RemoveRow, ShareInsert,
                ShareEdges, SharePurge, UnshareRow, PostInsert, UnpostRow, tables, history
  <2> QED  BY <2>1, <2>2, <2>3, <2>4, <2>5, StepKinds
<1> QED  BY <1>1, <1>2, <1>3, <1>4, <1>5

-----------------------------------------------------------------------------
(* The rules, whatever calls and requests meet *)

LEMMA RulesElsewhere ==
  ASSUME RulesInv, UNCHANGED <<project, item, deps, call, late, raced, strayed, torn>>
  PROVE  RulesInv'
<1>1. \A c \in Caller : AddOK(c)' /\ UpdateOK(c)' /\ SettingOK(c)'
  BY DEF RulesInv, AddOK, UpdateOK, SettingOK, At, Unresolved
<1>2. CyclesAreRaced' /\ CrossEdgesStrayed' /\ WorkspaceHasRepos'
  BY DEF RulesInv, CyclesAreRaced, CrossEdgesStrayed, WorkspaceHasRepos, Crosses, At
<1> QED  BY <1>1, <1>2 DEF RulesInv

LEMMA CallStepRules ==
  ASSUME BoardInv, RulesInv, NEW c \in Caller, CallStep(c)
  PROVE  RulesInv'
<1>1. AddOK(c)' /\ UpdateOK(c)' /\ SettingOK(c)'
  BY OwnOK DEF RulesInv
<1>2. ASSUME NEW d \in Caller, d # c
      PROVE  AddOK(d)' /\ UpdateOK(d)' /\ SettingOK(d)'
  BY <1>2, OthersSee, OthersOK DEF RulesInv, BoardInv
<1>3. CyclesAreRaced' /\ CrossEdgesStrayed' /\ WorkspaceHasRepos'
  BY CyclesKept, CrossEdgesKept, WorkspacesKept DEF RulesInv
<1> QED  BY <1>1, <1>2, <1>3 DEF RulesInv

LEMMA RefusedRules ==
  ASSUME BoardInv, RulesInv, NEW c \in Caller, InsertRefused(c)
  PROVE  RulesInv'
<1>1. /\ End(c) /\ ReadStep(c) /\ call[c].at = "insert"
      /\ UNCHANGED <<project, item, deps, raced, strayed, torn>>
  BY DEF InsertRefused, Inserts, ReadStep, tables, history
<1>2. ASSUME NEW d \in Caller, d # c
      PROVE  Sees(d) /\ call'[d] = call[d]
  <2>1. call'[d] = call[d]
    BY <1>1, <1>2, CallElsewhere DEF End, BoardInv
  <2> QED  BY <1>1, <1>2, <2>1, WroteOthers DEF Sees, ReadStep
<1>3. \A d \in Caller : AddOK(d)' /\ UpdateOK(d)' /\ SettingOK(d)'
  <2>1. AddOK(c)' /\ UpdateOK(c)' /\ SettingOK(c)'
    BY <1>1, EndedOK DEF BoardInv
  <2>2. ASSUME NEW d \in Caller, d # c
        PROVE  AddOK(d)' /\ UpdateOK(d)' /\ SettingOK(d)'
    BY <1>2, <2>2, OthersOK DEF RulesInv, BoardInv
  <2> QED  BY <2>1, <2>2
<1>4. CyclesAreRaced' /\ WorkspaceHasRepos'
  BY <1>1 DEF RulesInv, CyclesAreRaced, WorkspaceHasRepos
<1>5. CrossEdgesStrayed'
  <2> SUFFICES ASSUME NEW e \in deps, Crosses(e), e \notin strayed
               PROVE  \E d \in Caller : At(d, "share", "purge")' /\ e \in call'[d].doomed
    BY <1>1 DEF CrossEdgesStrayed, Crosses, At
  <2>1. PICK d \in Caller : At(d, "share", "purge") /\ e \in call[d].doomed
    BY DEF RulesInv, CrossEdgesStrayed
  <2>2. d # c
    BY <1>1, <2>1 DEF At
  <2> QED  BY <1>2, <2>1, <2>2 DEF At
<1> QED  BY <1>3, <1>4, <1>5 DEF RulesInv

LEMMA RestartRules ==
  ASSUME BoardInv, RulesInv, Restart
  PROVE  RulesInv'
<1>1. \A c \in Caller : call'[c].op = "none"
  BY DEF Restart, NoCall
<1>2. \A c \in Caller : AddOK(c)' /\ UpdateOK(c)' /\ SettingOK(c)'
  BY <1>1, OverOK
<1>3. CyclesAreRaced'
  <2>1. deps' \subseteq deps /\ raced' = raced
    BY DEF Restart
  <2> QED  BY <2>1 DEF RulesInv, CyclesAreRaced
<1>4. CrossEdgesStrayed' /\ WorkspaceHasRepos'
  BY DEF RulesInv, CrossEdgesStrayed, WorkspaceHasRepos, Restart, Crosses
<1> QED  BY <1>2, <1>3, <1>4 DEF RulesInv

LEMMA RequestElsewhere ==
  ASSUME NEW c \in Caller, RequestStep(c)
  PROVE  UNCHANGED <<project, item, deps, row, disk, call, used, late, history>>
BY DEF RequestStep, AskRegister, RegisterInvite, RegisterMail, RegisterCommit,
     AskReset, ResetLink, ResetCommit, AskPassword, PasswordAuth, PasswordWrite,
     AskNewKey, NewKeyAuth, NewKeyInsert, AskDropKey, DropKeyAuth, DropKeyRead, DropKeyRow,
     AskInvite, InviteAuth, InviteInsert, AskRevoke, RevokeAuth, RevokeRead, RevokeRow,
     AskOnUser, OnUserAuth, OnUserRead, IssueInsert, PromoteWrite, DeleteAuth,
     DeleteUserRead, DeleteUserProjects, DeleteUserItems, DeleteUserResets,
     DeleteUserInvites, DeleteUserKeys, DeleteUserPosts, DeleteUserRow,
     Demand, Authenticate, LookStep, BoardKept, tables, history

LEMMA RulesStart == Init => RulesInv
<1> SUFFICES ASSUME Init PROVE RulesInv
  OBVIOUS
<1>1. \A c \in Caller : call[c].op = "none"
  BY DEF Init, NoCall
<1>2. \A p \in Project : ~project[p].workspace
  BY DEF Init
<1> QED  BY <1>1, <1>2 DEF Init, RulesInv, AddOK, UpdateOK, SettingOK, At, CyclesAreRaced,
            CrossEdgesStrayed, WorkspaceHasRepos

\* What a call knows of the rows it has read holds of the rows as they are, or
\* others wrote them since; so a rule that is checked on rows that were read can
\* only be broken by two calls at once, or by a later move of an item.
THEOREM RulesInductive == AccountsSpec => []RulesInv
<1>1. AccountsInit => RulesInv
  BY RulesStart DEF AccountsInit
<1>2. BoardInv /\ RulesInv /\ [AccountsNext]_accountsVars => RulesInv'
  <2>. SUFFICES ASSUME BoardInv, RulesInv, [AccountsNext]_accountsVars PROVE RulesInv'
    OBVIOUS
  <2>1. CASE AccountsRestart
    BY <2>1, RestartRules DEF AccountsRestart
  <2>2. ASSUME NEW l \in Link, LinkExpires(l) PROVE RulesInv'
    BY <2>2, RulesElsewhere DEF LinkExpires, BoardKept, tables, history
  <2>3. ASSUME NEW c \in Caller, BoardStep(c) PROVE RulesInv'
    BY <2>3, CallStepRules DEF BoardStep
  <2>4. ASSUME NEW c \in Caller, InsertRefused(c) PROVE RulesInv'
    BY <2>4, RefusedRules
  <2>5. ASSUME NEW c \in Caller, RequestStep(c) PROVE RulesInv'
    BY <2>5, RequestElsewhere, RulesElsewhere DEF history
  <2>6. CASE UNCHANGED vars
    BY <2>6, RulesElsewhere DEF vars, tables, history
  <2>. QED BY <2>1, <2>2, <2>3, <2>4, <2>5, <2>6 DEF AccountsNext, Publish, accountsVars
<1>. QED BY <1>1, <1>2, BoardInductive, PTL DEF AccountsSpec

\* Blockers form no cycle and join no two projects, and a workspace project has a
\* repository, unless two calls that were served at the same time, or a later
\* move of an item, made it so: add_blocker, the purge of a shared project and
\* update_project, each with an await between its check and its write.
THEOREM RulesKept == AccountsSpec => []RulesAreRaced
<1>1. RulesInv => RulesAreRaced
  BY DEF RulesInv, RulesAreRaced
<1>. QED BY <1>1, RulesInductive, PTL

\* update_item and claim_item write with WHERE id and no other condition: the row
\* would still accept the write, or another call wrote it, one of its blockers or
\* the edge to it while this call was being served.
THEOREM UpdatesStand == AccountsSpec => UndisturbedUpdatesStand
<1> DEFINE Stand == \A c \in Caller :
      call[c].op \in {"update", "claim"} /\ call[c].at = "write" /\ call'[c] # call[c]
        /\ item' # item => UpdateStands(c)
<1>1. BoardInv /\ RulesInv /\ [AccountsNext]_accountsVars => [Stand]_vars
  <2> SUFFICES ASSUME BoardInv, RulesInv, [AccountsNext]_accountsVars,
                      NEW c \in Caller, call[c].op \in {"update", "claim"},
                      call[c].at = "write", call'[c] # call[c], item' # item
               PROVE  UpdateStands(c)
    OBVIOUS
  <2>1. PICK d \in Caller : CallStep(d)
    <3>1. ~AccountsRestart
      BY DEF AccountsRestart, Restart
    <3>2. \A l \in Link : ~LinkExpires(l)
      BY DEF LinkExpires, BoardKept, tables
    <3>3. \A d \in Caller : ~InsertRefused(d)
      BY DEF InsertRefused, ReadStep, tables
    <3>4. \A d \in Caller : ~RequestStep(d)
      BY RequestElsewhere
    <3>5. ~UNCHANGED vars
      BY DEF vars, tables
    <3> QED  BY <3>1, <3>2, <3>3, <3>4, <3>5
             DEF AccountsNext, BoardStep, Publish, accountsVars
  <2>2. d = c
    BY <2>1, OthersSee DEF Sees
  <2>3. UpdateOK(c)
    BY DEF RulesInv
  <2> QED  BY <2>3 DEF UpdateOK, UpdateStands
<1>2. [][Stand]_vars => UndisturbedUpdatesStand
  BY PTL DEF UndisturbedUpdatesStand
<1>. QED BY <1>1, <1>2, RulesInductive, BoardInductive, PTL DEF AccountsSpec

=============================================================================
