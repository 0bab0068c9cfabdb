---------------------------- MODULE RolloutLog -----------------------------
(***************************************************************************)
(* The event log of a rollout (table rollout_events), the requests that    *)
(* append to it and the events they publish (services/rollout_service.py). *)
(*                                                                         *)
(* A row gets the next sequence number, read in one statement and used in  *)
(* another; the table refuses a number twice, and the handler that is      *)
(* refused stops where it is: what it had already written stays.  The      *)
(* rollout here has one item.                                              *)
(***************************************************************************)
EXTENDS EventStream

CONSTANTS
    Lead,     \* the user who leads the rollout
    MaxCalls  \* bound: requests

ASSUME LogAssumption ==
    /\ Lead \in User
    /\ MaxCalls \in Nat
    /\ "rollout_event" \in Kind

VARIABLES
    status,   \* autonomous_rollouts.status
    banner,   \* its manager_ columns: the call that wrote them last, or 0
    item,     \* rollout_items.status of the only item
    rows,     \* table rollout_events
    call,     \* the requests
    excuse,   \* history: requests that lost a number to another, or died
    overlap   \* history: two completions were served at the same time

logVars == <<status, banner, item, rows, call, excuse, overlap>>
vars == <<streamVars, logVars>>

Call == 1 .. MaxCalls
Op == {"update", "halt", "answer", "complete"}
RowKind == {"manager_state_update", "comment_posted", "wave_halted",
            "item_outcome", "merge_note", "wave_completed"}

\* A step of a request that looks for the merge note before it appends one.
NoteCheck == "merge_note?"

LogTypeOK ==
    /\ TypeOK
    /\ status \in {"running", "halted", "completed"}
    /\ banner \in Call \cup {0}
    /\ item \in {"dispatched", "halted", "completed"}
    /\ rows \subseteq [seq : Nat \ {0}, kind : RowKind, by : Call,
                   event : Id \cup {Nil}]
    /\ call \in [Call -> [op : Op \cup {Nil},
                          pc : {"new", "write", "items", "close", "append",
                                "insert", "ok", "raised", "dead"},
                          todo : Seq(RowKind \cup {NoteCheck}), seq : Nat]]
    /\ excuse \subseteq Call
    /\ overlap \in BOOLEAN

Init ==
    /\ StreamInit
    /\ status = "running" /\ banner = 0 /\ item = "dispatched" /\ rows = {}
    /\ call = [c \in Call |->
                  [op |-> Nil, pc |-> "new", todo |-> <<>>, seq |-> 0]]
    /\ excuse = {} /\ overlap = FALSE

-----------------------------------------------------------------------------
(* Requests up to their first row.                                         *)

InProgress(c) == call[c].pc \in {"write", "items", "close", "append",
                                 "insert"}

Quiet(op) == \A c \in Call : InProgress(c) => call[c].op # op

Go(c, pc, todo) == call' = [call EXCEPT ![c].pc = pc, ![c].todo = todo]

\* The rows each kind of request appends, in its order.
RowsOf(op) ==
    CASE op = "update"   -> <<"manager_state_update">>
      [] op = "halt"     -> <<"comment_posted", "wave_halted">>
      [] op = "answer"   -> <<"comment_posted">>
      [] op = "complete" -> <<"item_outcome", "merge_note", "wave_completed">>

\* The read that each handler begins with.  A repeated completion goes on to
\* heal what an earlier one left undone.
Admitted(op) ==
    CASE op \in {"update", "answer", "halt"} -> status = "running"
      [] op = "complete" -> \/ item \in {"dispatched", "completed"}
                            \/ item = "halted" /\ status # "completed"

Repeats(op) == op = "complete" /\ item = "completed"

\* _heal_repeat_completion: close an open rollout and tell of it, then append
\* the note when none is there.
Heal == IF status = "completed" THEN <<NoteCheck>>
        ELSE <<"wave_completed", NoteCheck>>

HealPc == IF status = "completed" THEN "append" ELSE "close"

\* The requests come from one manager and from the people at the board.  The
\* manager waits for its answer before it reports its next phase.
Ask(c) ==
    /\ c <= bounds.calls
    /\ call[c].pc = "new" /\ \A d \in 1 .. (c - 1) : call[d].pc # "new"
    /\ \E op \in bounds.ops :
           /\ op = "update" => Quiet("update")
           /\ call' = [call EXCEPT ![c] =
                  [op |-> op, seq |-> 0,
                   pc |-> IF ~Admitted(op) THEN "raised"
                          ELSE IF op = "answer" THEN "append"
                          ELSE IF Repeats(op) THEN HealPc ELSE "write",
                   todo |-> IF ~Admitted(op) THEN <<>>
                            ELSE IF Repeats(op) THEN Heal ELSE RowsOf(op)]]
           /\ overlap' = \/ overlap
                         \/ op = "complete" /\ ~Quiet("complete")
    /\ UNCHANGED <<streamVars, status, banner, item, rows, excuse>>

UpdateWrite(c) ==
    /\ call[c].op = "update" /\ call[c].pc = "write"
    /\ banner' = c
    /\ Go(c, "append", call[c].todo)
    /\ UNCHANGED <<streamVars, status, item, rows, excuse, overlap>>

HaltWrite(c) ==
    /\ call[c].op = "halt" /\ call[c].pc = "write"
    /\ status' = "halted"
    /\ Go(c, "items", call[c].todo)
    /\ UNCHANGED <<streamVars, banner, item, rows, excuse, overlap>>

HaltItems(c) ==
    /\ call[c].op = "halt" /\ call[c].pc = "items"
    /\ item' = IF item = "dispatched" THEN "halted" ELSE item
    /\ Go(c, "append", call[c].todo)
    /\ UNCHANGED <<streamVars, status, banner, rows, excuse, overlap>>

CompleteWrite(c) ==
    /\ call[c].op = "complete" /\ call[c].pc = "write"
    /\ item' = "completed"
    /\ Go(c, "close", call[c].todo)
    /\ UNCHANGED <<streamVars, status, banner, rows, excuse, overlap>>

CompleteClose(c) ==
    /\ call[c].op = "complete" /\ call[c].pc = "close"
    /\ status' = "completed"
    /\ Go(c, "append", call[c].todo)
    /\ UNCHANGED <<streamVars, banner, item, rows, excuse, overlap>>

-----------------------------------------------------------------------------
(* Rows.                                                                   *)

MutantNextSeq == Max({r.seq : r \in {q \in rows : q.kind # "comment_posted"}}
                         \cup {0}) + 1

NextSeq == Max({r.seq : r \in rows} \cup {0}) + 1

ReadSeq(c) ==
    /\ call[c].pc = "append" /\ Head(call[c].todo) # NoteCheck
    /\ call' = [call EXCEPT ![c].pc = "insert", ![c].seq = NextSeq]
    /\ UNCHANGED <<streamVars, status, banner, item, rows, excuse, overlap>>

Done(c, todo) == Go(c, IF todo = <<>> THEN "ok" ELSE "append", todo)

Taken(n) == \E r \in rows : r.seq = n

\* The task that publishes a row, to the lead and to the members (of the first
\* rows, up to the bound on events).
PublishRow == IF MoreEvents THEN Created("rollout_event", Lead, TRUE, 0, "task")
              ELSE UNCHANGED <<event, pub>>

Insert(c) ==
    /\ call[c].pc = "insert" /\ ~Taken(call[c].seq)
    /\ PublishRow
    /\ rows' = rows \cup
           {[seq |-> call[c].seq, kind |-> Head(call[c].todo), by |-> c,
             event |-> IF MoreEvents THEN Len(event) + 1 ELSE Nil]}
    /\ Done(c, Tail(call[c].todo))
    /\ excuse' = excuse \cup {d \in Call : /\ call[d].pc = "insert"
                                           /\ call[d].seq = call[c].seq
                                           /\ d # c}
    /\ UNCHANGED <<clock, stored, status, banner, item, overlap, connVars,
                   lifeVars>>

\* UNIQUE (rollout_id, seq): the handler raises and goes no further.
RowIsRefused(c) ==
    /\ call[c].pc = "insert" /\ Taken(call[c].seq)
    /\ call' = [call EXCEPT ![c].pc = "raised"]
    /\ UNCHANGED <<streamVars, status, banner, item, rows, excuse, overlap>>

FindNote(c) ==
    /\ call[c].pc = "append" /\ Head(call[c].todo) = NoteCheck
    /\ Done(c, IF \E r \in rows : r.kind = "merge_note" THEN <<>>
               ELSE <<"merge_note">>)
    /\ UNCHANGED <<streamVars, status, banner, item, rows, excuse, overlap>>

Step(c) == \/ UpdateWrite(c) \/ HaltWrite(c) \/ HaltItems(c)
           \/ CompleteWrite(c) \/ CompleteClose(c)
           \/ ReadSeq(c) \/ Insert(c) \/ RowIsRefused(c) \/ FindNote(c)

\* The process restarts: the requests it served are gone.
Restart ==
    /\ Restarted
    /\ call' = [c \in Call |-> IF InProgress(c)
                               THEN [call[c] EXCEPT !.pc = "dead"]
                               ELSE call[c]]
    /\ excuse' = excuse \cup {c \in Call : InProgress(c)}
    /\ UNCHANGED <<status, banner, item, rows, overlap>>

Next ==
    \/ (Emit \/ BusStep) /\ UNCHANGED logVars
    \/ \E c \in Call : Ask(c) \/ Step(c)
    \/ Restart

Spec == Init /\ [][Next]_vars

\* The event loop runs every coroutine that can run, and the database
\* answers.  Nothing makes a browser connect or leave.
FairSpec ==
    /\ Spec
    /\ \A e \in Id : WF_vars(e \in DOMAIN pub /\ Publish(e)
                                /\ UNCHANGED logVars)
    /\ \A s \in Stream : WF_vars(Serve(s) /\ UNCHANGED logVars)
    /\ \A c \in Call : WF_vars(Step(c))

-----------------------------------------------------------------------------
(* Reading.                                                                *)

\* ORDER BY seq DESC LIMIT n.
Newest(set, n) == {r \in set : Cardinality({q \in set : q.seq > r.seq}) < n}

\* get_rollout_events; get_recent_merge_notes, for the next manager's prompt.
Feed(n) == Newest(rows, n)
RecentNotes(n) == Newest({r \in rows : r.kind = "merge_note"}, n)

\* get_rollout_failure_feed, the halts in it.
Halts == {r \in rows : r.kind = "wave_halted"}

Before(seq) == {r \in rows : r.seq < seq}
Oldest(set) == CHOOSE r \in set : \A q \in set : r.seq <= q.seq

MutantPage(seq, n) == [rows |-> Newest(Before(seq), n),
                       more |-> Cardinality(Before(seq)) >= n]

\* get_rollout_activity with a cursor: one row more is read to tell whether
\* there is a further page.
Page(seq, n) ==
    LET found == Newest(Before(seq), n + 1)
    IN [rows |-> Newest(found, n), more |-> Cardinality(found) > n]

-----------------------------------------------------------------------------
(* What the log promises.                                                  *)

\* A page of the feed holds the last n things that happened, without a gap
\* and each once, whatever the interleaving of the two statements.
LogIsContiguous ==
    \A n \in 1 .. Cardinality(rows) :
        /\ Cardinality(Feed(n)) = n
        /\ {r.seq : r \in Feed(n)} =
               (Cardinality(rows) - n + 1) .. Cardinality(rows)

Told(kind) == \E r \in rows : r.kind = kind

\* Whoever pages through the activity, each page from the last row of the one
\* before, sees every row once: a page stays what it is while rows are
\* appended, and the next begins where it ends, if it says that there is more.
PagesStand ==
    [][\A r \in rows, n \in 1 .. 2 :
           LET page == Page(r.seq, n)
               next == Page(Oldest(page.rows).seq, n)
           IN /\ Page(r.seq, n)' = page
              /\ page.more => /\ next.rows # {}
                              /\ page.rows \cup next.rows = Page(r.seq, 2 * n).rows
              /\ page.more \/ page.rows = Before(r.seq)]_vars

Excused(op) == \E c \in excuse : call[c].op = op

\* The history tells of every end: a halted or completed rollout has the row
\* that says so once no request of that kind is under way, unless the request
\* died or lost the race for a number.  (Nothing makes up for those.)
EndsAreTold ==
    /\ (status = "halted" /\ Quiet("halt"))
           => Halts # {} \/ Excused("halt")
    /\ (status = "completed" /\ Quiet("complete"))
           => Told("wave_completed") \/ Excused("complete")

\* The merge note is the memory of the next manager: a completion that
\* answered left one, even when an earlier one stopped half-way, and only
\* completions that overlapped can leave two.
NotesAreKept ==
    LET notes == RecentNotes(2)
    IN /\ \A c \in Call : (call[c].op = "complete" /\ call[c].pc = "ok")
                              => notes # {}
       /\ Cardinality(notes) = 2 => overlap

\* The phase the banner shows is the last one the log tells of, once the
\* manager is waiting for nothing, unless its last report was cut short.
BannerIsLast ==
    LET told == {r \in rows : r.kind = "manager_state_update"}
        cut == {c \in excuse : call[c].op = "update"}
    IN (banner # 0 /\ Quiet("update"))
           => \/ banner \in cut
              \/ \E r \in told : /\ r.by = banner
                                 /\ \A q \in told : q.seq <= r.seq

\* Every row of the log is published: its task comes to the end of its
\* fan-out, or what it raised is counted, or the process ended.
RowsArePublished ==
    \A e \in Id :
        (e \in {r.event : r \in rows})
            ~> (e \in DOMAIN pub /\ pub[e] \in {"done", "failed", "lost"})

\* rollout_service.py:1912 says that the events are published so that the
\* banner refreshes in real time: what the browser receives of a rollout is
\* passed on to it.
BannerHears ==
    \A s \in Stream : \A e \in ToSet(stream[s].got) :
        event[e].kind = "rollout_event" => e \in stream[s].shown

\* The log tells what happened: numbers without a gap, the ends of the
\* rollout, a note for each completion, and the phase that the banner shows.
LogInv == LogTypeOK /\ LogIsContiguous /\ EndsAreTold /\ NotesAreKept /\ BannerIsLast
=============================================================================
