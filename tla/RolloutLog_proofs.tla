------------------------- MODULE RolloutLog_proofs -------------------------
(***************************************************************************)
(* Proofs about RolloutLog for any number of users, browsers, events and   *)
(* requests.  However the read of the next sequence number and the INSERT  *)
(* that uses it are interleaved, the table is numbered from 1 without a    *)
(* gap (NumberInv), so a page of the feed is the last rows of it and pages *)
(* stand.  A browser is sent what it asked for (DeliveryParts), and the    *)
(* log tells of the ends, the notes and the phases (TellInv).              *)
(***************************************************************************)
EXTENDS RolloutLog, FiniteSetTheorems, FunctionTheorems, WellFoundedInduction, TLAPS

LogRow == RowKind \cup {NoteCheck}

\* The requests: a request that is not over still has something to append.
CallsOK ==
    /\ call \in [Call -> [op : Op \cup {Nil},
                          pc : {"new", "write", "items", "close", "append",
                                "insert", "ok", "raised", "dead"},
                          todo : Seq(LogRow), seq : Nat]]
    /\ \A c \in Call : InProgress(c) => call[c].todo # <<>>

\* The numbers of the rows are 1, 2, ... and no two rows have the same.
Numbered(set) ==
    /\ IsFiniteSet(set)
    /\ \A r, q \in set : r.seq = q.seq => r = q
    /\ {r.seq : r \in set} = 1 .. Cardinality(set)

\* A number that was read is at most the next one: rows are never deleted.
ReadsAreOld ==
    \A c \in Call :
        call[c].pc = "insert" => call[c].seq \in 1 .. (Cardinality(rows) + 1)

\* The bounds of a behaviour name the requests there are; they stay.
BoundsOK == bounds \in Mixes

NumberInv == BoundsOK /\ CallsOK /\ Numbered(rows) /\ ReadsAreOld

-----------------------------------------------------------------------------
(* Numbers                                                                 *)

\* The next number is one more than there are rows.
LEMMA NextIsCount ==
    ASSUME Numbered(rows)
    PROVE  Cardinality(rows) \in Nat /\ NextSeq = Cardinality(rows) + 1
<1> DEFINE N == Cardinality(rows)
           S == {r.seq : r \in rows} \cup {0}
<1>1. N \in Nat
    BY FS_CardinalityType DEF Numbered
<1>2. S = 0 .. N
    <2>1. S = (1 .. N) \cup {0}
        BY DEF Numbered
    <2>. QED BY <2>1, <1>1
<1>3. N \in S /\ \A y \in S : N >= y
    BY <1>1, <1>2
<1>4. Max(S) = N
    <2>1. \A x \in S : (\A y \in S : x >= y) => x = N
        BY <1>1, <1>2, <1>3
    <2>. HIDE DEF S, N
    <2>. QED BY <2>1, <1>3 DEF Max
<1>. QED BY <1>1, <1>4 DEF NextSeq

\* A row with the next number keeps the rows numbered.
LEMMA AddNumbered ==
    ASSUME NEW set, Numbered(set), NEW r, r.seq = Cardinality(set) + 1
    PROVE  /\ Numbered(set \cup {r})
           /\ Cardinality(set \cup {r}) = Cardinality(set) + 1
<1> DEFINE N == Cardinality(set)
<1>1. N \in Nat
    BY FS_CardinalityType DEF Numbered
<1>2. \A q \in set : q.seq \in 1 .. N
    BY DEF Numbered
<1>3. r \notin set
    BY <1>1, <1>2
<1>4. IsFiniteSet(set \cup {r}) /\ Cardinality(set \cup {r}) = N + 1
    BY <1>3, FS_AddElement DEF Numbered
<1>5. \A p, q \in set \cup {r} : p.seq = q.seq => p = q
    BY <1>1, <1>2 DEF Numbered
<1>6. {q.seq : q \in set \cup {r}} = (1 .. N) \cup {N + 1}
    BY DEF Numbered
<1>7. (1 .. N) \cup {N + 1} = 1 .. (N + 1)
    BY <1>1
<1>. QED BY <1>4, <1>5, <1>6, <1>7 DEF Numbered

-----------------------------------------------------------------------------
(* The invariant                                                           *)

\* The rows in a request's plan are rows of the log, and there is one at least.
LEMMA PlannedRows ==
    ASSUME NEW op \in Op
    PROVE  RowsOf(op) \in Seq(LogRow) /\ RowsOf(op) # <<>>
<1>1. /\ <<"manager_state_update">> \in Seq(LogRow)
      /\ <<"comment_posted">> \in Seq(LogRow)
      /\ <<"comment_posted", "wave_halted">> \in Seq(LogRow)
      /\ <<"item_outcome", "merge_note", "wave_completed">> \in Seq(LogRow)
    BY DEF LogRow, RowKind
<1>2. /\ <<"manager_state_update">> # <<>> /\ <<"comment_posted">> # <<>>
      /\ <<"comment_posted", "wave_halted">> # <<>>
      /\ <<"item_outcome", "merge_note", "wave_completed">> # <<>>
    OBVIOUS
<1>3. CASE op = "update"   BY <1>1, <1>2, <1>3 DEF RowsOf
<1>4. CASE op = "halt"     BY <1>1, <1>2, <1>4 DEF RowsOf
<1>5. CASE op = "answer"   BY <1>1, <1>2, <1>5 DEF RowsOf
<1>6. CASE op = "complete" BY <1>1, <1>2, <1>6 DEF RowsOf
<1>. QED BY <1>3, <1>4, <1>5, <1>6 DEF Op

\* So do the rows of a repeated completion.
LEMMA HealRows == Heal \in Seq(LogRow) /\ Heal # <<>> /\ HealPc \in {"append", "close"}
    BY DEF Heal, HealPc, LogRow, RowKind, NoteCheck

\* A request that goes on with some rows left, or is over, stays well formed.
LEMMA GoKeeps ==
    ASSUME CallsOK, NEW c \in Call, NEW todo \in Seq(LogRow),
           NEW pc \in {"write", "items", "close", "append", "ok", "raised", "dead"},
           pc \in {"write", "items", "close", "append"} => todo # <<>>,
           Go(c, pc, todo)
    PROVE  CallsOK' /\ (ReadsAreOld /\ rows' = rows => ReadsAreOld')
<1>1. /\ call'[c] = [call[c] EXCEPT !.pc = pc, !.todo = todo]
      /\ \A d \in Call : d # c => call'[d] = call[d]
    BY DEF CallsOK, Go
<1>2. call'[c].pc = pc /\ call'[c].todo = todo
    BY <1>1 DEF CallsOK
<1>3. CallsOK'
    <2>1. call' \in [Call -> [op : Op \cup {Nil},
                              pc : {"new", "write", "items", "close", "append",
                                    "insert", "ok", "raised", "dead"},
                              todo : Seq(LogRow), seq : Nat]]
        BY DEF CallsOK, Go
    <2>2. \A d \in Call : InProgress(d)' => call'[d].todo # <<>>
        BY <1>1, <1>2 DEF CallsOK, InProgress
    <2>. QED BY <2>1, <2>2 DEF CallsOK
<1>4. ASSUME ReadsAreOld, rows' = rows PROVE ReadsAreOld'
    BY <1>1, <1>2, <1>4 DEF ReadsAreOld
<1>. QED BY <1>3, <1>4

\* What is left once a row is appended.
LEMMA DoneKeeps ==
    ASSUME CallsOK, NEW c \in Call, NEW todo \in Seq(LogRow), Done(c, todo)
    PROVE  CallsOK' /\ (ReadsAreOld /\ rows' = rows => ReadsAreOld')
<1>1. CASE todo = <<>>
    BY <1>1, GoKeeps DEF Done
<1>2. CASE todo # <<>>
    BY <1>2, GoKeeps DEF Done
<1>. QED BY <1>1, <1>2

\* A request is asked: its rows are planned, or it is refused.
LEMMA AskKeeps ==
    ASSUME BoundsOK, CallsOK, ReadsAreOld, NEW c \in Call, Ask(c)
    PROVE  CallsOK' /\ ReadsAreOld' /\ rows' = rows
<1> DEFINE Pc(op) == IF ~Admitted(op) THEN "raised"
                     ELSE IF op = "answer" THEN "append"
                     ELSE IF Repeats(op) THEN HealPc ELSE "write"
           Todo(op) == IF ~Admitted(op) THEN <<>>
                       ELSE IF Repeats(op) THEN Heal ELSE RowsOf(op)
<1>1. PICK op \in bounds.ops :
        call' = [call EXCEPT ![c] =
                  [op |-> op, seq |-> 0, pc |-> Pc(op), todo |-> Todo(op)]]
    BY DEF Ask
<1>2. op \in Op
    BY <1>1, StreamAssumption DEF BoundsOK, Mix, Op
<1>3. /\ Todo(op) \in Seq(LogRow)
      /\ Pc(op) \in {"raised", "append", "close", "write"}
      /\ Pc(op) # "raised" => Todo(op) # <<>>
    <2>1. CASE ~Admitted(op)
        BY <2>1
    <2>2. CASE Admitted(op) /\ Repeats(op)
        BY <2>2, HealRows DEF Repeats
    <2>3. CASE Admitted(op) /\ ~Repeats(op)
        BY <2>3, <1>2, PlannedRows
    <2>. QED BY <2>1, <2>2, <2>3
<1>4. /\ call'[c].pc = Pc(op) /\ call'[c].todo = Todo(op)
      /\ \A d \in Call : d # c => call'[d] = call[d]
    BY <1>1 DEF CallsOK
<1>5. call' \in [Call -> [op : Op \cup {Nil},
                          pc : {"new", "write", "items", "close", "append",
                                "insert", "ok", "raised", "dead"},
                          todo : Seq(LogRow), seq : Nat]]
    BY <1>1, <1>2, <1>3 DEF CallsOK
<1>6. \A d \in Call : InProgress(d)' => call'[d].todo # <<>>
    BY <1>3, <1>4 DEF CallsOK, InProgress
<1>7. ReadsAreOld'
    BY <1>3, <1>4 DEF ReadsAreOld, Ask
<1>. QED BY <1>5, <1>6, <1>7 DEF CallsOK, Ask

\* The number is read: it is the next one now.
LEMMA ReadSeqKeeps ==
    ASSUME CallsOK, Numbered(rows), ReadsAreOld, NEW c \in Call, ReadSeq(c)
    PROVE  CallsOK' /\ ReadsAreOld' /\ rows' = rows
<1>1. Cardinality(rows) \in Nat /\ NextSeq = Cardinality(rows) + 1
    BY NextIsCount
<1>2. /\ call[c].pc = "append" /\ NextSeq \in Nat
      /\ call' = [call EXCEPT ![c].pc = "insert", ![c].seq = NextSeq]
      /\ rows' = rows
    BY <1>1 DEF ReadSeq
<1>3. /\ call'[c].pc = "insert" /\ call'[c].seq = NextSeq
      /\ call'[c].todo = call[c].todo
      /\ \A d \in Call : d # c => call'[d] = call[d]
    BY <1>2 DEF CallsOK
<1>4. call' \in [Call -> [op : Op \cup {Nil},
                          pc : {"new", "write", "items", "close", "append",
                                "insert", "ok", "raised", "dead"},
                          todo : Seq(LogRow), seq : Nat]]
    BY <1>2 DEF CallsOK
<1>5. \A d \in Call : InProgress(d)' => call'[d].todo # <<>>
    BY <1>2, <1>3 DEF CallsOK, InProgress
<1>6. ReadsAreOld'
    <2>1. NextSeq \in 1 .. (Cardinality(rows) + 1)
        BY <1>1
    <2>2. ASSUME NEW d \in Call, call'[d].pc = "insert"
          PROVE  call'[d].seq \in 1 .. (Cardinality(rows) + 1)
        BY <2>1, <2>2, <1>3 DEF ReadsAreOld
    <2>. QED BY <2>2, <1>2 DEF ReadsAreOld
<1>. QED BY <1>2, <1>4, <1>5, <1>6 DEF CallsOK

\* The INSERT of a number nobody has taken: it was the next one.
LEMMA InsertedIsNext ==
    ASSUME Numbered(rows), ReadsAreOld, NEW c \in Call, Insert(c)
    PROVE  \E new : rows' = rows \cup {new} /\ new.seq = Cardinality(rows) + 1
<1> DEFINE N == Cardinality(rows)
<1>1. call[c].pc = "insert" /\ ~Taken(call[c].seq)
    BY DEF Insert
<1>2. N \in Nat
    BY NextIsCount
<1>3. call[c].seq = N + 1
    <2>1. call[c].seq \in 1 .. (N + 1)
        BY <1>1 DEF ReadsAreOld
    <2>2. call[c].seq \notin 1 .. N
        BY <1>1 DEF Taken, Numbered
    <2>. QED BY <1>2, <2>1, <2>2
<1> DEFINE new == [seq |-> call[c].seq, kind |-> Head(call[c].todo), by |-> c,
                   event |-> IF MoreEvents THEN Len(event) + 1 ELSE Nil]
<1>4. rows' = rows \cup {new}
    BY DEF Insert
<1>5. new.seq = N + 1
    BY <1>3
<1>. HIDE DEF new
<1>. QED BY <1>4, <1>5

\* So it leaves the rows numbered.
LEMMA InsertKeeps ==
    ASSUME CallsOK, Numbered(rows), ReadsAreOld, NEW c \in Call, Insert(c)
    PROVE  CallsOK' /\ Numbered(rows') /\ ReadsAreOld'
<1> DEFINE N == Cardinality(rows)
<1>1. call[c].pc = "insert" /\ Done(c, Tail(call[c].todo))
    BY DEF Insert
<1>2. N \in Nat
    BY NextIsCount
<1>3. Numbered(rows') /\ Cardinality(rows') = N + 1
    BY InsertedIsNext, AddNumbered
<1>4. Tail(call[c].todo) \in Seq(LogRow)
    BY <1>1 DEF CallsOK, InProgress
<1>5. CallsOK'
    BY <1>1, <1>4, DoneKeeps
<1>6. ReadsAreOld'
    <2>1. call'[c].pc \in {"ok", "append"} /\ \A d \in Call : d # c => call'[d] = call[d]
        BY <1>1 DEF CallsOK, Done, Go
    <2>. QED BY <2>1, <1>2, <1>3 DEF ReadsAreOld
<1>. QED BY <1>3, <1>5, <1>6

\* Every other step of a request leaves the rows alone.
LEMMA StepKeeps ==
    ASSUME CallsOK, Numbered(rows), ReadsAreOld, NEW c \in Call, Step(c)
    PROVE  CallsOK' /\ Numbered(rows') /\ ReadsAreOld'
<1>1. call[c].todo \in Seq(LogRow)
    BY DEF CallsOK
<1>2. CASE UpdateWrite(c)
    <2>1. call[c].todo # <<>> /\ Go(c, "append", call[c].todo) /\ rows' = rows
        BY <1>2 DEF UpdateWrite, CallsOK, InProgress
    <2>. QED BY <1>1, <2>1, GoKeeps
<1>3. CASE HaltWrite(c)
    <2>1. call[c].todo # <<>> /\ Go(c, "items", call[c].todo) /\ rows' = rows
        BY <1>3 DEF HaltWrite, CallsOK, InProgress
    <2>. QED BY <1>1, <2>1, GoKeeps
<1>4. CASE HaltItems(c)
    <2>1. call[c].todo # <<>> /\ Go(c, "append", call[c].todo) /\ rows' = rows
        BY <1>4 DEF HaltItems, CallsOK, InProgress
    <2>. QED BY <1>1, <2>1, GoKeeps
<1>5. CASE CompleteWrite(c)
    <2>1. call[c].todo # <<>> /\ Go(c, "close", call[c].todo) /\ rows' = rows
        BY <1>5 DEF CompleteWrite, CallsOK, InProgress
    <2>. QED BY <1>1, <2>1, GoKeeps
<1>6. CASE CompleteClose(c)
    <2>1. call[c].todo # <<>> /\ Go(c, "append", call[c].todo) /\ rows' = rows
        BY <1>6 DEF CompleteClose, CallsOK, InProgress
    <2>. QED BY <1>1, <2>1, GoKeeps
<1>7. CASE ReadSeq(c)
    BY <1>7, ReadSeqKeeps
<1>8. CASE Insert(c)
    BY <1>8, InsertKeeps
<1>9. CASE RowIsRefused(c)
    <2>1. call' = [call EXCEPT ![c].pc = "raised"] /\ rows' = rows
        BY <1>9 DEF RowIsRefused
    <2>2. Go(c, "raised", call[c].todo)
        BY <2>1 DEF Go, CallsOK
    <2>. QED BY <1>1, <2>1, <2>2, GoKeeps
<1>10. CASE FindNote(c)
    <2>1. PICK todo \in {<<>>, <<"merge_note">>} : Done(c, todo) /\ rows' = rows
        BY <1>10 DEF FindNote
    <2>2. <<>> \in Seq(LogRow) /\ <<"merge_note">> \in Seq(LogRow)
        BY DEF LogRow, RowKind
    <2>3. todo \in Seq(LogRow)
        BY <2>2
    <2>. QED BY <2>1, <2>3, DoneKeeps
<1>. QED BY <1>2, <1>3, <1>4, <1>5, <1>6, <1>7, <1>8, <1>9, <1>10 DEF Step

\* A restart ends requests and takes no row with it.
LEMMA RestartKeeps ==
    ASSUME CallsOK, ReadsAreOld, Restart
    PROVE  CallsOK' /\ ReadsAreOld' /\ rows' = rows
<1>1. /\ rows' = rows
      /\ \A c \in Call : call'[c] = IF InProgress(c)
                                    THEN [call[c] EXCEPT !.pc = "dead"]
                                    ELSE call[c]
    BY DEF Restart
<1>2. \A c \in Call : /\ call'[c].todo = call[c].todo /\ call'[c].seq = call[c].seq
                      /\ call'[c].pc = IF InProgress(c) THEN "dead" ELSE call[c].pc
    BY <1>1 DEF CallsOK
<1>3. call' \in [Call -> [op : Op \cup {Nil},
                          pc : {"new", "write", "items", "close", "append",
                                "insert", "ok", "raised", "dead"},
                          todo : Seq(LogRow), seq : Nat]]
    BY DEF CallsOK, Restart
<1>4. \A c \in Call : InProgress(c)' => call'[c].todo # <<>>
    BY <1>2 DEF CallsOK, InProgress
<1>5. ReadsAreOld'
    BY <1>1, <1>2 DEF ReadsAreOld
<1>. QED BY <1>1, <1>3, <1>4, <1>5 DEF CallsOK

-----------------------------------------------------------------------------
(* Theorems                                                                *)

\* However the requests that append rows meet, fail and die, the rows are
\* numbered from 1 without a gap (_append_event, UNIQUE (rollout_id, seq)).
THEOREM LogNumbered == Spec => []NumberInv
<1>1. Init => NumberInv
    <2>. SUFFICES ASSUME Init PROVE NumberInv
        OBVIOUS
    <2>1. CallsOK
        BY DEF Init, CallsOK, InProgress
    <2>2. Numbered(rows)
        <3>1. rows = {} /\ IsFiniteSet({}) /\ Cardinality({}) = 0
            BY FS_EmptySet DEF Init
        <3>. QED BY <3>1 DEF Numbered
    <2>. QED BY <2>1, <2>2 DEF Init, StreamInit, NumberInv, BoundsOK, ReadsAreOld
<1>2. NumberInv /\ [Next]_vars => NumberInv'
    <2>. SUFFICES ASSUME NumberInv, [Next]_vars PROVE NumberInv'
        OBVIOUS
    <2>. USE DEF NumberInv
    <2>1. BoundsOK'
        <3>1. bounds' = bounds
            BY DEF Next, vars, streamVars, lifeVars, Emit, BusStep, Publish, Stamp, Store,
                   PublishFails, FanOutOwner, FanOutMembers, Connect, Serve, Replay,
                   YieldMissed, Subscribe, Deliver, Stopped, Disconnect, Drain, Ask, Step,
                   UpdateWrite, HaltWrite, HaltItems, CompleteWrite, CompleteClose,
                   ReadSeq, Insert, RowIsRefused, FindNote, Restart, Restarted
        <3>. QED BY <3>1 DEF BoundsOK
    <2>2. ASSUME UNCHANGED logVars PROVE NumberInv'
        BY <2>1, <2>2 DEF logVars, CallsOK, InProgress, ReadsAreOld
    <2>3. ASSUME NEW c \in Call, Ask(c) PROVE NumberInv'
        BY <2>1, <2>3, AskKeeps
    <2>4. ASSUME NEW c \in Call, Step(c) PROVE NumberInv'
        BY <2>1, <2>4, StepKeeps
    <2>5. CASE Restart
        BY <2>1, <2>5, RestartKeeps
    <2>. QED BY <2>2, <2>3, <2>4, <2>5 DEF Next, vars
<1>. QED BY <1>1, <1>2, PTL DEF Spec

\* Rows with the numbers from a to b, each once.
Span(set, a, b) ==
    /\ IsFiniteSet(set)
    /\ \A r, q \in set : r.seq = q.seq => r = q
    /\ {r.seq : r \in set} = a .. b

\* There are as many as there are numbers.
LEMMA SpanCount ==
    ASSUME NEW set, NEW a \in Int, NEW b \in Int, Span(set, a, b)
    PROVE  Cardinality(set) = IF a > b THEN 0 ELSE b - a + 1
<1> DEFINE f == [r \in set |-> r.seq]
<1>1. f \in Bijection(set, a .. b)
    <2>1. f \in [set -> a .. b]
        BY DEF Span
    <2>2. \A p, q \in set : f[p] = f[q] => p = q
        BY DEF Span
    <2>3. \A n \in a .. b : \E q \in set : f[q] = n
        BY DEF Span
    <2>. QED BY <2>1, <2>2, <2>3, Fun_IsBij
<1>2. Cardinality(a .. b) = Cardinality(set)
    BY <1>1, FS_Bijection DEF ExistsBijection, Span
<1>. QED BY <1>2, FS_Interval

\* The rows whose numbers lie between two bounds.
LEMMA SpanPart ==
    ASSUME NEW set, NEW a \in Int, NEW b \in Int, Span(set, a, b),
           NEW c \in Int, NEW d \in Int, a <= c, d <= b
    PROVE  Span({r \in set : r.seq \in c .. d}, c, d)
<1> DEFINE part == {r \in set : r.seq \in c .. d}
<1>1. IsFiniteSet(part)
    BY FS_Subset DEF Span
<1>2. \A n \in c .. d : \E r \in part : r.seq = n
    BY DEF Span
<1>3. {r.seq : r \in part} = c .. d
    BY <1>2
<1>. QED BY <1>1, <1>3 DEF Span

\* The newest m of them.
LEMMA NewestSpan ==
    ASSUME NEW set, NEW a \in Int, NEW b \in Int, Span(set, a, b), NEW m \in Nat
    PROVE  Newest(set, m) = {r \in set : r.seq \in (b - m + 1) .. b}
<1>1. ASSUME NEW r \in set
      PROVE  /\ r.seq \in a .. b
             /\ Cardinality({q \in set : q.seq > r.seq}) = b - r.seq
    <2>1. r.seq \in a .. b /\ \A q \in set : q.seq \in a .. b
        BY DEF Span
    <2>2. r.seq \in Int /\ r.seq + 1 \in Int /\ a <= r.seq + 1 /\ r.seq <= b
        BY <2>1
    <2>3. {q \in set : q.seq > r.seq} = {q \in set : q.seq \in (r.seq + 1) .. b}
        BY <2>1
    <2>4. Span({q \in set : q.seq > r.seq}, r.seq + 1, b)
        BY <2>2, <2>3, SpanPart
    <2>5. Cardinality({q \in set : q.seq > r.seq}) =
              IF r.seq + 1 > b THEN 0 ELSE b - (r.seq + 1) + 1
        BY <2>2, <2>4, SpanCount
    <2>. QED BY <2>1, <2>2, <2>5
<1>2. ASSUME NEW r \in set
      PROVE  b - r.seq < m <=> r.seq \in (b - m + 1) .. b
    <2>1. r.seq \in Int /\ r.seq <= b
        BY DEF Span
    <2>2. \A x \in Int : x <= b => (b - x < m <=> x \in (b - m + 1) .. b)
        OBVIOUS
    <2>. QED BY <2>1, <2>2
<1>. QED BY <1>1, <1>2 DEF Newest

\* A page of the feed holds the last n things that happened, without a gap and
\* each once (get_rollout_events), whatever the requests do.
THEOREM LogContiguous == Spec => []LogIsContiguous
<1>1. ASSUME Numbered(rows), NEW n \in 1 .. Cardinality(rows)
      PROVE  /\ Cardinality(Feed(n)) = n
             /\ {r.seq : r \in Feed(n)} =
                    (Cardinality(rows) - n + 1) .. Cardinality(rows)
    <2> DEFINE N == Cardinality(rows)
    <2>1. N \in Nat /\ n \in 1 .. N /\ Span(rows, 1, N)
        BY <1>1, NextIsCount DEF Numbered, Span
    <2>. HIDE DEF N
    <2>2. Feed(n) = {r \in rows : r.seq \in (N - n + 1) .. N}
        BY <2>1, NewestSpan DEF Feed
    <2>3. Span(Feed(n), N - n + 1, N)
        BY <2>1, <2>2, SpanPart
    <2>4. Cardinality(Feed(n)) = n
        BY <2>1, <2>3, SpanCount
    <2>. QED BY <2>3, <2>4 DEF Span, N
<1>2. NumberInv => LogIsContiguous
    BY <1>1 DEF NumberInv, LogIsContiguous
<1>. QED BY <1>2, LogNumbered, PTL

-----------------------------------------------------------------------------
(* Paging                                                                  *)

\* The page before number s, as get_rollout_activity reads it from a set of rows.
Leaf(set, s, n) ==
    LET found == Newest({r \in set : r.seq < s}, n + 1)
    IN [rows |-> Newest(found, n), more |-> Cardinality(found) > n]

\* A page holds the n numbers before the cursor, and knows whether more precede.
LEMMA LeafIs ==
    ASSUME NEW set, NEW N \in Nat, Span(set, 1, N),
           NEW s \in 1 .. N, NEW n \in Nat \ {0}
    PROVE  Leaf(set, s, n) = [rows |-> {r \in set : r.seq \in (s - n) .. (s - 1)},
                              more |-> s > n + 1]
<1> DEFINE before == {r \in set : r.seq < s}
           found  == Newest(before, n + 1)
           from   == IF s - n - 1 >= 1 THEN s - n - 1 ELSE 1
<1>1. \A r \in set : r.seq \in 1 .. N
    BY DEF Span
<1>2. Span(before, 1, s - 1)
    <2>1. before = {r \in set : r.seq \in 1 .. (s - 1)}
        BY <1>1
    <2>2. s - 1 \in Int /\ s - 1 <= N
        OBVIOUS
    <2>. QED BY <2>1, <2>2, SpanPart
<1>3. found = {r \in before : r.seq \in (s - 1 - (n + 1) + 1) .. (s - 1)}
    <2>1. s - 1 \in Int /\ n + 1 \in Nat
        OBVIOUS
    <2>. HIDE DEF before
    <2>. QED BY <1>2, <2>1, NewestSpan
<1>4. from \in Int /\ 1 <= from
    OBVIOUS
<1>5. found = {r \in before : r.seq \in from .. (s - 1)}
    BY <1>1, <1>3
<1>6. Span(found, from, s - 1)
    <2>. HIDE DEF from, found, before
    <2>. QED BY <1>2, <1>4, <1>5, SpanPart
<1>7. Newest(found, n) = {r \in found : r.seq \in (s - 1 - n + 1) .. (s - 1)}
    <2>. HIDE DEF from, found, before
    <2>. QED BY <1>4, <1>6, NewestSpan
<1>8. Newest(found, n) = {r \in set : r.seq \in (s - n) .. (s - 1)}
    BY <1>1, <1>5, <1>7
<1>9. Cardinality(found) = IF from > s - 1 THEN 0 ELSE s - 1 - from + 1
    <2>. HIDE DEF from, found, before
    <2>. QED BY <1>4, <1>6, SpanCount
<1>10. Cardinality(found) > n <=> s > n + 1
    <2> DEFINE C == Cardinality(found)
    <2>1. C = IF from > s - 1 THEN 0 ELSE s - 1 - from + 1
        BY <1>9
    <2>. HIDE DEF C
    <2>2. s \in Nat /\ s >= 1 /\ n \in Nat /\ n >= 1
        OBVIOUS
    <2>3. CASE s > n + 1
        <3>1. C = s - 1 - (s - n - 1) + 1
            BY <2>1, <2>2, <2>3
        <3>2. C > n
            BY <2>2, <3>1
        <3>. QED BY <2>3, <3>2 DEF C
    <2>4. CASE ~(s > n + 1)
        <3>1. C = IF 1 > s - 1 THEN 0 ELSE s - 1
            BY <2>1, <2>2, <2>4
        <3>2. ~(C > n)
            BY <2>2, <2>4, <3>1
        <3>. QED BY <2>4, <3>2 DEF C
    <2>. QED BY <2>3, <2>4
<1>11. Leaf(set, s, n) = [rows |-> Newest(found, n), more |-> Cardinality(found) > n]
    BY DEF Leaf
<1>12. (Cardinality(found) > n) = (s > n + 1)
    <2> DEFINE C == Cardinality(found) > n
               D == s > n + 1
    <2>1. C \in BOOLEAN /\ D \in BOOLEAN /\ (C <=> D)
        BY <1>10
    <2>. HIDE DEF C, D
    <2>2. C = D
        BY <2>1
    <2>. QED BY <2>2 DEF C, D
<1>. HIDE DEF found
<1>. QED BY <1>8, <1>11, <1>12, Zenon

\* Rows are appended with the next number, and none is changed or deleted.
LEMMA RowsGrow ==
    ASSUME NumberInv, [Next]_vars
    PROVE  rows' = rows \/ \E new : rows' = rows \cup {new}
                                    /\ new.seq = Cardinality(rows) + 1
<1>1. ASSUME NEW c \in Call, Insert(c)
      PROVE  \E new : rows' = rows \cup {new} /\ new.seq = Cardinality(rows) + 1
    BY <1>1, InsertedIsNext DEF NumberInv
<1>2. CASE ~\E c \in Call : Insert(c)
    BY <1>2 DEF Next, vars, logVars, Ask, Step, UpdateWrite, HaltWrite, HaltItems,
           CompleteWrite, CompleteClose, ReadSeq, RowIsRefused, FindNote, Restart
<1>. QED BY <1>1, <1>2

\* Of numbered rows, the first one of a page is the one with the least number.
LEMMA OldestIs ==
    ASSUME NEW set, NEW a \in Int, NEW b \in Int, a <= b, Span(set, a, b)
    PROVE  Oldest(set).seq = a
<1>1. PICK r \in set : r.seq = a
    BY DEF Span
<1>2. \A q \in set : q.seq \in Int /\ r.seq <= q.seq
    BY <1>1 DEF Span
<1>3. \A x \in set : (\A q \in set : x.seq <= q.seq) => x.seq = a
    BY <1>1, <1>2
<1>. QED BY <1>2, <1>3 DEF Oldest

\* Whoever pages through the activity (get_rollout_activity) sees every row
\* once, whatever is appended meanwhile: a page stays, the next begins where it
\* ends, and a page that says there is no more is followed by none.
THEOREM PagesCorrect == Spec => PagesStand
<1> DEFINE Stands(r, n) ==
             LET page == Page(r.seq, n)
                 next == Page(Oldest(page.rows).seq, n)
             IN /\ Page(r.seq, n)' = page
                /\ page.more => /\ next.rows # {}
                                /\ page.rows \cup next.rows = Page(r.seq, 2 * n).rows
                /\ page.more \/ page.rows = Before(r.seq)
<1>1. ASSUME NumberInv, NumberInv', [Next]_vars, NEW r \in rows, NEW n \in 1 .. 2
      PROVE  Stands(r, n)
    <2> DEFINE N == Cardinality(rows)
               s == r.seq
    <2>1. N \in Nat /\ Span(rows, 1, N) /\ s \in 1 .. N /\ n \in Nat \ {0}
        BY <1>1, NextIsCount DEF NumberInv, Numbered, Span
    <2>. HIDE DEF N
    <2>2. \A q \in rows : q.seq \in 1 .. N
        BY <2>1 DEF Span
    <2>3. \A k \in 1 .. N, m \in Nat \ {0} :
            Page(k, m) = [rows |-> {q \in rows : q.seq \in (k - m) .. (k - 1)},
                          more |-> k > m + 1]
        BY <2>1, LeafIs DEF Leaf, Page, Before
    <2>4. Page(s, n).more <=> s > n + 1
        <3> DEFINE D == s > n + 1
        <3>1. Page(s, n).more = D
            BY <2>1, <2>3
        <3>. QED BY <3>1, Zenon
    <2>5. Page(s, n)' = Page(s, n)
        <3>1. PICK M \in Nat : Span(rows', 1, M) /\ s \in 1 .. M
                    /\ {q \in rows' : q.seq \in (s - n) .. (s - 1)}
                          = {q \in rows : q.seq \in (s - n) .. (s - 1)}
            <4>1. CASE rows' = rows
                BY <2>1, <4>1
            <4>2. CASE \E new : rows' = rows \cup {new} /\ new.seq = Cardinality(rows) + 1
                <5>1. PICK new : rows' = rows \cup {new} /\ new.seq = N + 1
                    BY <4>2 DEF N
                <5>2. Span(rows', 1, N + 1)
                    <6>1. Numbered(rows') /\ Cardinality(rows') = N + 1
                        BY <1>1, <5>1, AddNumbered DEF NumberInv, N
                    <6>. QED BY <6>1 DEF Numbered, Span
                <5>3. new.seq \notin (s - n) .. (s - 1)
                    BY <2>1, <5>1
                <5>. QED BY <2>1, <5>1, <5>2, <5>3
            <4>. QED BY <4>1, <4>2, <1>1, RowsGrow
        <3>2. Leaf(rows', s, n) = [rows |-> {q \in rows' : q.seq \in (s - n) .. (s - 1)},
                                   more |-> s > n + 1]
            BY <2>1, <3>1, LeafIs
        <3>3. Page(s, n)' = Leaf(rows', s, n)
            BY DEF Page, Before, Leaf, Newest
        <3>. QED BY <2>1, <2>3, <3>1, <3>2, <3>3
    <2>6. ASSUME Page(s, n).more
          PROVE  LET page == Page(s, n)
                     next == Page(Oldest(page.rows).seq, n)
                 IN  /\ next.rows # {}
                     /\ page.rows \cup next.rows = Page(s, 2 * n).rows
        <3>1. s > n + 1
            BY <2>6, <2>4
        <3>2. Page(s, n).rows = {q \in rows : q.seq \in (s - n) .. (s - 1)}
            BY <2>1, <2>3
        <3>3. Oldest(Page(s, n).rows).seq = s - n
            <4>1. 1 <= s - n /\ s - 1 <= N /\ s - n <= s - 1 /\ s - n \in Int /\ s - 1 \in Int
                BY <2>1, <3>1
            <4>2. Span(Page(s, n).rows, s - n, s - 1)
                BY <2>1, <3>2, <4>1, SpanPart
            <4>. QED BY <4>1, <4>2, OldestIs
        <3>4. s - n \in 1 .. N
            BY <2>1, <3>1
        <3>5. Page(s - n, n).rows = {q \in rows : q.seq \in (s - n - n) .. (s - n - 1)}
            BY <2>3, <3>4
        <3>6. Page(s - n, n).rows # {}
            <4>1. s - n - 1 \in 1 .. N /\ s - n - 1 \in (s - n - n) .. (s - n - 1)
                BY <2>1, <3>1
            <4>2. \E q \in rows : q.seq = s - n - 1
                BY <2>1, <4>1 DEF Span
            <4>. QED BY <3>5, <4>1, <4>2
        <3>7. Page(s, 2 * n).rows = {q \in rows : q.seq \in (s - 2 * n) .. (s - 1)}
            BY <2>1, <2>3
        <3>8. \A k \in 1 .. N : k \in (s - 2 * n) .. (s - 1) <=>
                    k \in (s - n) .. (s - 1) \/ k \in (s - n - n) .. (s - n - 1)
            BY <2>1
        <3>. QED BY <2>2, <3>2, <3>3, <3>5, <3>6, <3>7, <3>8
    <2>7. Page(s, n).more \/ Page(s, n).rows = Before(s)
        <3>1. CASE s > n + 1
            BY <2>4, <3>1
        <3>2. CASE ~(s > n + 1)
            <4>1. \A k \in 1 .. N : k < s <=> k \in (s - n) .. (s - 1)
                BY <2>1, <3>2
            <4>. QED BY <2>1, <2>2, <2>3, <4>1 DEF Before
        <3>. QED BY <3>1, <3>2
    <2>. QED BY <2>5, <2>6, <2>7
<1>2. NumberInv /\ NumberInv' /\ [Next]_vars
        => [\A r \in rows, n \in 1 .. 2 : Stands(r, n)]_vars
    BY <1>1
<1>3. Spec => [][\A r \in rows, n \in 1 .. 2 : Stands(r, n)]_vars
    BY <1>2, LogNumbered, PTL DEF Spec
<1>. QED BY <1>3 DEF PagesStand
-----------------------------------------------------------------------------
(* What a browser is sent                                                  *)

\* The table and the publishes: a row is there before its fan-out begins.
PubOK ==
    /\ event \in Seq([kind : Kind, owner : User, shared : BOOLEAN, at : 0 .. MaxEvents])
    /\ Len(event) <= MaxEvents
    /\ pub \in [DOMAIN event -> PubPhase]
    /\ stored \subseteq DOMAIN event
    /\ \A e \in DOMAIN event :
           /\ pub[e] \in {"task", "insert"} => e \notin stored
           /\ pub[e] \in {"owner", "members", "done"} => e \in stored

\* A connection speaks of rows that are in the table, and has a queue and has
\* sent something only in the phases that give it one.
ConnOK(s) ==
    LET b == stream[s]
    IN /\ b.user \in User /\ b.phase \in Phase
       /\ {b.since, b.last} \subseteq stored \cup {Nil}
       /\ b.got \in Seq(stored) /\ b.missed \in Seq(stored)
       /\ b.queue \in Seq(stored \cup {Stop}) /\ offered[s] \in Seq(stored \cup {Stop})
       /\ Len(b.queue) <= QueueSize
       /\ b.phase # "live" => b.queue = <<>> /\ offered[s] = <<>>
       /\ b.phase \in {"off", "replay", "register"} => b.got = <<>> /\ b.missed = <<>>
       /\ b.phase = "register" => b.since = Nil

ConnsOK ==
    /\ stream \in [Stream -> [user : User, phase : Phase, since : Id \cup {Nil},
                              last : Id \cup {Nil}, missed : Seq(Id),
                              queue : Seq(Id \cup {Stop}), got : Seq(Id),
                              shown : SUBSET Id, connects : Nat]]
    /\ offered \in [Stream -> Seq(Id \cup {Stop})]
    /\ {gap, doubled} \subseteq [Stream -> SUBSET Id]
    /\ subs \subseteq {s \in Stream : stream[s].phase = "live"}
    /\ \A s \in Stream : ConnOK(s)

\* The rest of the types.
StreamRest ==
    /\ bounds \in Mixes /\ clock \in 0 .. MaxEvents /\ drained \in BOOLEAN
    /\ faults \in [failures : Nat, starts : Nat] /\ deaf \subseteq Stream

\* The events that a connection must have by now: later than its "since", and
\* past the streams of its user.
Due(s) == {e \in stored : /\ stream[s].since # Nil
                          /\ Visible(stream[s].user, e) /\ Passed(stream[s].user, e)
                          /\ event[e].at > event[stream[s].since].at}

\* Nothing due is lost, from the replay on.
Skips(s) ==
    LET b == stream[s]
    IN /\ b.phase = "yield" => Due(s) \subseteq ToSet(b.got) \cup ToSet(b.missed) \cup gap[s]
       /\ s \in subs => Due(s) \subseteq ToSet(b.got) \cup ToSet(offered[s]) \cup gap[s]

\* A queue is the end of what was put into it.
Ends(q, o) ==
    /\ Len(q) <= Len(o)
    /\ \A i \in 1 .. Len(q) : q[i] = o[Len(o) - Len(q) + i]

\* What is yielded from the replay comes once; of a registered stream what
\* comes twice, was sent and is queued, or was sent and is to be fanned out,
\* is in doubled, and what is queued is fanned out.
Replays(s) ==
    LET b == stream[s]
    IN b.phase = "yield" =>
           /\ IsInjective(b.got) /\ IsInjective(b.missed)
           /\ ToSet(b.got) \cap ToSet(b.missed) = {}

Doubles(s) ==
    LET b == stream[s]
    IN s \in subs =>
           /\ \A i, j \in DOMAIN b.got : i # j /\ b.got[i] = b.got[j] => b.got[i] \in doubled[s]
           /\ ToSet(b.got) \cap ToSet(b.queue) \subseteq doubled[s]
           /\ {e \in ToSet(b.got) : Coming(b.user, e)} \subseteq doubled[s]
           /\ IsInjective(b.queue)
           /\ \A k \in DOMAIN b.queue : b.queue[k] # Stop /\ ~Coming(b.user, b.queue[k])

ConnInv ==
    /\ ConnsOK
    /\ \A s \in Stream : Skips(s) /\ Replays(s) /\ Doubles(s)
    /\ \A s \in subs : Ends(stream[s].queue, offered[s])

\* The inductive invariant of the stream.
DeliveryParts == StreamRest /\ PubOK /\ ConnInv

\* What a step of a publish before its fan-out, or of a request, does to the
\* table: rows come in with their fan-out before them, and stay.
TableKeeps ==
    /\ stored \subseteq stored'
    /\ \A e \in stored : event'[e] = event[e]
    /\ \A e \in stored' :
           \/ e \in stored /\ (pub'[e] = pub[e] \/ (pub[e] = "members" /\ pub'[e] = "failed"))
           \/ e \notin stored /\ pub'[e] = "owner"

\* Creating the task of an event.
LEMMA CreatedKeeps ==
    ASSUME StreamRest, PubOK, MoreEvents, stored' = stored,
           NEW kind \in Kind, NEW owner \in User, NEW shared \in BOOLEAN,
           NEW at \in 0 .. MaxEvents, NEW pc \in {"task", "insert"},
           Created(kind, owner, shared, at, pc)
    PROVE  PubOK' /\ TableKeeps
<1> DEFINE new == [kind |-> kind, owner |-> owner, shared |-> shared, at |-> at]
           N == Len(event)
<1>1. new \in [kind : Kind, owner : User, shared : BOOLEAN, at : 0 .. MaxEvents]
    OBVIOUS
<1>2. event' = Append(event, new) /\ pub' = Append(pub, pc)
    BY DEF Created
<1>. HIDE DEF new
<1>3. N < MaxEvents /\ N \in Nat
    <2>1. N < bounds.events /\ N \in Nat
        BY DEF MoreEvents, PubOK
    <2>2. bounds.events \in 0 .. MaxEvents
        BY StreamAssumption DEF StreamRest, Mix
    <2>. QED BY <2>1, <2>2, StreamAssumption
<1>4. pub \in Seq(PubPhase) /\ Len(pub) = N
    <2>1. pub \in [1 .. N -> PubPhase]
        BY DEF PubOK
    <2>. QED BY <2>1, <1>3
<1>5. /\ DOMAIN event' = 1 .. (N + 1) /\ Len(event') = N + 1
      /\ event' \in Seq([kind : Kind, owner : User, shared : BOOLEAN, at : 0 .. MaxEvents])
      /\ \A e \in 1 .. N : event'[e] = event[e]
    BY <1>1, <1>2, <1>3 DEF PubOK
<1>6. /\ DOMAIN pub' = 1 .. (N + 1) /\ pub' \in Seq(PubPhase)
      /\ \A e \in 1 .. N : pub'[e] = pub[e]
      /\ pub'[N + 1] = pc
    BY <1>2, <1>3, <1>4 DEF PubPhase
<1>7. stored \subseteq 1 .. N
    BY DEF PubOK
<1>8. PubOK'
    <2>1. pub' \in [DOMAIN event' -> PubPhase]
        BY <1>5, <1>6
    <2>2. \A e \in 1 .. (N + 1) : e \in 1 .. N \/ e = N + 1
        BY <1>3
    <2>3. \A e \in 1 .. N : /\ pub[e] \in {"task", "insert"} => e \notin stored
                            /\ pub[e] \in {"owner", "members", "done"} => e \in stored
        BY DEF PubOK
    <2>4. N + 1 \notin stored
        BY <1>3, <1>7
    <2>5. \A e \in DOMAIN event' :
              /\ pub'[e] \in {"task", "insert"} => e \notin stored
              /\ pub'[e] \in {"owner", "members", "done"} => e \in stored
        BY <1>5, <1>6, <2>2, <2>3, <2>4
    <2>6. Len(event') <= MaxEvents
        BY <1>3, <1>5, StreamAssumption
    <2>7. stored \subseteq DOMAIN event'
        BY <1>3, <1>5, <1>7
    <2>. QED BY <1>5, <2>1, <2>5, <2>6, <2>7 DEF PubOK
<1>9. TableKeeps
    BY <1>5, <1>6, <1>7 DEF TableKeeps
<1>. QED BY <1>8, <1>9

\* A publish up to its fan-out.
LEMMA PubMoves ==
    ASSUME PubOK, NEW e \in DOMAIN event, NEW p \in PubPhase,
           pub' = [pub EXCEPT ![e] = p]
    PROVE  /\ DOMAIN pub = DOMAIN event
           /\ pub' \in [DOMAIN event -> PubPhase] /\ pub'[e] = p
           /\ \A f \in DOMAIN event : f # e => pub'[f] = pub[f]
    BY DEF PubOK

LEMMA StampKeeps ==
    ASSUME StreamRest, PubOK, NEW e \in DOMAIN pub, Stamp(e)
    PROVE  PubOK' /\ TableKeeps
<1>1. /\ pub[e] = "task" /\ pub' = [pub EXCEPT ![e] = "insert"] /\ stored' = stored
      /\ event' = [event EXCEPT ![e].at = clock'] /\ clock' \in 0 .. MaxEvents
    BY DEF Stamp, Now
<1>2. e \in DOMAIN event /\ "insert" \in PubPhase /\ e \notin stored
    BY <1>1 DEF PubOK, PubPhase
<1>3. /\ DOMAIN event' = DOMAIN event /\ Len(event') = Len(event)
      /\ event' \in Seq([kind : Kind, owner : User, shared : BOOLEAN, at : 0 .. MaxEvents])
      /\ \A f \in DOMAIN event : f # e => event'[f] = event[f]
    <2> DEFINE R == [kind : Kind, owner : User, shared : BOOLEAN, at : 0 .. MaxEvents]
    <2>1. event[e] \in R
        <3>1. event \in Seq(R)
            BY DEF PubOK
        <3>. HIDE DEF R
        <3>. QED BY <1>2, <3>1
    <2>2. [event[e] EXCEPT !.at = clock'] \in R
        BY <1>1, <2>1
    <2>. HIDE DEF R
    <2>3. event' = [event EXCEPT ![e] = [event[e] EXCEPT !.at = clock']]
        BY <1>1
    <2>4. event \in Seq(R)
        BY DEF PubOK, R
    <2>5. event' \in Seq(R) /\ DOMAIN event' = DOMAIN event /\ Len(event') = Len(event)
        BY <1>2, <2>2, <2>3, <2>4
    <2>6. \A f \in DOMAIN event : f # e => event'[f] = event[f]
        BY <2>3
    <2>. QED BY <2>5, <2>6 DEF R
<1>4. /\ pub' \in [DOMAIN event -> PubPhase] /\ pub'[e] = "insert"
      /\ \A f \in DOMAIN event : f # e => pub'[f] = pub[f]
    BY <1>1, <1>2, PubMoves
<1>5. \A f \in DOMAIN event' : /\ pub'[f] \in {"task", "insert"} => f \notin stored'
                               /\ pub'[f] \in {"owner", "members", "done"} => f \in stored'
    BY <1>1, <1>2, <1>3, <1>4 DEF PubOK
<1>6. PubOK'
    BY <1>1, <1>3, <1>4, <1>5 DEF PubOK
<1>. QED BY <1>1, <1>2, <1>3, <1>4, <1>6 DEF TableKeeps, PubOK

LEMMA StoreKeeps ==
    ASSUME StreamRest, PubOK, NEW e \in DOMAIN pub, Store(e)
    PROVE  PubOK' /\ TableKeeps
<1>1. /\ pub[e] = "insert" /\ pub' = [pub EXCEPT ![e] = "owner"]
      /\ stored' = stored \cup {e} /\ event' = event
    BY DEF Store
<1>2. e \in DOMAIN event /\ "owner" \in PubPhase /\ e \notin stored
    BY <1>1 DEF PubOK, PubPhase
<1>3. /\ pub' \in [DOMAIN event -> PubPhase] /\ pub'[e] = "owner"
      /\ \A f \in DOMAIN event : f # e => pub'[f] = pub[f]
    BY <1>1, <1>2, PubMoves
<1>4. PubOK'
    BY <1>1, <1>2, <1>3 DEF PubOK
<1>. QED BY <1>1, <1>2, <1>3, <1>4 DEF TableKeeps, PubOK

LEMMA FailKeeps ==
    ASSUME StreamRest, PubOK, NEW e \in DOMAIN pub, PublishFails(e)
    PROVE  PubOK' /\ TableKeeps
<1>1. /\ pub[e] \in {"insert", "members"} /\ pub' = [pub EXCEPT ![e] = "failed"]
      /\ stored' = stored /\ event' = event
    BY DEF PublishFails
<1>2. e \in DOMAIN event /\ "failed" \in PubPhase
    BY <1>1 DEF PubOK, PubPhase
<1>3. /\ pub' \in [DOMAIN event -> PubPhase] /\ pub'[e] = "failed"
      /\ \A f \in DOMAIN event : f # e => pub'[f] = pub[f]
    BY <1>1, <1>2, PubMoves
<1>4. PubOK'
    BY <1>1, <1>2, <1>3 DEF PubOK
<1>. QED BY <1>1, <1>2, <1>3, <1>4 DEF TableKeeps, PubOK

\* The fan-outs leave the table alone.
LEMMA FanKeeps ==
    ASSUME StreamRest, PubOK, NEW e \in DOMAIN pub, FanOutOwner(e) \/ FanOutMembers(e)
    PROVE  /\ PubOK' /\ e \in stored /\ stored' = stored /\ event' = event
           /\ \A f \in DOMAIN event : f # e => pub'[f] = pub[f]
           /\ pub'[e] \in {"members", "done"}
<1>1. PICK p \in {"members", "done"} :
        /\ pub[e] \in {"owner", "members"} /\ pub' = [pub EXCEPT ![e] = p]
        /\ stored' = stored /\ event' = event
    <2>1. CASE FanOutOwner(e)
        BY <2>1 DEF FanOutOwner
    <2>2. CASE FanOutMembers(e)
        BY <2>2 DEF FanOutMembers
    <2>. QED BY <2>1, <2>2
<1>2. e \in DOMAIN event /\ p \in PubPhase
    BY <1>1 DEF PubOK, PubPhase
<1>3. /\ pub' \in [DOMAIN event -> PubPhase] /\ pub'[e] = p
      /\ \A f \in DOMAIN event : f # e => pub'[f] = pub[f]
    BY <1>1, <1>2, PubMoves
<1>4. PubOK'
    BY <1>1, <1>2, <1>3 DEF PubOK
<1>. QED BY <1>1, <1>2, <1>3, <1>4 DEF PubOK

LEMMA RestartedKeeps ==
    ASSUME PubOK, Restarted
    PROVE  PubOK' /\ stored' = stored /\ event' = event
<1>1. /\ pub' = [e \in DOMAIN pub |-> IF pub[e] \in {"done", "failed"} THEN pub[e] ELSE "lost"]
      /\ stored' = stored /\ event' = event
    BY DEF Restarted
<1>2. PubOK'
    BY <1>1 DEF PubOK, PubPhase
<1>. QED BY <1>1, <1>2

LEMMA MoreRows ==
    ASSUME NEW S, NEW T, S \subseteq T, NEW q \in Seq(S)
    PROVE  q \in Seq(T)
    OBVIOUS

\* What is known of an event that is stored stays so, but for its fan-out.
LEMMA StoredStays ==
    ASSUME PubOK, TableKeeps, NEW u \in User, NEW e \in stored'
    PROVE  /\ Passed(u, e)' => e \in stored /\ Passed(u, e)
           /\ e \in stored => /\ Coming(u, e)' => Coming(u, e)
                              /\ Visible(u, e)' <=> Visible(u, e)
                              /\ event'[e] = event[e]
<1>1. CASE e \notin stored
    BY <1>1 DEF TableKeeps, Passed
<1>2. CASE e \in stored
    BY <1>2 DEF TableKeeps, Passed, Coming, Visible, PubOK
<1>. QED BY <1>1, <1>2

LEMMA TableSteps ==
    ASSUME PubOK, ConnInv, TableKeeps, UNCHANGED connVars
    PROVE  ConnInv'
<1>1. /\ stream' = stream /\ subs' = subs /\ offered' = offered /\ gap' = gap
      /\ doubled' = doubled
    BY DEF connVars
<1>2. stored \subseteq stored'
    BY DEF TableKeeps
<1>3. ConnsOK'
    <2>1. ASSUME NEW s \in Stream PROVE ConnOK(s)'
        <3>1. ConnOK(s)
            BY DEF ConnInv, ConnsOK
        <3>2. /\ stream[s].got \in Seq(stored') /\ stream[s].missed \in Seq(stored')
              /\ stream[s].queue \in Seq(stored' \cup {Stop})
              /\ offered[s] \in Seq(stored' \cup {Stop})
            <4>1. stored \cup {Stop} \subseteq stored' \cup {Stop}
                BY <1>2
            <4>. QED BY <1>2, <3>1, <4>1, MoreRows DEF ConnOK
        <3>. QED BY <1>1, <1>2, <3>1, <3>2 DEF ConnOK
    <2>. QED BY <1>1, <2>1 DEF ConnInv, ConnsOK
<1>4. ASSUME NEW s \in Stream PROVE Skips(s)' /\ Replays(s)' /\ Doubles(s)'
    <2>1. ConnOK(s) /\ Skips(s) /\ Replays(s) /\ Doubles(s)
        BY DEF ConnInv, ConnsOK
    <2>0. PICK u \in User : u = stream[s].user
        BY <2>1 DEF ConnOK
    <2>2. Due(s)' \subseteq Due(s)
        <3>1. ASSUME NEW e \in stored', stream[s].since # Nil,
                     Visible(u, e)', Passed(u, e)',
                     event'[e].at > event'[stream[s].since].at
              PROVE  e \in Due(s)
            <4>1. e \in stored /\ Passed(u, e)
                BY <3>1, StoredStays
            <4>2. Visible(u, e) /\ event'[e] = event[e]
                BY <3>1, <4>1, StoredStays
            <4>3. stream[s].since \in stored /\ event'[stream[s].since] = event[stream[s].since]
                BY <2>1, <3>1 DEF ConnOK, TableKeeps
            <4>. QED BY <2>0, <3>1, <4>1, <4>2, <4>3 DEF Due
        <3>. QED BY <1>1, <2>0, <3>1 DEF Due, Visible, Passed
    <2>3. Skips(s)'
        BY <1>1, <2>1, <2>2 DEF Skips
    <2>4. Replays(s)'
        BY <1>1, <2>1 DEF Replays
    <2>5. Doubles(s)'
        <3>1. ASSUME NEW e \in stored, Coming(u, e)' PROVE Coming(u, e)
            BY <1>2, <3>1, StoredStays
        <3>2. /\ \A e \in ToSet(stream[s].got) : e \in stored
              /\ \A k \in DOMAIN stream[s].queue : stream[s].queue[k] \in stored \cup {Stop}
            BY <2>1 DEF ConnOK, ToSet
        <3>. QED BY <1>1, <2>1, <2>0, <3>1, <3>2 DEF Doubles, Coming
    <2>. QED BY <2>3, <2>4, <2>5
<1>5. \A s \in subs' : Ends(stream[s].queue, offered[s])'
    BY <1>1 DEF ConnInv, Ends
<1>. QED BY <1>3, <1>4, <1>5 DEF ConnInv

\* A full queue loses its oldest event to the new one.
LEMMA RoomKeeps ==
    ASSUME NEW S, NEW q \in Seq(S), NEW o \in Seq(S), NEW e \in S, Len(q) <= QueueSize
    PROVE  LET r == Append(Room(q), e)
               p == Append(o, e)
           IN /\ r \in Seq(S) /\ Len(r) <= QueueSize
              /\ \A k \in DOMAIN r : r[k] = e \/ \E i \in DOMAIN q : r[k] = q[i]
              /\ IsInjective(q) /\ e \notin ToSet(q) => IsInjective(r)
              /\ Ends(q, o) => Ends(r, p)
              /\ p \in Seq(S) /\ e \in ToSet(p) /\ ToSet(o) \subseteq ToSet(p)
<1> DEFINE t == Room(q)
           r == Append(t, e)
           p == Append(o, e)
           d == IF Len(q) < QueueSize THEN 0 ELSE 1
<1>1. QueueSize \in Nat \ {0}
    BY StreamAssumption
<1>2. /\ t \in Seq(S) /\ d \in {0, 1} /\ Len(t) = Len(q) - d /\ Len(t) + 1 <= QueueSize
      /\ \A i \in 1 .. Len(t) : i + d \in 1 .. Len(q) /\ t[i] = q[i + d]
    BY <1>1 DEF Room
<1>. HIDE DEF t, d
<1>3. /\ r \in Seq(S) /\ Len(r) = Len(t) + 1 /\ DOMAIN r = 1 .. (Len(t) + 1)
      /\ \A i \in 1 .. Len(t) : r[i] = t[i]
      /\ r[Len(t) + 1] = e
    BY <1>2
<1>4. /\ p \in Seq(S) /\ Len(p) = Len(o) + 1 /\ DOMAIN p = 1 .. (Len(o) + 1)
      /\ \A i \in 1 .. Len(o) : p[i] = o[i]
      /\ p[Len(o) + 1] = e
    OBVIOUS
<1>. HIDE DEF r, p
<1>5. DOMAIN q = 1 .. Len(q) /\ DOMAIN o = 1 .. Len(o) /\ Len(q) \in Nat /\ Len(o) \in Nat
      /\ Len(t) \in Nat
    BY <1>2
<1>6. \A k \in DOMAIN r : \/ k = Len(t) + 1 /\ r[k] = e
                          \/ k \in 1 .. Len(t) /\ k + d \in DOMAIN q /\ r[k] = q[k + d]
    <2>1. \A k \in 1 .. (Len(t) + 1) : k = Len(t) + 1 \/ k \in 1 .. Len(t)
        BY <1>5
    <2>2. \A k \in 1 .. Len(t) : k + d \in 1 .. Len(q) /\ r[k] = q[k + d]
        BY <1>2, <1>3
    <2>. QED BY <1>3, <1>5, <2>1, <2>2
<1>7. ASSUME IsInjective(q), e \notin ToSet(q) PROVE IsInjective(r)
    <2>1. ASSUME NEW i \in DOMAIN r, NEW j \in DOMAIN r, r[i] = r[j] PROVE i = j
        <3>1. CASE i = Len(t) + 1 \/ j = Len(t) + 1
            BY <1>6, <1>7, <2>1, <3>1 DEF ToSet
        <3>2. CASE i # Len(t) + 1 /\ j # Len(t) + 1
            <4>1. i + d = j + d
                BY <1>6, <1>7, <2>1, <3>2 DEF IsInjective
            <4>. QED BY <1>2, <1>3, <1>5, <4>1
        <3>. QED BY <3>1, <3>2
    <2>. QED BY <2>1 DEF IsInjective
<1>8. ASSUME Ends(q, o) PROVE Ends(r, p)
    <2>1. Len(r) <= Len(p)
        BY <1>2, <1>3, <1>4, <1>5, <1>8 DEF Ends
    <2>2. ASSUME NEW i \in 1 .. Len(r) PROVE r[i] = p[Len(p) - Len(r) + i]
        <3>1. CASE i = Len(t) + 1
            BY <1>2, <1>3, <1>4, <1>5, <3>1
        <3>2. CASE i \in 1 .. Len(t)
            <4>1. i + d \in 1 .. Len(q) /\ r[i] = q[i + d]
                BY <1>2, <1>3, <3>2
            <4>2. r[i] = o[Len(o) - Len(q) + (i + d)]
                BY <1>8, <4>1 DEF Ends
            <4>3. /\ Len(o) - Len(q) + (i + d) = Len(p) - Len(r) + i
                  /\ Len(p) - Len(r) + i \in 1 .. Len(o)
                BY <1>2, <1>3, <1>4, <1>5, <1>8, <3>2 DEF Ends
            <4>. QED BY <1>4, <4>2, <4>3
        <3>. QED BY <1>3, <1>5, <2>2, <3>1, <3>2
    <2>. QED BY <2>1, <2>2 DEF Ends
<1>9. e \in ToSet(p) /\ ToSet(o) \subseteq ToSet(p)
    BY <1>4, <1>5 DEF ToSet
<1>. QED BY <1>2, <1>3, <1>4, <1>6, <1>7, <1>8, <1>9 DEF r, t, p

\* Whose streams a fan-out passes: those to whom the event was still coming.
LEMMA FanReaches ==
    ASSUME StreamRest, PubOK, NEW e \in DOMAIN pub, FanOutOwner(e) \/ FanOutMembers(e)
    PROVE  \E users :
               /\ FanOut(e, users) /\ subs' = subs /\ doubled' = doubled
               /\ \A u \in User :
                      /\ u \in users => Coming(u, e) /\ ~Coming(u, e)'
                      /\ u \notin users => /\ Coming(u, e)' => Coming(u, e)
                                           /\ Visible(u, e) /\ Passed(u, e)' => Passed(u, e)
<1>1. /\ PubOK' /\ e \in stored /\ stored' = stored /\ event' = event /\ e \in DOMAIN event
      /\ event[e].owner \in User /\ event[e].shared \in BOOLEAN
    <2>1. PubOK' /\ e \in stored /\ stored' = stored /\ event' = event /\ e \in DOMAIN event
        BY FanKeeps DEF PubOK
    <2>2. event[e] \in [kind : Kind, owner : User, shared : BOOLEAN, at : 0 .. MaxEvents]
        <3> DEFINE R == [kind : Kind, owner : User, shared : BOOLEAN, at : 0 .. MaxEvents]
        <3>1. event \in Seq(R)
            BY DEF PubOK
        <3>. HIDE DEF R
        <3>2. event[e] \in R
            BY <2>1, <3>1
        <3>. QED BY <3>2 DEF R
    <2>. QED BY <2>1, <2>2
<1>2. CASE FanOutOwner(e)
    <2>1. /\ FanOut(e, {event[e].owner}) /\ subs' = subs /\ doubled' = doubled
          /\ pub[e] = "owner"
          /\ pub'[e] = IF event[e].shared THEN "members" ELSE "done"
        BY <1>1, <1>2 DEF FanOutOwner, PubOK
    <2>2. \A u \in User :
              /\ u \in {event[e].owner} => Coming(u, e) /\ ~Coming(u, e)'
              /\ u \notin {event[e].owner} => /\ Coming(u, e)' => Coming(u, e)
                                              /\ Visible(u, e) /\ Passed(u, e)' => Passed(u, e)
        BY <1>1, <2>1 DEF Coming, Visible, Passed
    <2>. QED BY <2>1, <2>2
<1>3. CASE FanOutMembers(e)
    <2>1. /\ FanOut(e, User \ {event[e].owner}) /\ subs' = subs /\ doubled' = doubled
          /\ pub[e] = "members" /\ pub'[e] = "done"
        BY <1>1, <1>3 DEF FanOutMembers, PubOK
    <2>2. \A u \in User :
              /\ u \in User \ {event[e].owner} => Coming(u, e) /\ ~Coming(u, e)'
              /\ u \notin User \ {event[e].owner} =>
                     /\ Coming(u, e)' => Coming(u, e)
                     /\ Visible(u, e) /\ Passed(u, e)' => Passed(u, e)
        BY <1>1, <2>1 DEF Coming, Visible, Passed
    <2>. QED BY <2>1, <2>2
<1>. QED BY <1>2, <1>3

LEMMA FanSteps ==
    ASSUME StreamRest, PubOK, ConnInv,
           NEW e \in DOMAIN pub, FanOutOwner(e) \/ FanOutMembers(e)
    PROVE  ConnInv'
<1>1. /\ PubOK' /\ e \in stored /\ stored' = stored /\ event' = event
      /\ \A f \in DOMAIN event : f # e => pub'[f] = pub[f]
      /\ stored \subseteq DOMAIN event /\ DOMAIN event \subseteq Id
    <2>1. DOMAIN event \subseteq Id
        BY StreamAssumption DEF PubOK, Id
    <2>. QED BY <2>1, FanKeeps DEF PubOK
<1>2. PICK users :
        /\ FanOut(e, users) /\ subs' = subs /\ doubled' = doubled
        /\ \A u \in User :
               /\ u \in users => Coming(u, e) /\ ~Coming(u, e)'
               /\ u \notin users => /\ Coming(u, e)' => Coming(u, e)
                                    /\ Visible(u, e) /\ Passed(u, e)' => Passed(u, e)
    BY FanReaches
<1> DEFINE to == {s \in subs : stream[s].user \in users}
           passed == {s \in Stream : /\ stream[s].user \in users
                                     /\ stream[s].phase \in {"yield", "register"}}
<1>3. /\ stream' = [s \in Stream |->
              IF s \in to THEN [stream[s] EXCEPT !.queue = Append(Room(@), e)]
              ELSE stream[s]]
      /\ offered' = [s \in Stream |->
              IF s \in to THEN Append(offered[s], e) ELSE offered[s]]
      /\ gap' = [s \in Stream |-> IF s \in passed THEN gap[s] \cup {e} ELSE gap[s]]
    BY <1>2 DEF FanOut
<1>4. /\ stream \in [Stream -> [user : User, phase : Phase, since : Id \cup {Nil},
                                last : Id \cup {Nil}, missed : Seq(Id),
                                queue : Seq(Id \cup {Stop}), got : Seq(Id),
                                shown : SUBSET Id, connects : Nat]]
      /\ offered \in [Stream -> Seq(Id \cup {Stop})] /\ gap \in [Stream -> SUBSET Id]
      /\ doubled \in [Stream -> SUBSET Id]
      /\ subs \subseteq {s \in Stream : stream[s].phase = "live"}
      /\ \A s \in Stream : ConnOK(s)
    BY DEF ConnInv, ConnsOK
<1>5. \A s \in Stream :
          /\ stream'[s].user = stream[s].user /\ stream'[s].phase = stream[s].phase
          /\ stream'[s].since = stream[s].since /\ stream'[s].last = stream[s].last
          /\ stream'[s].missed = stream[s].missed /\ stream'[s].got = stream[s].got
          /\ stream'[s].queue = IF s \in to THEN Append(Room(stream[s].queue), e)
                                ELSE stream[s].queue
          /\ offered'[s] = IF s \in to THEN Append(offered[s], e) ELSE offered[s]
          /\ gap'[s] = IF s \in passed THEN gap[s] \cup {e} ELSE gap[s]
    BY <1>3, <1>4
<1>6. \A u \in User, f \in stored :
          f # e => /\ Coming(u, f)' <=> Coming(u, f)
                   /\ Passed(u, f)' <=> Passed(u, f)
    BY <1>1 DEF Coming, Passed
<1>7. \A u, f : Visible(u, f)' <=> Visible(u, f)
    BY <1>1 DEF Visible
<1>. HIDE DEF to, passed
<1>8. ASSUME NEW s \in Stream
      PROVE  /\ stream'[s].queue \in Seq(stored \cup {Stop})
             /\ offered'[s] \in Seq(stored \cup {Stop})
             /\ Len(stream'[s].queue) <= QueueSize
    <2>0. /\ e \in stored \cup {Stop} /\ offered[s] \in Seq(stored \cup {Stop})
          /\ stream[s].queue \in Seq(stored \cup {Stop}) /\ Len(stream[s].queue) <= QueueSize
        BY <1>1, <1>4 DEF ConnOK
    <2>1. CASE s \in to
        <3>1. /\ Append(Room(stream[s].queue), e) \in Seq(stored \cup {Stop})
              /\ Len(Append(Room(stream[s].queue), e)) <= QueueSize
              /\ Append(offered[s], e) \in Seq(stored \cup {Stop})
            BY <2>0, RoomKeeps
        <3>. QED BY <1>5, <2>1, <3>1
    <2>2. CASE s \notin to
        BY <1>5, <2>0, <2>2
    <2>. QED BY <2>1, <2>2
<1>9. ConnsOK'
    <2>1. stream' \in [Stream -> [user : User, phase : Phase, since : Id \cup {Nil},
                                  last : Id \cup {Nil}, missed : Seq(Id),
                                  queue : Seq(Id \cup {Stop}), got : Seq(Id),
                                  shown : SUBSET Id, connects : Nat]]
        <3>1. stored \cup {Stop} \subseteq Id \cup {Stop}
            BY <1>1
        <3>2. ASSUME NEW s \in Stream
              PROVE stream'[s].queue \in Seq(Id \cup {Stop})
            BY <1>8, <3>1, MoreRows
        <3>3. ASSUME NEW s \in Stream
              PROVE stream'[s] \in [user : User, phase : Phase, since : Id \cup {Nil},
                                    last : Id \cup {Nil}, missed : Seq(Id),
                                    queue : Seq(Id \cup {Stop}), got : Seq(Id),
                                    shown : SUBSET Id, connects : Nat]
            <4>1. CASE s \in to
                <5>1. stream'[s] = [stream[s] EXCEPT !.queue = Append(Room(stream[s].queue), e)]
                    BY <1>3, <4>1
                <5>2. Append(Room(stream[s].queue), e) \in Seq(Id \cup {Stop})
                    BY <1>5, <3>2, <4>1
                <5>. QED BY <1>4, <5>1, <5>2
            <4>2. CASE s \notin to
                BY <1>3, <1>4, <4>2
            <4>. QED BY <4>1, <4>2
        <3>. QED BY <1>3, <3>3
    <2>2. offered' \in [Stream -> Seq(Id \cup {Stop})]
        <3>1. stored \cup {Stop} \subseteq Id \cup {Stop}
            BY <1>1
        <3>. QED BY <1>3, <1>8, <3>1, MoreRows
    <2>3. gap' \in [Stream -> SUBSET Id]
        BY <1>1, <1>3, <1>4
    <2>4. ASSUME NEW s \in Stream PROVE ConnOK(s)'
        <3>1. stream[s].phase # "live" => s \notin to
            BY <1>4 DEF to
        <3>2. ConnOK(s)
            BY <1>4
        <3>3. stream[s].phase # "live" => stream'[s].queue = <<>> /\ offered'[s] = <<>>
            BY <1>5, <3>1, <3>2 DEF ConnOK
        <3>4. /\ stream'[s].user \in User /\ stream'[s].phase \in Phase
              /\ {stream'[s].since, stream'[s].last} \subseteq stored' \cup {Nil}
              /\ stream'[s].got \in Seq(stored') /\ stream'[s].missed \in Seq(stored')
            <4>1. /\ stream[s].user \in User /\ stream[s].phase \in Phase
                  /\ {stream[s].since, stream[s].last} \subseteq stored \cup {Nil}
                  /\ stream[s].got \in Seq(stored) /\ stream[s].missed \in Seq(stored)
                BY <3>2 DEF ConnOK
            <4>2. /\ stream'[s].user = stream[s].user /\ stream'[s].phase = stream[s].phase
                  /\ stream'[s].since = stream[s].since /\ stream'[s].last = stream[s].last
                  /\ stream'[s].missed = stream[s].missed /\ stream'[s].got = stream[s].got
                BY <1>5
            <4>. QED BY <1>1, <4>1, <4>2
        <3>5. /\ stream'[s].phase # "live" => stream'[s].queue = <<>> /\ offered'[s] = <<>>
              /\ stream'[s].phase \in {"off", "replay", "register"}
                    => stream'[s].got = <<>> /\ stream'[s].missed = <<>>
              /\ stream'[s].phase = "register" => stream'[s].since = Nil
            BY <1>5, <3>2, <3>3 DEF ConnOK
        <3>. QED BY <1>1, <1>8, <3>4, <3>5 DEF ConnOK
    <2>5. subs' \subseteq {s \in Stream : stream'[s].phase = "live"}
        BY <1>2, <1>4, <1>5
    <2>. QED BY <1>2, <1>4, <2>1, <2>2, <2>3, <2>4, <2>5 DEF ConnsOK
<1>10. ASSUME NEW s \in Stream PROVE Skips(s)' /\ Replays(s)' /\ Doubles(s)'
    <2>1. ConnOK(s) /\ Skips(s) /\ Replays(s) /\ Doubles(s)
        BY DEF ConnInv, ConnsOK
    <2>2. PICK u \in User : u = stream[s].user
        BY <2>1 DEF ConnOK
    <2>3. /\ Due(s)' \subseteq Due(s) \cup {e}
          /\ u \notin users => Due(s)' \subseteq Due(s)
        <3>1. ASSUME NEW f \in stored, Visible(u, f), Passed(u, f)', f \notin Due(s),
                     stream[s].since # Nil, event[f].at > event[stream[s].since].at
              PROVE  f = e /\ u \in users
            BY <1>2, <1>6, <2>2, <3>1 DEF Due
        <3>2. ASSUME NEW f \in Due(s)'
              PROVE  /\ f \in stored /\ Visible(u, f) /\ Passed(u, f)'
                     /\ stream[s].since # Nil /\ event[f].at > event[stream[s].since].at
            BY <1>1, <1>5, <1>7, <2>2, <3>2 DEF Due, Passed, Visible
        <3>. QED BY <3>1, <3>2
    <2>4. Skips(s)'
        <3>1. ASSUME stream[s].phase = "yield"
              PROVE  Due(s)' \subseteq ToSet(stream[s].got) \cup ToSet(stream[s].missed)
                                       \cup gap'[s]
            <4>1. Due(s) \subseteq ToSet(stream[s].got) \cup ToSet(stream[s].missed) \cup gap[s]
                BY <2>1, <3>1 DEF Skips
            <4>2. u \in users => gap'[s] = gap[s] \cup {e}
                BY <1>5, <2>2, <3>1 DEF passed
            <4>3. gap[s] \subseteq gap'[s]
                BY <1>5
            <4>. QED BY <2>3, <4>1, <4>2, <4>3
        <3>2. ASSUME s \in subs
              PROVE  Due(s)' \subseteq ToSet(stream[s].got) \cup ToSet(offered'[s]) \cup gap'[s]
            <4>1. Due(s) \subseteq ToSet(stream[s].got) \cup ToSet(offered[s]) \cup gap[s]
                BY <2>1, <3>2 DEF Skips
            <4>2. u \in users => /\ e \in ToSet(offered'[s])
                                 /\ ToSet(offered[s]) \subseteq ToSet(offered'[s])
                <5>1. u \in users => s \in to
                    BY <2>2, <3>2 DEF to
                <5>2. s \in to => e \in ToSet(Append(offered[s], e))
                                  /\ ToSet(offered[s]) \subseteq ToSet(Append(offered[s], e))
                    <6>1. e \in stored \cup {Stop} /\ offered[s] \in Seq(stored \cup {Stop})
                          /\ stream[s].queue \in Seq(stored \cup {Stop})
                          /\ Len(stream[s].queue) <= QueueSize
                        BY <1>1, <2>1 DEF ConnOK
                    <6>. QED BY <6>1, RoomKeeps
                <5>. QED BY <1>5, <5>1, <5>2
            <4>3. u \notin users => offered'[s] = offered[s]
                BY <1>5, <2>2 DEF to
            <4>4. gap[s] \subseteq gap'[s]
                BY <1>5
            <4>. QED BY <2>3, <4>1, <4>2, <4>3, <4>4
        <3>. QED BY <1>2, <1>5, <3>1, <3>2 DEF Skips
    <2>5. Replays(s)'
        BY <1>5, <2>1 DEF Replays
    <2>6. Doubles(s)'
        <3>. SUFFICES ASSUME s \in subs PROVE Doubles(s)'
            BY <1>2 DEF Doubles
        <3>1. /\ \A i, j \in DOMAIN stream[s].got : i # j /\ stream[s].got[i] = stream[s].got[j]
                                                        => stream[s].got[i] \in doubled[s]
              /\ ToSet(stream[s].got) \cap ToSet(stream[s].queue) \subseteq doubled[s]
              /\ \A f \in ToSet(stream[s].got) : Coming(u, f) => f \in doubled[s]
              /\ IsInjective(stream[s].queue)
              /\ \A k \in DOMAIN stream[s].queue : /\ stream[s].queue[k] # Stop
                                                   /\ ~Coming(u, stream[s].queue[k])
            BY <2>1, <2>2 DEF Doubles
        <3>2. /\ \A f \in ToSet(stream[s].got) : f \in stored
              /\ \A k \in DOMAIN stream[s].queue : stream[s].queue[k] \in stored
            BY <2>1, <3>1 DEF ConnOK, ToSet
        <3>3. \A f \in stored : Coming(u, f)' => Coming(u, f)
            BY <1>2, <1>6
        <3>4. \A f \in ToSet(stream[s].got) : Coming(u, f)' => f \in doubled[s]
            BY <3>1, <3>2, <3>3
        <3>5. CASE s \notin to
            <4>1. stream'[s].queue = stream[s].queue /\ stream'[s].got = stream[s].got
                  /\ stream'[s].user = u
                BY <1>5, <2>2, <3>5
            <4>2. \A k \in DOMAIN stream[s].queue : ~Coming(u, stream[s].queue[k])'
                BY <3>1, <3>2, <3>3, <4>1 DEF Coming
            <4>. QED BY <1>2, <3>1, <3>4, <4>1, <4>2 DEF Doubles, Coming
        <3>6. CASE s \in to
            <4> DEFINE r == Append(Room(stream[s].queue), e)
            <4>1. stream'[s].queue = r /\ stream'[s].got = stream[s].got
                  /\ stream'[s].user = u
                BY <1>5, <2>2, <3>6
            <4>2. Coming(u, e) /\ ~Coming(u, e)'
                BY <1>2, <2>2, <3>6 DEF to
            <4>3. e \notin ToSet(stream[s].queue)
                BY <3>1, <4>2 DEF ToSet
            <4>4. /\ IsInjective(r)
                  /\ \A k \in DOMAIN r :
                          r[k] = e \/ \E i \in DOMAIN stream[s].queue : r[k] = stream[s].queue[i]
                <5>1. e \in stored \cup {Stop} /\ offered[s] \in Seq(stored \cup {Stop})
                      /\ stream[s].queue \in Seq(stored \cup {Stop})
                      /\ Len(stream[s].queue) <= QueueSize
                    BY <1>1, <2>1 DEF ConnOK
                <5>. QED BY <3>1, <4>3, <5>1, RoomKeeps
            <4>. HIDE DEF r
            <4>5. e # Stop
                BY <1>1 DEF Id, Stop
            <4>6. PICK q : q = r
                OBVIOUS
            <4>7. \A k \in DOMAIN q : q[k] # Stop /\ ~Coming(u, q[k])'
                <5>1. ASSUME NEW k \in DOMAIN q PROVE q[k] # Stop /\ ~Coming(u, q[k])'
                    <6>1. PICK f : f = q[k]
                        OBVIOUS
                    <6>2. CASE f = e
                        BY <4>2, <4>5, <6>1, <6>2
                    <6>3. CASE \E i \in DOMAIN stream[s].queue : f = stream[s].queue[i]
                        <7>1. f # Stop /\ f \in stored /\ ~Coming(u, f)
                            BY <3>1, <3>2, <6>3
                        <7>. QED BY <3>3, <6>1, <7>1
                    <6>. QED BY <4>4, <4>6, <6>1, <6>2, <6>3
                <5>. QED BY <5>1
            <4>8. ToSet(stream[s].got) \cap ToSet(q) \subseteq doubled[s]
                <5>1. ToSet(q) \subseteq ToSet(stream[s].queue) \cup {e}
                    BY <4>4, <4>6 DEF ToSet
                <5>2. e \in ToSet(stream[s].got) => e \in doubled[s]
                    BY <3>1, <4>2
                <5>. QED BY <3>1, <5>1, <5>2
            <4>9. stream'[s].queue = q /\ IsInjective(q)
                BY <4>1, <4>4, <4>6
            <4>. QED BY <1>2, <3>1, <3>4, <4>1, <4>7, <4>8, <4>9 DEF Doubles, Coming
        <3>. QED BY <3>5, <3>6
    <2>. QED BY <2>4, <2>5, <2>6
<1>11. ASSUME NEW s \in subs' PROVE Ends(stream'[s].queue, offered'[s])
    <2>1. s \in subs /\ s \in Stream /\ Ends(stream[s].queue, offered[s]) /\ ConnOK(s)
        BY <1>2, <1>4, <1>11 DEF ConnInv
    <2>4. /\ e \in stored \cup {Stop} /\ offered[s] \in Seq(stored \cup {Stop})
          /\ stream[s].queue \in Seq(stored \cup {Stop}) /\ Len(stream[s].queue) <= QueueSize
        BY <1>1, <2>1 DEF ConnOK
    <2>2. CASE s \in to
        <3>1. Ends(Append(Room(stream[s].queue), e), Append(offered[s], e))
            BY <2>1, <2>4, RoomKeeps
        <3>. QED BY <1>5, <2>1, <2>2, <3>1
    <2>3. CASE s \notin to
        BY <1>5, <2>1, <2>3
    <2>. QED BY <2>2, <2>3
<1>. QED BY <1>9, <1>10, <1>11 DEF ConnInv, Ends

Browser == [user : User, phase : Phase, since : Id \cup {Nil}, last : Id \cup {Nil},
            missed : Seq(Id), queue : Seq(Id \cup {Stop}), got : Seq(Id),
            shown : SUBSET Id, connects : Nat]

\* Everything about one connection.
OneOK(s) ==
    /\ stream[s] \in Browser
    /\ offered[s] \in Seq(Id \cup {Stop}) /\ gap[s] \subseteq Id /\ doubled[s] \subseteq Id
    /\ ConnOK(s) /\ Skips(s) /\ Replays(s) /\ Doubles(s)
    /\ s \in subs => stream[s].phase = "live" /\ Ends(stream[s].queue, offered[s])

\* What a step of connection t does.
OnlyConn(t) ==
    /\ event' = event /\ pub' = pub /\ stored' = stored
    /\ stream' = [s \in Stream |-> stream'[s]]
    /\ offered' = [s \in Stream |-> offered'[s]]
    /\ gap' = [s \in Stream |-> gap'[s]]
    /\ doubled' = [s \in Stream |-> doubled'[s]]
    /\ subs' \subseteq Stream
    /\ \A s \in Stream \ {t} :
           /\ stream'[s] = stream[s] /\ offered'[s] = offered[s]
           /\ gap'[s] = gap[s] /\ doubled'[s] = doubled[s]
           /\ s \in subs' <=> s \in subs

\* The invariant, one connection at a time.
ConnParts ==
    /\ stream = [s \in Stream |-> stream[s]]
    /\ offered = [s \in Stream |-> offered[s]]
    /\ gap = [s \in Stream |-> gap[s]]
    /\ doubled = [s \in Stream |-> doubled[s]]
    /\ subs \subseteq Stream
    /\ \A s \in Stream : OneOK(s)

LEMMA ConnInvIs == ConnInv <=> ConnParts
<1>1. ASSUME ConnInv
      PROVE  ConnParts
    <2>1. stream \in [Stream -> Browser] /\ offered \in [Stream -> Seq(Id \cup {Stop})]
          /\ gap \in [Stream -> SUBSET Id] /\ doubled \in [Stream -> SUBSET Id]
          /\ subs \subseteq {s \in Stream : stream[s].phase = "live"}
          /\ \A s \in Stream : ConnOK(s)
        BY <1>1 DEF ConnInv, ConnsOK, Browser
    <2>2. \A s \in Stream : Skips(s) /\ Replays(s) /\ Doubles(s)
        BY <1>1 DEF ConnInv
    <2>3. \A s \in subs : Ends(stream[s].queue, offered[s])
        BY <1>1 DEF ConnInv
    <2>. QED BY <2>1, <2>2, <2>3 DEF OneOK, ConnParts
<1>2. ASSUME ConnParts PROVE ConnInv
    <2>1. \A s \in Stream :
              /\ stream[s] \in Browser /\ offered[s] \in Seq(Id \cup {Stop})
              /\ gap[s] \subseteq Id /\ doubled[s] \subseteq Id
              /\ ConnOK(s) /\ Skips(s) /\ Replays(s) /\ Doubles(s)
              /\ s \in subs => stream[s].phase = "live" /\ Ends(stream[s].queue, offered[s])
        BY <1>2 DEF ConnParts, OneOK
    <2>2. stream \in [Stream -> Browser] /\ offered \in [Stream -> Seq(Id \cup {Stop})]
          /\ gap \in [Stream -> SUBSET Id] /\ doubled \in [Stream -> SUBSET Id]
        BY <1>2, <2>1 DEF ConnParts
    <2>3. subs \subseteq {s \in Stream : stream[s].phase = "live"}
        BY <1>2, <2>1 DEF ConnParts
    <2>4. ConnsOK
        BY <2>1, <2>2, <2>3 DEF ConnsOK, Browser
    <2>. QED BY <1>2, <2>1, <2>4 DEF ConnInv, ConnParts
<1>. QED BY <1>1, <1>2

LEMMA OneConn ==
    ASSUME ConnInv, NEW t \in Stream, OnlyConn(t), OneOK(t)'
    PROVE  ConnInv'
<1>1. ASSUME NEW s \in Stream \ {t} PROVE OneOK(s)'
    <2>1. OneOK(s)
        BY ConnInvIs DEF ConnParts
    <2>2. /\ stream'[s] = stream[s] /\ offered'[s] = offered[s]
          /\ gap'[s] = gap[s] /\ doubled'[s] = doubled[s]
          /\ s \in subs' <=> s \in subs
          /\ event' = event /\ pub' = pub /\ stored' = stored
        BY DEF OnlyConn
    <2>3. ConnOK(s)'
        BY <2>1, <2>2 DEF OneOK, ConnOK
    <2>4. Skips(s)'
        <3>1. Due(s)' = Due(s)
            BY <2>2 DEF Due, Visible, Passed
        <3>. QED BY <2>1, <2>2, <3>1 DEF OneOK, Skips
    <2>5. Replays(s)' /\ Doubles(s)'
        <3>1. \A e : Coming(stream[s].user, e)' <=> Coming(stream[s].user, e)
            BY <2>2 DEF Coming
        <3>. QED BY <2>1, <2>2, <3>1 DEF OneOK, Replays, Doubles
    <2>. QED BY <2>1, <2>2, <2>3, <2>4, <2>5 DEF OneOK, Ends
<1>2. \A s \in Stream : OneOK(s)'
    BY <1>1
<1>3. /\ stream' = [s \in Stream |-> stream'[s]] /\ offered' = [s \in Stream |-> offered'[s]]
      /\ gap' = [s \in Stream |-> gap'[s]] /\ doubled' = [s \in Stream |-> doubled'[s]]
      /\ subs' \subseteq Stream
    BY DEF OnlyConn
<1>4. (ConnInv <=> ConnParts)'
    BY ConnInvIs, PTL
<1>. QED BY <1>2, <1>3, <1>4 DEF ConnParts

\* What holds of a connection before its step.
LEMMA OneBefore ==
    ASSUME ConnInv, NEW t \in Stream
    PROVE  /\ OneOK(t)
           /\ stream \in [Stream -> Browser] /\ offered \in [Stream -> Seq(Id \cup {Stop})]
           /\ gap \in [Stream -> SUBSET Id] /\ doubled \in [Stream -> SUBSET Id]
           /\ subs \subseteq {s \in Stream : stream[s].phase = "live"}
<1>1. OneOK(t)
    BY ConnInvIs DEF ConnParts
<1>. QED BY <1>1 DEF ConnInv, ConnsOK, Browser

\* A connection that has no queue has nothing more to keep than its replay.
LEMMA Unregistered ==
    ASSUME NEW t \in Stream, ConnOK(t), t \notin subs,
           stream[t] \in Browser, offered[t] \in Seq(Id \cup {Stop}),
           gap[t] \subseteq Id, doubled[t] \subseteq Id,
           stream[t].phase # "yield"
    PROVE  OneOK(t)
    BY DEF OneOK, Skips, Replays, Doubles

LEMMA ConnectKeeps ==
    ASSUME PubOK, ConnInv, NEW t \in Stream, Connect(t)
    PROVE  ConnInv'
<1>1. /\ OneOK(t)
      /\ stream \in [Stream -> Browser] /\ offered \in [Stream -> Seq(Id \cup {Stop})]
      /\ gap \in [Stream -> SUBSET Id] /\ doubled \in [Stream -> SUBSET Id]
      /\ subs \subseteq {s \in Stream : stream[s].phase = "live"}
    BY OneBefore
<1>2. PICK since \in {stream[t].since, stream[t].last} :
        stream' = [stream EXCEPT ![t].phase = IF since = Nil THEN "register" ELSE "replay",
                                 ![t].since = since, ![t].connects = @ + 1]
    BY DEF Connect
<1>3. /\ stream[t].phase = "off" /\ subs' = subs /\ offered' = offered /\ gap' = gap
      /\ doubled' = doubled /\ event' = event /\ pub' = pub /\ stored' = stored
    BY DEF Connect, tableVars, histVars
<1>4. PICK p \in {"register", "replay"}, n \in Nat :
        /\ stream'[t] = [stream[t] EXCEPT !.phase = p, !.since = since, !.connects = n]
        /\ p = "register" => since = Nil
    <2>1. stream[t] \in Browser
        BY <1>1
    <2>2. stream[t].connects + 1 \in Nat
        BY <2>1 DEF Browser
    <2>3. PICK n \in Nat : n = stream[t].connects + 1
        BY <2>2
    <2>6. PICK p \in {"register", "replay"} : p = IF since = Nil THEN "register" ELSE "replay"
        OBVIOUS
    <2>7. stream' = [stream EXCEPT ![t].phase = p, ![t].since = since, ![t].connects = n]
        BY <1>2, <2>3, <2>6
    <2>. QED BY <1>1, <2>6, <2>7
<1>5. stream[t] \in Browser /\ ConnOK(t)
    BY <1>1 DEF OneOK
<1>6. since \in Id \cup {Nil} /\ since \in stored \cup {Nil}
    BY <1>2, <1>5 DEF ConnOK, Browser
<1>7. stream'[t] \in Browser
    BY <1>4, <1>5, <1>6 DEF Browser, Phase
<1>8. /\ stream'[t].user = stream[t].user /\ stream'[t].phase = p
      /\ stream'[t].since = since /\ stream'[t].last = stream[t].last
      /\ stream'[t].missed = stream[t].missed /\ stream'[t].got = stream[t].got
      /\ stream'[t].queue = stream[t].queue
    BY <1>4, <1>5 DEF Browser
<1>9. ConnOK(t)'
    BY <1>3, <1>4, <1>5, <1>6, <1>8 DEF ConnOK, Phase
<1>10. OneOK(t)'
    <2>1. t \notin subs' /\ p # "yield"
        BY <1>1, <1>3
    <2>2. stream'[t].phase # "yield"
        BY <1>8, <2>1
    <2>. QED BY <1>1, <1>3, <1>7, <1>9, <2>1, <2>2 DEF OneOK, Skips, Replays, Doubles
<1>11. OnlyConn(t)
    BY <1>1, <1>2, <1>3 DEF OnlyConn
<1>. QED BY <1>10, <1>11, OneConn

\* The replay: what is due is in it.
LEMMA ReplayKeeps ==
    ASSUME PubOK, ConnInv, NEW t \in Stream, Replay(t)
    PROVE  ConnInv'
<1>1. /\ OneOK(t)
      /\ stream \in [Stream -> Browser] /\ offered \in [Stream -> Seq(Id \cup {Stop})]
      /\ gap \in [Stream -> SUBSET Id] /\ doubled \in [Stream -> SUBSET Id]
      /\ subs \subseteq {s \in Stream : stream[s].phase = "live"}
    BY OneBefore
<1>2. PICK missed \in SetToSeqs(Later(t)) :
        stream' = [stream EXCEPT ![t].phase = "yield", ![t].missed = missed]
    BY DEF Replay
<1>3. /\ stream[t].phase = "replay" /\ subs' = subs /\ offered' = offered /\ gap' = gap
      /\ doubled' = doubled /\ event' = event /\ pub' = pub /\ stored' = stored
    BY DEF Replay, tableVars, histVars
<1>4. stored \subseteq Id /\ IsFiniteSet(stored)
    <2>1. DOMAIN event = 1 .. Len(event) /\ Len(event) \in Nat /\ Len(event) <= MaxEvents
        BY DEF PubOK
    <2>2. IsFiniteSet(1 .. Len(event))
        BY <2>1, FS_Interval
    <2>. QED BY <2>1, <2>2, FS_Subset, StreamAssumption DEF PubOK, Id
<1>5. Later(t) \subseteq stored /\ IsFiniteSet(Later(t)) /\ Cardinality(Later(t)) \in Nat
    <2>1. Later(t) \subseteq stored
        BY DEF Later
    <2>. QED BY <1>4, <2>1, FS_Subset, FS_CardinalityType
<1>6. /\ missed \in Seq(Later(t)) /\ IsInjective(missed)
      /\ missed \in Seq(stored) /\ missed \in Seq(Id)
    <2>1. /\ missed \in [1 .. Cardinality(Later(t)) -> Later(t)]
          /\ \A i, j \in 1 .. Cardinality(Later(t)) : i # j => missed[i] # missed[j]
        BY DEF SetToSeqs
    <2>2. missed \in Seq(Later(t))
        BY <1>5, <2>1
    <2>3. IsInjective(missed)
        BY <2>1 DEF IsInjective
    <2>. QED BY <1>4, <1>5, <2>2, <2>3, MoreRows
<1>7. ToSet(missed) = Later(t)
    <2>1. missed \in Injection(1 .. Cardinality(Later(t)), Later(t))
        BY <1>6 DEF SetToSeqs, Injection
    <2>2. IsFiniteSet(1 .. Cardinality(Later(t)))
          /\ Cardinality(1 .. Cardinality(Later(t))) = Cardinality(Later(t))
        BY <1>5, FS_Interval
    <2>3. missed \in Surjection(1 .. Cardinality(Later(t)), Later(t))
        BY <1>5, <2>1, <2>2, FS_Injection
    <2>. QED BY <2>3 DEF Surjection, ToSet
<1>8. stream'[t] = [stream[t] EXCEPT !.phase = "yield", !.missed = missed]
    BY <1>1, <1>2
<1>9. stream[t] \in Browser /\ ConnOK(t) /\ stream[t].got = <<>>
    BY <1>1, <1>3 DEF OneOK, ConnOK
<1>10. stream'[t] \in Browser
    BY <1>6, <1>8, <1>9 DEF Browser, Phase
<1>11. /\ stream'[t].user = stream[t].user /\ stream'[t].phase = "yield"
       /\ stream'[t].since = stream[t].since /\ stream'[t].last = stream[t].last
       /\ stream'[t].missed = missed /\ stream'[t].got = stream[t].got
       /\ stream'[t].queue = stream[t].queue
    BY <1>8, <1>9 DEF Browser
<1>12. ConnOK(t)'
    BY <1>3, <1>6, <1>9, <1>11 DEF ConnOK, Phase
<1>13. t \notin subs'
    BY <1>1, <1>3
<1>14. Due(t)' \subseteq ToSet(missed)
    <2>1. Due(t)' = Due(t)
        BY <1>3, <1>11 DEF Due, Visible, Passed
    <2>. QED BY <1>7, <2>1 DEF Due, Later
<1>15. ToSet(stream[t].got) = {}
    BY <1>9 DEF ToSet
<1>16. OneOK(t)'
    BY <1>1, <1>3, <1>6, <1>9, <1>10, <1>11, <1>12, <1>13, <1>14, <1>15
       DEF OneOK, Skips, Replays, Doubles, IsInjective
<1>17. OnlyConn(t)
    BY <1>1, <1>2, <1>3 DEF OnlyConn
<1>. QED BY <1>16, <1>17, OneConn

\* What the browser has got once it receives e.
LEMMA ReceivedIs ==
    ASSUME NEW b \in Browser, NEW e \in Id
    PROVE  /\ Received(b, e) \in Browser
           /\ Received(b, e).got = Append(b.got, e)
           /\ Received(b, e).last \in {e, b.last}
           /\ Received(b, e).user = b.user /\ Received(b, e).phase = b.phase
           /\ Received(b, e).since = b.since /\ Received(b, e).missed = b.missed
           /\ Received(b, e).queue = b.queue
<1>1. PICK g \in Seq(Id), l \in {e, b.last}, w \in SUBSET Id :
        Received(b, e) = [b EXCEPT !.got = g, !.last = l, !.shown = w]
        /\ g = Append(b.got, e)
    <2>1. Append(b.got, e) \in Seq(Id) /\ b.shown \cup {e} \in SUBSET Id /\ b.shown \in SUBSET Id
        BY DEF Browser
    <2>2. CASE event[e].kind \in Heard
        BY <2>1, <2>2 DEF Received
    <2>3. CASE event[e].kind \notin Heard
        BY <2>1, <2>3 DEF Received
    <2>. QED BY <2>2, <2>3
<1>2. l \in Id \cup {Nil}
    BY DEF Browser
<1>. QED BY <1>1, <1>2 DEF Browser

\* The head of a sequence is one of its elements, and the tail has the others.
LEMMA HeadAndTail ==
    ASSUME NEW S, NEW q \in Seq(S), q # <<>>
    PROVE  /\ Head(q) \in S /\ Tail(q) \in Seq(S) /\ Len(Tail(q)) = Len(q) - 1
           /\ Head(q) \in ToSet(q) /\ ToSet(q) = ToSet(Tail(q)) \cup {Head(q)}
           /\ IsInjective(q) => IsInjective(Tail(q)) /\ Head(q) \notin ToSet(Tail(q))
           /\ \A o \in Seq(S) : Ends(q, o) => Ends(Tail(q), o)
           /\ \A k \in DOMAIN Tail(q) : k + 1 \in DOMAIN q /\ Tail(q)[k] = q[k + 1]
<1> DEFINE h == Head(q)
           r == Tail(q)
<1>1. /\ Len(q) \in Nat \ {0} /\ DOMAIN q = 1 .. Len(q) /\ h = q[1] /\ h \in S
      /\ r \in Seq(S) /\ Len(r) = Len(q) - 1 /\ DOMAIN r = 1 .. (Len(q) - 1)
      /\ \A k \in 1 .. (Len(q) - 1) : r[k] = q[k + 1]
    OBVIOUS
<1>. HIDE DEF h, r
<1>2. h \in ToSet(q)
    BY <1>1 DEF ToSet
<1>3. ToSet(q) = ToSet(r) \cup {h}
    <2>1. \A k \in 1 .. Len(q) : k = 1 \/ (k - 1 \in 1 .. (Len(q) - 1) /\ q[k] = r[k - 1])
        BY <1>1
    <2>2. \A k \in 1 .. (Len(q) - 1) : k + 1 \in 1 .. Len(q) /\ r[k] = q[k + 1]
        BY <1>1
    <2>3. ASSUME NEW k \in 1 .. Len(q) PROVE q[k] \in ToSet(r) \cup {h}
        BY <1>1, <2>1 DEF ToSet
    <2>4. ASSUME NEW k \in 1 .. (Len(q) - 1) PROVE r[k] \in ToSet(q)
        BY <1>1, <2>2 DEF ToSet
    <2>5. ToSet(q) \subseteq ToSet(r) \cup {h}
        BY <1>1, <2>3 DEF ToSet
    <2>6. ToSet(r) \subseteq ToSet(q)
        BY <1>1, <2>4 DEF ToSet
    <2>. QED BY <1>2, <2>5, <2>6
<1>4. ASSUME IsInjective(q) PROVE IsInjective(r) /\ h \notin ToSet(r)
    <2>1. \A i, j \in 1 .. Len(q) : q[i] = q[j] => i = j
        BY <1>1, <1>4 DEF IsInjective
    <2>2. \A k \in 1 .. (Len(q) - 1) : k + 1 \in 1 .. Len(q) /\ k + 1 # 1
        BY <1>1
    <2>3. IsInjective(r)
        <3>1. ASSUME NEW i \in 1 .. (Len(q) - 1), NEW j \in 1 .. (Len(q) - 1), r[i] = r[j]
              PROVE  i = j
            <4>1. i + 1 = j + 1
                BY <1>1, <2>1, <2>2, <3>1
            <4>. QED BY <4>1
        <3>. QED BY <1>1, <3>1 DEF IsInjective
    <2>4. h \notin ToSet(r)
        BY <1>1, <2>1, <2>2 DEF ToSet
    <2>. QED BY <2>3, <2>4
<1>5. ASSUME NEW o \in Seq(S), Ends(q, o) PROVE Ends(r, o)
    <2>1. Len(q) <= Len(o) /\ Len(o) \in Nat
          /\ \A i \in 1 .. Len(q) : q[i] = o[Len(o) - Len(q) + i]
        BY <1>5 DEF Ends
    <2>2. ASSUME NEW i \in 1 .. Len(r) PROVE r[i] = o[Len(o) - Len(r) + i]
        <3>1. r[i] = q[i + 1] /\ i + 1 \in 1 .. Len(q)
            BY <1>1
        <3>2. q[i + 1] = o[Len(o) - Len(q) + (i + 1)]
            BY <2>1, <3>1
        <3>3. Len(o) - Len(q) + (i + 1) = Len(o) - Len(r) + i
            BY <1>1, <2>1
        <3>. QED BY <3>1, <3>2, <3>3
    <2>. QED BY <1>1, <2>1, <2>2 DEF Ends
<1>. QED BY <1>1, <1>2, <1>3, <1>4, <1>5 DEF h, r

\* One more element.
LEMMA Appended ==
    ASSUME NEW S, NEW q \in Seq(S), NEW e \in S
    PROVE  LET p == Append(q, e)
           IN /\ p \in Seq(S) /\ ToSet(p) = ToSet(q) \cup {e}
              /\ IsInjective(q) /\ e \notin ToSet(q) => IsInjective(p)
              /\ \A i, j \in DOMAIN p : i # j /\ p[i] = p[j] =>
                     \/ p[i] = e /\ e \in ToSet(q)
                     \/ i \in DOMAIN q /\ j \in DOMAIN q /\ p[i] = q[i] /\ p[j] = q[j]
<1> DEFINE p == Append(q, e)
           N == Len(q)
<1>1. /\ N \in Nat /\ DOMAIN q = 1 .. N /\ DOMAIN p = 1 .. (N + 1) /\ p \in Seq(S)
      /\ \A i \in 1 .. N : p[i] = q[i]
      /\ p[N + 1] = e
    OBVIOUS
<1>. HIDE DEF p, N
<1>2. \A i \in 1 .. (N + 1) : i = N + 1 \/ i \in 1 .. N
    BY <1>1
<1>3. \A i \in 1 .. N : i \in 1 .. (N + 1) /\ q[i] \in ToSet(q)
    BY <1>1 DEF ToSet
<1>4. N + 1 \in 1 .. (N + 1)
    BY <1>1
<1>5. ToSet(p) = ToSet(q) \cup {e}
    BY <1>1, <1>2, <1>3, <1>4 DEF ToSet
<1>6. ASSUME NEW i \in 1 .. (N + 1), NEW j \in 1 .. (N + 1), i # j, p[i] = p[j]
      PROVE  \/ p[i] = e /\ e \in ToSet(q)
             \/ i \in 1 .. N /\ j \in 1 .. N /\ p[i] = q[i] /\ p[j] = q[j]
    BY <1>1, <1>2, <1>3, <1>6
<1>7. ASSUME IsInjective(q), e \notin ToSet(q) PROVE IsInjective(p)
    BY <1>1, <1>6, <1>7 DEF IsInjective
<1>. QED BY <1>1, <1>5, <1>6, <1>7 DEF p

LEMMA YieldKeeps ==
    ASSUME PubOK, ConnInv, NEW t \in Stream, YieldMissed(t)
    PROVE  ConnInv'
<1>1. /\ OneOK(t)
      /\ stream \in [Stream -> Browser] /\ offered \in [Stream -> Seq(Id \cup {Stop})]
      /\ gap \in [Stream -> SUBSET Id] /\ doubled \in [Stream -> SUBSET Id]
      /\ subs \subseteq {s \in Stream : stream[s].phase = "live"}
    BY OneBefore
<1>2. PICK b \in Browser : b = stream[t]
    BY <1>1
<1>3. /\ b.phase = "yield" /\ b.missed # <<>>
      /\ stream' = [stream EXCEPT
             ![t] = [Received(b, Head(b.missed)) EXCEPT !.missed = Tail(b.missed)]]
      /\ subs' = subs /\ offered' = offered /\ gap' = gap
      /\ doubled' = doubled /\ event' = event /\ pub' = pub /\ stored' = stored
    BY <1>2 DEF YieldMissed, tableVars, histVars
<1>4. /\ ConnOK(t) /\ Skips(t) /\ Replays(t)
      /\ b.got \in Seq(stored) /\ b.missed \in Seq(stored) /\ b.missed \in Seq(Id)
    BY <1>1, <1>2 DEF OneOK, ConnOK, Browser
<1>5. PICK e \in stored, m \in Seq(stored) :
        /\ e = Head(b.missed) /\ m = Tail(b.missed) /\ m \in Seq(Id) /\ e \in Id
        /\ ToSet(b.missed) = ToSet(m) \cup {e}
        /\ IsInjective(b.missed) => IsInjective(m) /\ e \notin ToSet(m)
    BY <1>3, <1>4, HeadAndTail
<1>6. PICK g \in Seq(stored) : /\ g = Append(b.got, e) /\ ToSet(g) = ToSet(b.got) \cup {e}
                               /\ IsInjective(b.got) /\ e \notin ToSet(b.got) => IsInjective(g)
    BY <1>4, Appended
<1>7. PICK r \in Browser :
        /\ r = Received(b, e) /\ r.got = g /\ r.last \in {e, b.last}
        /\ r.user = b.user /\ r.phase = b.phase /\ r.since = b.since /\ r.missed = b.missed
        /\ r.queue = b.queue
    BY <1>5, <1>6, ReceivedIs
<1>8. stream'[t] = [r EXCEPT !.missed = m]
    BY <1>1, <1>3, <1>5, <1>7
<1>9. stream'[t] \in Browser
    BY <1>5, <1>8 DEF Browser
<1>10. /\ stream'[t].user = b.user /\ stream'[t].phase = "yield"
       /\ stream'[t].since = b.since /\ stream'[t].last \in {e, b.last}
       /\ stream'[t].missed = m /\ stream'[t].got = g /\ stream'[t].queue = b.queue
    BY <1>3, <1>5, <1>7, <1>8 DEF Browser
<1>11. ConnOK(t)'
    <2>1. /\ b.user \in User /\ b.since \in stored \cup {Nil} /\ b.last \in stored \cup {Nil}
          /\ b.queue \in Seq(stored \cup {Stop}) /\ offered[t] \in Seq(stored \cup {Stop})
          /\ Len(b.queue) <= QueueSize /\ b.queue = <<>> /\ offered[t] = <<>>
        BY <1>2, <1>3, <1>4 DEF ConnOK
    <2>2. {stream'[t].since, stream'[t].last} \subseteq stored \cup {Nil}
        BY <1>10, <2>1
    <2>. QED BY <1>3, <1>10, <2>1, <2>2 DEF ConnOK, Phase
<1>12. t \notin subs'
    BY <1>1, <1>2, <1>3
<1>13. Skips(t)'
    <2>1. Due(t)' = Due(t)
        BY <1>2, <1>3, <1>10 DEF Due, Visible, Passed
    <2>2. Due(t) \subseteq ToSet(b.got) \cup ToSet(b.missed) \cup gap[t]
        BY <1>2, <1>3, <1>4 DEF Skips
    <2>. QED BY <1>3, <1>5, <1>6, <1>10, <1>12, <2>1, <2>2 DEF Skips
<1>14. Replays(t)'
    <2>1. IsInjective(b.got) /\ IsInjective(b.missed) /\ ToSet(b.got) \cap ToSet(b.missed) = {}
        BY <1>2, <1>3, <1>4 DEF Replays
    <2>. QED BY <1>5, <1>6, <1>10, <2>1 DEF Replays
<1>15. OneOK(t)'
    BY <1>1, <1>3, <1>9, <1>11, <1>12, <1>13, <1>14 DEF OneOK, Doubles
<1>16. OnlyConn(t)
    BY <1>1, <1>3 DEF OnlyConn
<1>. QED BY <1>15, <1>16, OneConn

LEMMA DeliverKeeps ==
    ASSUME PubOK, ConnInv, NEW t \in Stream, Deliver(t)
    PROVE  ConnInv'
<1>1. /\ OneOK(t)
      /\ stream \in [Stream -> Browser] /\ offered \in [Stream -> Seq(Id \cup {Stop})]
      /\ gap \in [Stream -> SUBSET Id] /\ doubled \in [Stream -> SUBSET Id]
      /\ subs \subseteq {s \in Stream : stream[s].phase = "live"}
    BY OneBefore
<1>2. PICK b \in Browser : b = stream[t]
    BY <1>1
<1>3. /\ b.phase = "live" /\ b.queue # <<>> /\ Head(b.queue) # Stop
      /\ stream' = [stream EXCEPT
             ![t] = [Received(b, Head(b.queue)) EXCEPT !.queue = Tail(b.queue)]]
      /\ subs' = subs /\ offered' = offered /\ gap' = gap
      /\ doubled' = doubled /\ event' = event /\ pub' = pub /\ stored' = stored
    BY <1>2 DEF Deliver, tableVars, histVars
<1>4. /\ ConnOK(t) /\ Skips(t) /\ Doubles(t)
      /\ b.got \in Seq(stored)
      /\ b.queue \in Seq(stored \cup {Stop}) /\ b.queue \in Seq(Id \cup {Stop})
      /\ Len(b.queue) <= QueueSize /\ offered[t] \in Seq(stored \cup {Stop})
      /\ t \in subs => Ends(b.queue, offered[t])
    BY <1>1, <1>2 DEF OneOK, ConnOK, Browser
<1>5. PICK e \in stored, q \in Seq(stored \cup {Stop}) :
        /\ e = Head(b.queue) /\ q = Tail(b.queue) /\ q \in Seq(Id \cup {Stop}) /\ e \in Id
        /\ ToSet(b.queue) = ToSet(q) \cup {e} /\ Len(q) = Len(b.queue) - 1
        /\ IsInjective(b.queue) => IsInjective(q) /\ e \notin ToSet(q)
        /\ Ends(b.queue, offered[t]) => Ends(q, offered[t])
    <2>1. Head(b.queue) \in Id \cup {Stop} /\ Tail(b.queue) \in Seq(Id \cup {Stop})
        BY <1>3, <1>4, HeadAndTail
    <2>2. Head(b.queue) \in stored \cup {Stop} /\ Tail(b.queue) \in Seq(stored \cup {Stop})
        BY <1>3, <1>4, HeadAndTail
    <2>3. /\ ToSet(b.queue) = ToSet(Tail(b.queue)) \cup {Head(b.queue)}
          /\ Len(Tail(b.queue)) = Len(b.queue) - 1
          /\ IsInjective(b.queue) => /\ IsInjective(Tail(b.queue))
                                     /\ Head(b.queue) \notin ToSet(Tail(b.queue))
          /\ Ends(b.queue, offered[t]) => Ends(Tail(b.queue), offered[t])
        BY <1>3, <1>4, HeadAndTail
    <2>. QED BY <1>3, <2>1, <2>2, <2>3
<1>6. PICK g \in Seq(stored) :
        /\ g = Append(b.got, e) /\ ToSet(g) = ToSet(b.got) \cup {e}
        /\ \A i, j \in DOMAIN g : i # j /\ g[i] = g[j] =>
               \/ g[i] = e /\ e \in ToSet(b.got)
               \/ i \in DOMAIN b.got /\ j \in DOMAIN b.got /\ g[i] = b.got[i] /\ g[j] = b.got[j]
    <2>1. PICK g : g = Append(b.got, e)
        OBVIOUS
    <2>2. /\ g \in Seq(stored) /\ ToSet(g) = ToSet(b.got) \cup {e}
          /\ \A i, j \in DOMAIN g : i # j /\ g[i] = g[j] =>
                 \/ g[i] = e /\ e \in ToSet(b.got)
                 \/ i \in DOMAIN b.got /\ j \in DOMAIN b.got /\ g[i] = b.got[i] /\ g[j] = b.got[j]
        BY <1>4, <2>1, Appended
    <2>. QED BY <2>1, <2>2
<1>7. PICK r \in Browser :
        /\ r = Received(b, e) /\ r.got = g /\ r.last \in {e, b.last}
        /\ r.user = b.user /\ r.phase = b.phase /\ r.since = b.since /\ r.missed = b.missed
        /\ r.queue = b.queue
    BY <1>5, <1>6, ReceivedIs
<1>8. stream'[t] = [r EXCEPT !.queue = q]
    BY <1>1, <1>3, <1>5, <1>7
<1>9. stream'[t] \in Browser
    BY <1>5, <1>8 DEF Browser
<1>10. /\ stream'[t].user = b.user /\ stream'[t].phase = "live"
       /\ stream'[t].since = b.since /\ stream'[t].last \in {e, b.last}
       /\ stream'[t].missed = b.missed /\ stream'[t].got = g /\ stream'[t].queue = q
    BY <1>3, <1>5, <1>7, <1>8 DEF Browser
<1>11. ConnOK(t)'
    <2>1. /\ b.user \in User /\ b.since \in stored \cup {Nil} /\ b.last \in stored \cup {Nil}
          /\ b.missed \in Seq(stored)
        BY <1>2, <1>4 DEF ConnOK
    <2>2. {stream'[t].since, stream'[t].last} \subseteq stored \cup {Nil}
        BY <1>10, <2>1
    <2>3. Len(q) <= QueueSize
        BY <1>4, <1>5, StreamAssumption
    <2>. QED BY <1>3, <1>4, <1>5, <1>10, <2>1, <2>2, <2>3 DEF ConnOK, Phase
<1>12. Skips(t)'
    <2>1. Due(t)' = Due(t)
        BY <1>2, <1>3, <1>10 DEF Due, Visible, Passed
    <2>2. t \in subs => Due(t) \subseteq ToSet(b.got) \cup ToSet(offered[t]) \cup gap[t]
        BY <1>2, <1>4 DEF Skips
    <2>. QED BY <1>3, <1>6, <1>10, <2>1, <2>2 DEF Skips
<1>13. Doubles(t)'
    <2>. SUFFICES ASSUME t \in subs PROVE Doubles(t)'
        BY <1>3 DEF Doubles
    <2> DEFINE d == doubled[t]
               u == b.user
    <2>1. /\ \A i, j \in DOMAIN b.got : i # j /\ b.got[i] = b.got[j] => b.got[i] \in d
          /\ ToSet(b.got) \cap ToSet(b.queue) \subseteq d
          /\ \A f \in ToSet(b.got) : Coming(u, f) => f \in d
          /\ IsInjective(b.queue)
          /\ \A f \in ToSet(b.queue) : f # Stop /\ ~Coming(u, f)
        BY <1>2, <1>4 DEF Doubles, ToSet
    <2>2. \A i, j \in DOMAIN g : i # j /\ g[i] = g[j] => g[i] \in d
        BY <1>5, <1>6, <2>1
    <2>3. ToSet(g) \cap ToSet(q) \subseteq d
        BY <1>5, <1>6, <2>1
    <2>4. \A f \in ToSet(g) : Coming(u, f) => f \in d
        BY <1>5, <1>6, <2>1
    <2>5. IsInjective(q) /\ \A k \in DOMAIN q : q[k] # Stop /\ ~Coming(u, q[k])
        <3>1. \A k \in DOMAIN q : q[k] \in ToSet(b.queue)
            BY <1>5 DEF ToSet
        <3>. QED BY <1>5, <2>1, <3>1
    <2>6. \A f : Coming(u, f)' <=> Coming(u, f)
        BY <1>2, <1>3, <1>10 DEF Coming
    <2>7. /\ \A f \in ToSet(g) : Coming(u, f)' => f \in d
          /\ \A k \in DOMAIN q : q[k] # Stop /\ ~Coming(u, q[k])'
        BY <2>4, <2>5, <2>6
    <2>8. PICK v : v = u
        OBVIOUS
    <2>9. /\ \A f \in ToSet(g) : Coming(v, f)' => f \in doubled'[t]
          /\ \A k \in DOMAIN q : q[k] # Stop /\ ~Coming(v, q[k])'
          /\ \A i, j \in DOMAIN g : i # j /\ g[i] = g[j] => g[i] \in doubled'[t]
          /\ ToSet(g) \cap ToSet(q) \subseteq doubled'[t]
        BY <1>3, <2>2, <2>3, <2>7, <2>8
    <2>10. stream'[t].user = v /\ stream'[t].got = g /\ stream'[t].queue = q
        BY <1>10, <2>8
    <2>. HIDE DEF u, d
    <2>. QED BY <2>5, <2>9, <2>10 DEF Doubles, Coming
<1>14. OneOK(t)'
    BY <1>1, <1>3, <1>4, <1>5, <1>9, <1>10, <1>11, <1>12, <1>13 DEF OneOK, Replays
<1>15. OnlyConn(t)
    BY <1>1, <1>3 DEF OnlyConn
<1>. QED BY <1>14, <1>15, OneConn

\* A queue is registered: it is empty, and what was replayed before its
\* fan-out is noted.
LEMMA SubscribeKeeps ==
    ASSUME PubOK, ConnInv, NEW t \in Stream, Subscribe(t)
    PROVE  ConnInv'
<1>1. /\ OneOK(t)
      /\ stream \in [Stream -> Browser] /\ offered \in [Stream -> Seq(Id \cup {Stop})]
      /\ gap \in [Stream -> SUBSET Id] /\ doubled \in [Stream -> SUBSET Id]
      /\ subs \subseteq {s \in Stream : stream[s].phase = "live"}
    BY OneBefore
<1>2. PICK b \in Browser : b = stream[t]
    BY <1>1
<1>3. /\ b.phase = "register" \/ (b.phase = "yield" /\ b.missed = <<>>)
      /\ stream' = [stream EXCEPT ![t].phase = "live"]
      /\ subs' = subs \cup {t} /\ offered' = offered /\ gap' = gap
      /\ doubled' = [doubled EXCEPT ![t] = {e \in ToSet(b.got) : Coming(b.user, e)}]
      /\ event' = event /\ pub' = pub /\ stored' = stored
    BY <1>2 DEF Subscribe, tableVars
<1>4. ConnOK(t) /\ Skips(t) /\ Replays(t) /\ b.got \in Seq(stored) /\ b.got \in Seq(Id)
      /\ b.queue = <<>> /\ offered[t] = <<>>
      /\ (b.since = Nil \/ b.phase = "yield")
    BY <1>1, <1>2, <1>3 DEF OneOK, ConnOK, Browser
<1>5. stream'[t] = [b EXCEPT !.phase = "live"]
    BY <1>1, <1>2, <1>3
<1>6. stream'[t] \in Browser
    BY <1>5 DEF Browser, Phase
<1>7. /\ stream'[t].user = b.user /\ stream'[t].phase = "live"
      /\ stream'[t].since = b.since /\ stream'[t].last = b.last
      /\ stream'[t].missed = b.missed /\ stream'[t].got = b.got /\ stream'[t].queue = b.queue
    BY <1>5 DEF Browser
<1> DEFINE d == {e \in ToSet(b.got) : Coming(b.user, e)}
<1>8. doubled'[t] = d /\ d \subseteq Id
    BY <1>1, <1>3, <1>4 DEF ToSet
<1>9. ConnOK(t)'
    BY <1>2, <1>3, <1>4, <1>7 DEF ConnOK, Phase
<1>10. Skips(t)'
    <2>1. Due(t)' = Due(t)
        BY <1>2, <1>3, <1>7 DEF Due, Visible, Passed
    <2>2. CASE b.since = Nil
        <3>1. Due(t)' = {}
            BY <1>7, <2>2 DEF Due
        <3>. QED BY <1>7, <3>1 DEF Skips
    <2>3. CASE b.phase = "yield"
        <3>1. b.missed = <<>> /\ ToSet(b.missed) = {}
            BY <1>3, <2>3 DEF ToSet
        <3>2. Due(t) \subseteq ToSet(b.got) \cup gap[t]
            BY <1>2, <1>4, <2>3, <3>1 DEF Skips
        <3>. QED BY <1>3, <1>7, <2>1, <3>2 DEF Skips
    <2>. QED BY <1>3, <1>4, <2>2, <2>3
<1>11. Doubles(t)'
    <2>1. IsInjective(b.got)
        <3>1. CASE b.phase = "yield"
            BY <1>2, <1>4, <3>1 DEF Replays
        <3>2. CASE b.phase = "register"
            <4>1. b.got = <<>>
                BY <1>2, <1>4, <3>2 DEF ConnOK
            <4>. QED BY <4>1 DEF IsInjective
        <3>. QED BY <1>3, <3>1, <3>2
    <2>2. ToSet(b.queue) = {} /\ IsInjective(b.queue) /\ DOMAIN b.queue = {}
        BY <1>4 DEF ToSet, IsInjective
    <2>3. \A e \in ToSet(b.got) : Coming(b.user, e)' => e \in d
        BY <1>3 DEF Coming
    <2>4. PICK v : v = b.user
        OBVIOUS
    <2>5. /\ \A e \in ToSet(b.got) : Coming(v, e)' => e \in doubled'[t]
          /\ stream'[t].user = v /\ stream'[t].got = b.got /\ stream'[t].queue = b.queue
        BY <1>7, <1>8, <2>3, <2>4
    <2>. HIDE DEF d
    <2>. QED BY <2>1, <2>2, <2>5 DEF Doubles, IsInjective, Coming
<1>12. Ends(stream'[t].queue, offered'[t])
    BY <1>3, <1>4, <1>7 DEF Ends
<1>13. OneOK(t)'
    BY <1>1, <1>3, <1>6, <1>7, <1>8, <1>9, <1>10, <1>11, <1>12 DEF OneOK, Replays
<1>14. OnlyConn(t)
    BY <1>1, <1>3 DEF OnlyConn
<1>. QED BY <1>13, <1>14, OneConn

\* A connection that ended keeps its "since" and the last event it handled.
LEMMA EndedIs ==
    ASSUME NEW b \in Browser
    PROVE  /\ Ended(b) \in Browser
           /\ Ended(b).user = b.user /\ Ended(b).phase = "off"
           /\ Ended(b).since = b.since /\ Ended(b).last = b.last
           /\ Ended(b).missed = <<>> /\ Ended(b).queue = <<>> /\ Ended(b).got = <<>>
<1>1. /\ <<>> \in Seq(Id) /\ <<>> \in Seq(Id \cup {Stop}) /\ {} \in SUBSET Id /\ "off" \in Phase
    BY DEF Phase
<1>. QED BY <1>1 DEF Ended, Browser

LEMMA ClosedKeeps ==
    ASSUME PubOK, ConnInv, NEW t \in Stream, Closed(t),
           event' = event, pub' = pub, stored' = stored
    PROVE  ConnInv'
<1>1. /\ OneOK(t)
      /\ stream \in [Stream -> Browser] /\ offered \in [Stream -> Seq(Id \cup {Stop})]
      /\ gap \in [Stream -> SUBSET Id] /\ doubled \in [Stream -> SUBSET Id]
      /\ subs \subseteq {s \in Stream : stream[s].phase = "live"}
    BY OneBefore
<1>2. PICK b \in Browser : b = stream[t]
    BY <1>1
<1>3. /\ stream' = [stream EXCEPT ![t] = Ended(b)] /\ subs' = subs \ {t}
      /\ offered' = [offered EXCEPT ![t] = <<>>] /\ gap' = [gap EXCEPT ![t] = {}]
      /\ doubled' = [doubled EXCEPT ![t] = {}]
    BY <1>2 DEF Closed
<1>4. PICK r \in Browser :
        /\ r = Ended(b) /\ r.user = b.user /\ r.phase = "off"
        /\ r.since = b.since /\ r.last = b.last
        /\ r.missed = <<>> /\ r.queue = <<>> /\ r.got = <<>>
    BY EndedIs
<1>5. stream'[t] = r /\ offered'[t] = <<>> /\ gap'[t] = {} /\ doubled'[t] = {} /\ t \notin subs'
    BY <1>1, <1>3, <1>4
<1>6. ConnOK(t)'
    <2>1. b.user \in User /\ {b.since, b.last} \subseteq stored \cup {Nil}
        BY <1>1, <1>2 DEF OneOK, ConnOK
    <2>2. <<>> \in Seq(stored) /\ <<>> \in Seq(stored \cup {Stop}) /\ Len(<<>>) <= QueueSize
        BY StreamAssumption
    <2>. QED BY <1>4, <1>5, <2>1, <2>2 DEF ConnOK, Phase
<1>7. OneOK(t)'
    BY <1>4, <1>5, <1>6 DEF OneOK, Skips, Replays, Doubles
<1>8. OnlyConn(t)
    BY <1>1, <1>3 DEF OnlyConn
<1>. QED BY <1>7, <1>8, OneConn

\* The drain unregisters every queue.
LEMMA DrainKeeps ==
    ASSUME PubOK, ConnInv, Drain
    PROVE  ConnInv'
<1>1. /\ stream \in [Stream -> Browser] /\ offered \in [Stream -> Seq(Id \cup {Stop})]
      /\ gap \in [Stream -> SUBSET Id] /\ doubled \in [Stream -> SUBSET Id]
      /\ subs \subseteq {s \in Stream : stream[s].phase = "live"}
      /\ \A s \in Stream : ConnOK(s) /\ Skips(s) /\ Replays(s)
    BY DEF ConnInv, ConnsOK, Browser
<1>2. /\ stream' = [s \in Stream |->
           IF Signalled(s) THEN [stream[s] EXCEPT !.queue = Append(@, Stop)] ELSE stream[s]]
      /\ offered' = [s \in Stream |->
           IF Signalled(s) THEN Append(offered[s], Stop) ELSE offered[s]]
      /\ subs' = {} /\ gap' = gap /\ doubled' = doubled
      /\ event' = event /\ pub' = pub /\ stored' = stored
    BY DEF Drain, tableVars
<1>3. ASSUME NEW s \in Stream
      PROVE  OneOK(s)'
    <2>1. PICK b \in Browser : b = stream[s]
        BY <1>1
    <2>2. PICK q \in Seq(Id \cup {Stop}), o \in Seq(Id \cup {Stop}) :
            /\ stream'[s] = [b EXCEPT !.queue = q] /\ offered'[s] = o
            /\ q \in Seq(stored \cup {Stop}) /\ o \in Seq(stored \cup {Stop})
            /\ Len(q) <= QueueSize
            /\ b.phase # "live" => q = <<>> /\ o = <<>>
        <3>1. /\ b.queue \in Seq(stored \cup {Stop}) /\ offered[s] \in Seq(stored \cup {Stop})
              /\ b.queue \in Seq(Id \cup {Stop}) /\ offered[s] \in Seq(Id \cup {Stop})
              /\ Len(b.queue) <= QueueSize /\ Len(b.queue) \in Nat
              /\ b.phase # "live" => b.queue = <<>> /\ offered[s] = <<>>
            BY <1>1, <2>1 DEF ConnOK, Browser
        <3>2. CASE Signalled(s)
            <4>1. b.phase = "live" /\ Len(b.queue) < QueueSize
                BY <1>1, <2>1, <3>2 DEF Signalled
            <4>2. PICK q \in Seq(Id \cup {Stop}), o \in Seq(Id \cup {Stop}) :
                    /\ q = Append(b.queue, Stop) /\ o = Append(offered[s], Stop)
                    /\ q \in Seq(stored \cup {Stop}) /\ o \in Seq(stored \cup {Stop})
                    /\ Len(q) = Len(b.queue) + 1
                <5>1. /\ Append(b.queue, Stop) \in Seq(Id \cup {Stop})
                      /\ Append(offered[s], Stop) \in Seq(Id \cup {Stop})
                      /\ Len(Append(b.queue, Stop)) = Len(b.queue) + 1
                    BY <3>1
                <5>2. /\ Append(b.queue, Stop) \in Seq(stored \cup {Stop})
                      /\ Append(offered[s], Stop) \in Seq(stored \cup {Stop})
                    BY <3>1
                <5>. QED BY <5>1, <5>2
            <4>3. stream'[s] = [b EXCEPT !.queue = q] /\ offered'[s] = o
                BY <1>2, <2>1, <3>2, <4>2
            <4>4. Len(q) <= QueueSize
                BY <3>1, <4>1, <4>2, StreamAssumption
            <4>. QED BY <4>1, <4>2, <4>3, <4>4
        <3>3. CASE ~Signalled(s)
            <4>1. stream'[s] = b /\ offered'[s] = offered[s]
                BY <1>2, <2>1, <3>3
            <4>2. b = [b EXCEPT !.queue = b.queue]
                BY DEF Browser
            <4>. QED BY <3>1, <4>1, <4>2
        <3>. QED BY <3>2, <3>3
    <2>3. stream'[s] \in Browser
        BY <2>2 DEF Browser
    <2>4. /\ stream'[s].user = b.user /\ stream'[s].phase = b.phase
          /\ stream'[s].since = b.since /\ stream'[s].last = b.last
          /\ stream'[s].missed = b.missed /\ stream'[s].got = b.got
          /\ stream'[s].queue = q /\ s \notin subs' /\ gap'[s] = gap[s] /\ doubled'[s] = doubled[s]
        BY <1>2, <2>2 DEF Browser
    <2>5. ConnOK(s)'
        <3>1. /\ b.user \in User /\ b.phase \in Phase
              /\ {b.since, b.last} \subseteq stored \cup {Nil}
              /\ b.got \in Seq(stored) /\ b.missed \in Seq(stored)
              /\ b.phase \in {"off", "replay", "register"} => b.got = <<>> /\ b.missed = <<>>
              /\ b.phase = "register" => b.since = Nil
            BY <1>1, <2>1 DEF ConnOK
        <3>2. stream'[s].user \in User /\ stream'[s].phase \in Phase
              /\ {stream'[s].since, stream'[s].last} \subseteq stored' \cup {Nil}
              /\ stream'[s].got \in Seq(stored') /\ stream'[s].missed \in Seq(stored')
            BY <1>2, <2>4, <3>1
        <3>3. /\ stream'[s].phase # "live" => stream'[s].queue = <<>> /\ offered'[s] = <<>>
              /\ stream'[s].phase \in {"off", "replay", "register"}
                    => stream'[s].got = <<>> /\ stream'[s].missed = <<>>
              /\ stream'[s].phase = "register" => stream'[s].since = Nil
            BY <2>2, <2>4, <3>1
        <3>4. /\ stream'[s].queue \in Seq(stored' \cup {Stop})
              /\ offered'[s] \in Seq(stored' \cup {Stop}) /\ Len(stream'[s].queue) <= QueueSize
            BY <1>2, <2>2, <2>4
        <3>. QED BY <3>2, <3>3, <3>4 DEF ConnOK
    <2>6. Skips(s)' /\ Replays(s)' /\ Doubles(s)'
        <3>1. Due(s)' = Due(s)
            BY <1>2, <2>1, <2>4 DEF Due, Visible, Passed
        <3>. QED BY <1>1, <2>1, <2>4, <3>1 DEF Skips, Replays, Doubles
    <2>. QED BY <1>1, <2>2, <2>3, <2>4, <2>5, <2>6 DEF OneOK
<1>4. (ConnInv <=> ConnParts)'
    BY ConnInvIs, PTL
<1>. QED BY <1>1, <1>2, <1>3, <1>4 DEF ConnParts

\* After a restart there is no connection.
LEMMA RestartedEnds ==
    ASSUME PubOK, ConnInv, Restarted
    PROVE  ConnInv'
<1>1. /\ stream \in [Stream -> Browser] /\ \A s \in Stream : ConnOK(s)
    BY DEF ConnInv, ConnsOK, Browser
<1>2. /\ stream' = [s \in Stream |-> Ended(stream[s])]
      /\ offered' = [s \in Stream |-> <<>>] /\ gap' = [s \in Stream |-> {}]
      /\ doubled' = [s \in Stream |-> {}] /\ subs' = {} /\ stored' = stored
    BY DEF Restarted
<1>3. ASSUME NEW s \in Stream
      PROVE  OneOK(s)'
    <2>1. PICK b \in Browser : b = stream[s]
        BY <1>1
    <2>2. PICK r \in Browser :
            /\ r = Ended(b) /\ r.user = b.user /\ r.phase = "off"
            /\ r.since = b.since /\ r.last = b.last
            /\ r.missed = <<>> /\ r.queue = <<>> /\ r.got = <<>>
        BY EndedIs
    <2>3. stream'[s] = r /\ offered'[s] = <<>> /\ gap'[s] = {} /\ doubled'[s] = {} /\ s \notin subs'
        BY <1>2, <2>1, <2>2
    <2>4. ConnOK(s)'
        <3>1. b.user \in User /\ {b.since, b.last} \subseteq stored \cup {Nil}
            BY <1>1, <2>1 DEF ConnOK
        <3>2. <<>> \in Seq(stored) /\ <<>> \in Seq(stored \cup {Stop}) /\ Len(<<>>) <= QueueSize
            BY StreamAssumption
        <3>. QED BY <1>2, <2>2, <2>3, <3>1, <3>2 DEF ConnOK, Phase
    <2>. QED BY <2>2, <2>3, <2>4 DEF OneOK, Skips, Replays, Doubles
<1>4. (ConnInv <=> ConnParts)'
    BY ConnInvIs, PTL
<1>. QED BY <1>2, <1>3, <1>4 DEF ConnParts

\* The bounds and the shutdown.
LEMMA RestKeeps ==
    ASSUME StreamRest, ConnInv, [Next]_vars
    PROVE  StreamRest'
<1>1. ASSUME bounds' = bounds, clock' \in 0 .. MaxEvents, drained' \in BOOLEAN,
             faults' \in [failures : Nat, starts : Nat], deaf' \subseteq Stream
      PROVE  StreamRest'
    BY <1>1 DEF StreamRest
<1>. USE DEF StreamRest
<1>2. ASSUME bounds' = bounds, clock' = clock, drained' = drained, faults' = faults, deaf' = deaf
      PROVE  StreamRest'
    BY <1>1, <1>2
<1>3. CASE Emit
    BY <1>3 DEF Emit, Now, connVars, lifeVars
<1>4. ASSUME NEW e \in DOMAIN pub, Publish(e) PROVE StreamRest'
    <2>1. CASE Stamp(e)
        BY <2>1 DEF Stamp, Now, connVars, lifeVars
    <2>2. CASE Store(e)
        BY <2>2 DEF Store, connVars, lifeVars
    <2>3. CASE PublishFails(e)
        <3>1. faults' \in [failures : Nat, starts : Nat]
            BY <2>3 DEF PublishFails
        <3>. QED BY <2>3, <3>1 DEF PublishFails, connVars
    <2>4. CASE FanOutOwner(e)
        BY <2>4 DEF FanOutOwner, lifeVars
    <2>5. CASE FanOutMembers(e)
        BY <2>5 DEF FanOutMembers, lifeVars
    <2>. QED BY <1>4, <2>1, <2>2, <2>3, <2>4, <2>5 DEF Publish
<1>5. ASSUME NEW s \in Stream, Connect(s) \/ Serve(s) \/ Disconnect(s) PROVE StreamRest'
    <2>1. CASE Connect(s)
        BY <2>1 DEF Connect, tableVars, lifeVars, histVars
    <2>2. CASE Replay(s)
        BY <2>2 DEF Replay, tableVars, lifeVars, histVars
    <2>3. CASE YieldMissed(s)
        BY <2>3 DEF YieldMissed, tableVars, lifeVars, histVars
    <2>4. CASE Subscribe(s)
        BY <2>4 DEF Subscribe, tableVars, lifeVars
    <2>5. CASE Deliver(s)
        BY <2>5 DEF Deliver, tableVars, lifeVars, histVars
    <2>6. CASE Stopped(s)
        BY <2>6 DEF Stopped, Closed, tableVars, lifeVars
    <2>7. CASE Disconnect(s)
        BY <2>7 DEF Disconnect, Closed, tableVars, lifeVars
    <2>. QED BY <1>5, <2>1, <2>2, <2>3, <2>4, <2>5, <2>6, <2>7 DEF Serve
<1>6. CASE Drain
    <2>1. subs \subseteq Stream
        BY DEF ConnInv, ConnsOK
    <2>. QED BY <1>6, <2>1 DEF Drain, tableVars
<1>7. ASSUME NEW c \in Call, Step(c) PROVE StreamRest'
    <2>1. CASE Insert(c)
        BY <2>1 DEF Insert, connVars, lifeVars
    <2>2. CASE ~Insert(c)
        BY <1>7, <2>2 DEF Step, UpdateWrite, HaltWrite, HaltItems, CompleteWrite, CompleteClose,
               ReadSeq, RowIsRefused, FindNote, streamVars, tableVars, connVars, lifeVars
    <2>. QED BY <2>1, <2>2
<1>8. ASSUME NEW c \in Call, Ask(c) PROVE StreamRest'
    BY <1>8 DEF Ask, streamVars, tableVars, connVars, lifeVars
<1>9. CASE Restart
    <2>1. faults' \in [failures : Nat, starts : Nat]
        BY <1>9 DEF Restart, Restarted
    <2>. QED BY <1>9, <2>1 DEF Restart, Restarted
<1>10. CASE UNCHANGED vars
    BY <1>10 DEF vars, streamVars, tableVars, connVars, lifeVars
<1>. QED BY <1>3, <1>4, <1>5, <1>6, <1>7, <1>8, <1>9, <1>10 DEF Next, BusStep

\* A step of the log that does not touch the stream.
LEMMA StreamStays ==
    ASSUME PubOK, ConnInv, UNCHANGED streamVars
    PROVE  PubOK' /\ ConnInv'
<1>1. event' = event /\ pub' = pub /\ stored' = stored /\ UNCHANGED connVars
    BY DEF streamVars, tableVars
<1>2. TableKeeps
    BY <1>1 DEF TableKeeps
<1>3. PubOK'
    BY <1>1 DEF PubOK
<1>. QED BY <1>1, <1>2, <1>3, TableSteps

\* Every step keeps what the stream says of itself.
LEMMA StreamStep ==
    ASSUME DeliveryParts, [Next]_vars
    PROVE  DeliveryParts'
<1>. USE DEF DeliveryParts
<1>1. StreamRest'
    BY RestKeeps
<1>. SUFFICES PubOK' /\ ConnInv'
    BY <1>1
<1>2. CASE Emit
    <2>1. PICK e \in bounds.emits : Created(e.kind, e.owner, e.shared, clock', "insert")
        BY <1>2 DEF Emit
    <2>2. e \in [kind : Kind, owner : User, shared : BOOLEAN]
        BY <2>1, StreamAssumption DEF StreamRest, Mix
    <2>3. MoreEvents /\ stored' = stored /\ clock' \in 0 .. MaxEvents /\ UNCHANGED connVars
        BY <1>1, <1>2 DEF Emit, StreamRest
    <2>4. PubOK' /\ TableKeeps
        BY <2>1, <2>2, <2>3, CreatedKeeps
    <2>. QED BY <2>3, <2>4, TableSteps
<1>3. ASSUME NEW e \in DOMAIN pub, Publish(e) PROVE PubOK' /\ ConnInv'
    <2>1. CASE Stamp(e)
        BY <2>1, StampKeeps, TableSteps DEF Stamp
    <2>2. CASE Store(e)
        BY <2>2, StoreKeeps, TableSteps DEF Store
    <2>3. CASE PublishFails(e)
        BY <2>3, FailKeeps, TableSteps DEF PublishFails
    <2>4. CASE FanOutOwner(e) \/ FanOutMembers(e)
        BY <2>4, FanKeeps, FanSteps
    <2>. QED BY <1>3, <2>1, <2>2, <2>3, <2>4 DEF Publish
<1>4. ASSUME NEW s \in Stream, Connect(s) \/ Serve(s) \/ Disconnect(s)
      PROVE  PubOK' /\ ConnInv'
    <2>1. event' = event /\ pub' = pub /\ stored' = stored
        BY <1>4 DEF Connect, Serve, Disconnect, Replay, YieldMissed, Subscribe, Deliver, Stopped,
                    tableVars
    <2>2. PubOK'
        BY <2>1 DEF PubOK
    <2>3. CASE Connect(s)
        BY <2>2, <2>3, ConnectKeeps
    <2>4. CASE Replay(s)
        BY <2>2, <2>4, ReplayKeeps
    <2>5. CASE YieldMissed(s)
        BY <2>2, <2>5, YieldKeeps
    <2>6. CASE Subscribe(s)
        BY <2>2, <2>6, SubscribeKeeps
    <2>7. CASE Deliver(s)
        BY <2>2, <2>7, DeliverKeeps
    <2>8. CASE Stopped(s) \/ Disconnect(s)
        BY <2>1, <2>2, <2>8, ClosedKeeps DEF Stopped, Disconnect
    <2>. QED BY <1>4, <2>3, <2>4, <2>5, <2>6, <2>7, <2>8 DEF Serve
<1>5. CASE Drain
    <2>1. event' = event /\ pub' = pub /\ stored' = stored
        BY <1>5 DEF Drain, tableVars
    <2>2. PubOK'
        BY <2>1 DEF PubOK
    <2>. QED BY <1>5, <2>2, DrainKeeps
<1>6. ASSUME NEW c \in Call, Step(c) PROVE PubOK' /\ ConnInv'
    <2>1. CASE Insert(c) /\ MoreEvents
        <3>1. /\ Created("rollout_event", Lead, TRUE, 0, "task")
              /\ stored' = stored /\ UNCHANGED connVars
            BY <2>1 DEF Insert, PublishRow
        <3>2. 0 \in 0 .. MaxEvents /\ "rollout_event" \in Kind /\ Lead \in User
            BY StreamAssumption, LogAssumption
        <3>3. PubOK' /\ TableKeeps
            BY <2>1, <3>1, <3>2, CreatedKeeps
        <3>. QED BY <3>1, <3>3, TableSteps
    <2>2. CASE Insert(c) /\ ~MoreEvents
        BY <2>2, StreamStays DEF Insert, PublishRow, streamVars, tableVars
    <2>3. CASE ~Insert(c)
        BY <1>6, <2>3, StreamStays DEF Step, UpdateWrite, HaltWrite, HaltItems, CompleteWrite,
               CompleteClose, ReadSeq, RowIsRefused, FindNote
    <2>. QED BY <2>1, <2>2, <2>3
<1>7. ASSUME NEW c \in Call, Ask(c) PROVE PubOK' /\ ConnInv'
    BY <1>7, StreamStays DEF Ask
<1>8. CASE Restart
    BY <1>8, RestartedKeeps, RestartedEnds DEF Restart
<1>9. CASE UNCHANGED vars
    BY <1>9, StreamStays DEF vars
<1>. QED BY <1>2, <1>3, <1>4, <1>5, <1>6, <1>7, <1>8, <1>9 DEF Next, BusStep

\* The inductive invariant of the bus and its streams, for any number of
\* users, browsers, events and requests: a row is in the table before its
\* fan-out, a connection speaks of stored rows, what is due is sent, offered or
\* in the gap, and what may come twice is on record.
THEOREM DeliveryInductive == Spec => []DeliveryParts
<1>1. Init => DeliveryParts
    <2>. SUFFICES ASSUME Init PROVE DeliveryParts
        OBVIOUS
    <2>1. StreamInit
        BY DEF Init
    <2>2. StreamRest
        <3>1. /\ bounds \in Mixes /\ clock = 0 /\ drained = FALSE /\ deaf = {}
              /\ faults = [failures |-> 0, starts |-> 0]
            BY <2>1 DEF StreamInit
        <3>2. faults \in [failures : Nat, starts : Nat] /\ clock \in 0 .. MaxEvents
            BY <3>1, StreamAssumption
        <3>. QED BY <3>1, <3>2 DEF StreamRest
    <2>3. PubOK
        BY <2>1, StreamAssumption DEF StreamInit, PubOK
    <2>4. PICK u \in [Stream -> User] :
            stream = [s \in Stream |->
                  [user |-> u[s], phase |-> "off", since |-> Nil,
                   last |-> Nil, missed |-> <<>>, queue |-> <<>>,
                   got |-> <<>>, shown |-> {}, connects |-> 0]]
        BY <2>1 DEF StreamInit
    <2>5. /\ subs = {} /\ offered = [s \in Stream |-> <<>>]
          /\ gap = [s \in Stream |-> {}] /\ doubled = [s \in Stream |-> {}]
        BY <2>1 DEF StreamInit
    <2>6. ASSUME NEW s \in Stream PROVE OneOK(s)
        <3>1. /\ <<>> \in Seq(Id) /\ <<>> \in Seq(Id \cup {Stop}) /\ "off" \in Phase
              /\ <<>> \in Seq(stored) /\ <<>> \in Seq(stored \cup {Stop}) /\ Len(<<>>) <= QueueSize
            BY StreamAssumption DEF Phase
        <3>2. stream[s] \in Browser
            BY <2>4, <3>1 DEF Browser
        <3>3. ConnOK(s)
            BY <2>4, <2>5, <3>1 DEF ConnOK
        <3>. QED BY <2>4, <2>5, <3>1, <3>2, <3>3 DEF OneOK, Skips, Replays, Doubles
    <2>7. ConnInv
        BY <2>4, <2>5, <2>6, ConnInvIs DEF ConnParts
    <2>. QED BY <2>2, <2>3, <2>7 DEF DeliveryParts
<1>2. DeliveryParts /\ [Next]_vars => DeliveryParts'
    BY StreamStep
<1>. QED BY <1>1, <1>2, PTL DEF Spec

\* The end of a sequence, as the library says it.
LEMMA EndsIsSuffix ==
    ASSUME NEW S, NEW q \in Seq(S), NEW o \in Seq(S), Ends(q, o)
    PROVE  IsSuffix(q, o)
<1> DEFINE M == Len(q)
           N == Len(o)
           Q == Reverse(q)
           O == Reverse(o)
<1>1. M \in Nat /\ N \in Nat /\ M <= N /\ \A i \in 1 .. M : q[i] = o[N - M + i]
    BY DEF Ends
<1>2. Q = [i \in 1 .. M |-> q[M - i + 1]] /\ O = [i \in 1 .. N |-> o[N - i + 1]]
    BY DEF Reverse
<1>3. Q \in Seq(S) /\ O \in Seq(S) /\ Len(Q) = M /\ Len(O) = N
    <2>1. \A i \in 1 .. M : q[M - i + 1] \in S
        BY <1>1
    <2>2. \A i \in 1 .. N : o[N - i + 1] \in S
        BY <1>1
    <2>. QED BY <1>1, <1>2, <2>1, <2>2
<1>4. ASSUME NEW i \in 1 .. M PROVE Q[i] = O[i]
    <2>1. Q[i] = q[M - i + 1] /\ M - i + 1 \in 1 .. M
        BY <1>1, <1>2
    <2>2. O[i] = o[N - i + 1]
        BY <1>1, <1>2
    <2>3. q[M - i + 1] = o[N - M + (M - i + 1)] /\ N - M + (M - i + 1) = N - i + 1
        BY <1>1, <2>1
    <2>. QED BY <2>1, <2>2, <2>3
<1>. HIDE DEF Q, O, M, N
<1>5. SubSeq(Q, 1, M) = SubSeq(O, 1, M)
    BY <1>1, <1>3, <1>4
<1>6. IsPrefix(Q, O)
    BY <1>1, <1>3, <1>5 DEF IsPrefix
<1>. QED BY <1>6 DEF IsSuffix, Q, O

\* A browser is sent what it asked for: of the events later than its "since"
\* none is skipped, none is overtaken and none comes twice, but in the windows
\* that the properties name (event_stream, EventBus), for any number of users,
\* browsers, events, disconnections, shutdowns and crashes.
THEOREM DeliveryCorrect == Spec => []DeliveryInv
<1>1. DeliveryParts => DeliveryInv
    <2>. SUFFICES ASSUME DeliveryParts PROVE DeliveryInv
        OBVIOUS
    <2>1. /\ PubOK /\ ConnsOK /\ subs \subseteq Stream
          /\ \A s \in Stream : ConnOK(s) /\ Skips(s) /\ Doubles(s)
          /\ \A s \in subs : Ends(stream[s].queue, offered[s])
        BY DEF DeliveryParts, ConnInv, ConnsOK
    <2>2. NothingSkipped
        <3>1. ASSUME NEW s \in Stream, NEW e \in DOMAIN event,
                     Live(s), stream[s].since # Nil,
                     Visible(stream[s].user, e), Passed(stream[s].user, e),
                     event[e].at > event[stream[s].since].at
              PROVE  e \in ToSet(stream[s].got) \cup ToSet(offered[s]) \cup gap[s]
            <4>1. e \in stored
                BY <2>1, <3>1 DEF Passed, PubOK
            <4>2. e \in Due(s)
                BY <3>1, <4>1 DEF Due
            <4>. QED BY <2>1, <3>1, <4>2 DEF Live, Skips
        <3>. QED BY <3>1 DEF NothingSkipped
    <2>3. QueueIsTail
        <3>1. ASSUME NEW s \in subs PROVE IsSuffix(stream[s].queue, offered[s])
            <4>1. /\ stream[s].queue \in Seq(stored \cup {Stop})
                  /\ offered[s] \in Seq(stored \cup {Stop})
                BY <2>1 DEF ConnOK
            <4>. QED BY <2>1, <4>1, EndsIsSuffix
        <3>. QED BY <3>1 DEF QueueIsTail
    <2>4. TwiceOnlyBetween
        BY <2>1 DEF TwiceOnlyBetween, Doubles, Live
    <2>. QED BY <2>2, <2>3, <2>4 DEF DeliveryInv
<1>. QED BY <1>1, DeliveryInductive, PTL

-----------------------------------------------------------------------------
(* What the log tells                                                      *)

\* What each kind of request has left to append while it is under way.
ReportPlan == <<"manager_state_update">>
AnswerPlan == <<"comment_posted">>
HaltPlan   == <<"comment_posted", "wave_halted">>
ToldPlan   == <<"wave_halted">>
FullPlan   == <<"item_outcome", "merge_note", "wave_completed">>
NotePlan   == <<"merge_note", "wave_completed">>
ClosePlan  == <<"wave_completed">>
HealPlan   == <<"wave_completed", NoteCheck>>
CheckPlan  == <<NoteCheck>>
LastPlan   == <<"merge_note">>

Plans == {ReportPlan, AnswerPlan, HaltPlan, ToldPlan, FullPlan, NotePlan, ClosePlan,
          HealPlan, CheckPlan, LastPlan}

\* Where a request with each plan can be.
PlanOK(c) ==
    InProgress(c) =>
        \/ /\ call[c].op = "update" /\ call[c].todo = ReportPlan
           /\ call[c].pc \in {"write", "append", "insert"}
        \/ /\ call[c].op = "answer" /\ call[c].todo = AnswerPlan
           /\ call[c].pc \in {"append", "insert"}
        \/ /\ call[c].op = "halt"
           /\ \/ /\ call[c].todo = HaltPlan
                 /\ call[c].pc \in {"write", "items", "append", "insert"}
              \/ call[c].todo = ToldPlan /\ call[c].pc \in {"append", "insert"}
        \/ /\ call[c].op = "complete"
           /\ \/ /\ call[c].todo = FullPlan
                 /\ call[c].pc \in {"write", "close", "append", "insert"}
              \/ call[c].todo = HealPlan /\ call[c].pc \in {"close", "append", "insert"}
              \/ /\ call[c].todo \in {NotePlan, ClosePlan, LastPlan}
                 /\ call[c].pc \in {"append", "insert"}
              \/ call[c].todo = CheckPlan /\ call[c].pc = "append"

\* A request whose number is taken is excused; one not made yet is not.
ExcusesOK ==
    /\ excuse \subseteq {c \in Call : call[c].pc # "new"}
    /\ \A c \in Call : call[c].pc = "insert" /\ Taken(call[c].seq) => c \in excuse

LogTypes ==
    /\ status \in {"running", "halted", "completed"}
    /\ banner \in Call \cup {0}
    /\ item \in {"dispatched", "halted", "completed"}
    /\ rows \subseteq [seq : Nat \ {0}, kind : RowKind, by : Call, event : Id \cup {Nil}]
    /\ overlap \in BOOLEAN

\* A halt that has written has the end to tell.
HaltOwes == \E c \in Call : call[c].op = "halt" /\ call[c].pc \in {"items", "append", "insert"}

\* A completion that has closed the rollout has the end to tell.
CloseOwes ==
    \E c \in Call : /\ call[c].op = "complete" /\ call[c].pc \in {"append", "insert"}
                    /\ call[c].todo \in {FullPlan, NotePlan, ClosePlan, HealPlan}

\* An end is told, excused or owed.
EndsOK ==
    /\ status = "halted" => Told("wave_halted") \/ Excused("halt") \/ HaltOwes
    /\ status = "completed" => Told("wave_completed") \/ Excused("complete") \/ CloseOwes

\* The note is there once a completion has appended or found it, and then the
\* item is completed.
NotesOK ==
    /\ \A c \in Call :
           (call[c].op = "complete" /\ (call[c].pc = "ok"
               \/ (call[c].pc \in {"append", "insert"} /\ call[c].todo = ClosePlan)))
           => Told("merge_note")
    /\ Told("merge_note") => item = "completed"
    /\ \A c \in Call : call[c].op = "complete" /\ call[c].pc \in {"close", "append", "insert"}
                           => item = "completed"

Serving(c, op) == call[c].op = op /\ InProgress(c)

\* Completions that do not overlap write one note.
OneNote ==
    ~overlap =>
        /\ \A c, d \in Call : Serving(c, "complete") /\ Serving(d, "complete") => c = d
        /\ \A r, q \in rows : r.kind = "merge_note" /\ q.kind = "merge_note" => r = q
        /\ \A c \in Call : Serving(c, "complete") /\ call[c].todo \in {FullPlan, NotePlan, LastPlan}
                               => ~Told("merge_note")

\* The banner's report is the last row of its kind.
BannerTold ==
    \E r \in rows : /\ r.kind = "manager_state_update" /\ r.by = banner
                    /\ \A q \in rows : q.kind = "manager_state_update" => q.seq <= r.seq

\* One report at a time, and the one that wrote the banner last is told, to be
\* told or excused.
BannerOK ==
    /\ \A c, d \in Call : Serving(c, "update") /\ Serving(d, "update") => c = d
    /\ \A c \in Call : call[c].op = "update" /\ call[c].pc \in {"append", "insert"} => banner = c
    /\ banner # 0 => \/ banner \in excuse /\ call[banner].op = "update"
                     \/ /\ call[banner].op = "update"
                        /\ call[banner].pc \in {"append", "insert"}
                     \/ BannerTold

\* The inductive invariant of what the log tells.
TellInv == /\ LogTypes /\ \A c \in Call : PlanOK(c)
           /\ ExcusesOK /\ EndsOK /\ NotesOK /\ OneNote /\ BannerOK

\* The plans begin and go on as follows.
LEMMA PlanFacts ==
    /\ Plans \subseteq Seq(LogRow)
    /\ Head(ReportPlan) = "manager_state_update" /\ Tail(ReportPlan) = <<>>
    /\ Head(AnswerPlan) = "comment_posted" /\ Tail(AnswerPlan) = <<>>
    /\ Head(HaltPlan) = "comment_posted" /\ Tail(HaltPlan) = ToldPlan
    /\ Head(ToldPlan) = "wave_halted" /\ Tail(ToldPlan) = <<>>
    /\ Head(FullPlan) = "item_outcome" /\ Tail(FullPlan) = NotePlan
    /\ Head(NotePlan) = "merge_note" /\ Tail(NotePlan) = ClosePlan
    /\ Head(ClosePlan) = "wave_completed" /\ Tail(ClosePlan) = <<>>
    /\ Head(HealPlan) = "wave_completed" /\ Tail(HealPlan) = CheckPlan
    /\ Head(CheckPlan) = NoteCheck
    /\ Head(LastPlan) = "merge_note" /\ Tail(LastPlan) = <<>>
    /\ <<>> \notin Plans
    /\ NotePlan # LastPlan /\ ClosePlan # HealPlan
<1>1. /\ ReportPlan \in Seq(LogRow) /\ AnswerPlan \in Seq(LogRow) /\ HaltPlan \in Seq(LogRow)
      /\ ToldPlan \in Seq(LogRow) /\ FullPlan \in Seq(LogRow) /\ NotePlan \in Seq(LogRow)
      /\ ClosePlan \in Seq(LogRow) /\ HealPlan \in Seq(LogRow) /\ CheckPlan \in Seq(LogRow)
      /\ LastPlan \in Seq(LogRow)
    BY DEF LogRow, RowKind, ReportPlan, AnswerPlan, HaltPlan, ToldPlan, FullPlan, NotePlan,
           ClosePlan, HealPlan, CheckPlan, LastPlan
<1>2. Plans \subseteq Seq(LogRow)
    BY <1>1 DEF Plans
<1>3. /\ Head(ReportPlan) = "manager_state_update" /\ Tail(ReportPlan) = <<>>
      /\ Head(AnswerPlan) = "comment_posted" /\ Tail(AnswerPlan) = <<>>
      /\ Head(HaltPlan) = "comment_posted" /\ Tail(HaltPlan) = ToldPlan
      /\ Head(ToldPlan) = "wave_halted" /\ Tail(ToldPlan) = <<>>
    BY DEF ReportPlan, AnswerPlan, HaltPlan, ToldPlan
<1>4. /\ Head(FullPlan) = "item_outcome" /\ Tail(FullPlan) = NotePlan
      /\ Head(NotePlan) = "merge_note" /\ Tail(NotePlan) = ClosePlan
      /\ Head(ClosePlan) = "wave_completed" /\ Tail(ClosePlan) = <<>>
    BY DEF FullPlan, NotePlan, ClosePlan
<1>5. /\ Head(HealPlan) = "wave_completed" /\ Tail(HealPlan) = CheckPlan
      /\ Head(CheckPlan) = NoteCheck
      /\ Head(LastPlan) = "merge_note" /\ Tail(LastPlan) = <<>>
    BY DEF HealPlan, CheckPlan, LastPlan
<1>6. \A p \in Plans : p # <<>>
    BY DEF Plans, ReportPlan, AnswerPlan, HaltPlan, ToldPlan, FullPlan, NotePlan,
           ClosePlan, HealPlan, CheckPlan, LastPlan
<1>7. NotePlan # LastPlan /\ ClosePlan # HealPlan
    BY DEF NotePlan, LastPlan, ClosePlan, HealPlan
<1>. QED BY <1>2, <1>3, <1>4, <1>5, <1>6, <1>7

\* What a step of a request does to the requests.
LEMMA GoMoves ==
    ASSUME CallsOK, NEW c \in Call,
           NEW pc \in {"items", "close", "append", "ok", "raised"}, NEW todo \in Seq(LogRow),
           Go(c, pc, todo)
    PROVE  /\ call'[c].op = call[c].op /\ call'[c].pc = pc /\ call'[c].todo = todo
           /\ \A d \in Call : d # c => call'[d] = call[d]
<1>1. call' = [call EXCEPT ![c].pc = pc, ![c].todo = todo]
    BY DEF Go
<1>2. call[c] \in [op : Op \cup {Nil},
                   pc : {"new", "write", "items", "close", "append",
                         "insert", "ok", "raised", "dead"},
                   todo : Seq(LogRow), seq : Nat]
    BY DEF CallsOK
<1>. QED BY <1>1, <1>2 DEF CallsOK

\* A step of request c that leaves the rows and the records alone.
Moves(c, pc, todo) ==
    /\ call'[c].op = call[c].op /\ call'[c].pc = pc /\ call'[c].todo = todo
    /\ \A d \in Call : d # c => call'[d] = call[d]
    /\ rows' = rows /\ excuse' = excuse /\ overlap' = overlap
    /\ InProgress(c)

\* Such a step, from what the handler says of it.
LEMMA GoIsMove ==
    ASSUME CallsOK, NEW c \in Call,
           NEW pc \in {"items", "close", "append", "ok", "raised"}, NEW todo \in Seq(LogRow),
           Go(c, pc, todo), InProgress(c), rows' = rows, excuse' = excuse, overlap' = overlap
    PROVE  Moves(c, pc, todo)
    BY GoMoves DEF Moves

\* The plan and the excuses after such a step.
LEMMA MovesKeep ==
    ASSUME TellInv, NEW c \in Call, NEW pc, NEW todo, Moves(c, pc, todo),
           PlanOK(c)', pc # "new", pc # "insert"
    PROVE  /\ \A d \in Call : PlanOK(d)'
           /\ ExcusesOK'
<1>1. \A d \in Call : PlanOK(d)'
    <2>1. ASSUME NEW d \in Call, d # c PROVE PlanOK(d)'
        BY <2>1 DEF TellInv, Moves, PlanOK, InProgress
    <2>. QED BY <2>1
<1>2. ExcusesOK'
    BY DEF TellInv, ExcusesOK, Moves, Taken
<1>. QED BY <1>1, <1>2

\* The reports after a step that writes no banner.
LEMMA BannerMoves ==
    ASSUME TellInv, NEW c \in Call, NEW pc, NEW todo, Moves(c, pc, todo),
           banner' = banner, 
           call[c].op # "update" \/ (call[c].pc = "append" /\ pc = "insert")
    PROVE  BannerOK'
<1>1. \A d \in Call : Serving(d, "update")' => Serving(d, "update")
    BY DEF Moves, Serving, InProgress
<1>2. \A d \in Call :
              call'[d].op = "update" /\ call'[d].pc \in {"append", "insert"} => banner' = d
    BY DEF TellInv, BannerOK, Moves
<1>3. BannerTold' <=> BannerTold
    BY DEF BannerTold, Moves
<1>4. banner' # 0 => \/ banner' \in excuse' /\ call'[banner].op = "update"
                     \/ /\ call'[banner].op = "update"
                        /\ call'[banner].pc \in {"append", "insert"}
                     \/ BannerTold'
    BY <1>3 DEF TellInv, LogTypes, BannerOK, Moves
<1>. QED BY <1>1, <1>2, <1>4 DEF TellInv, BannerOK

\* The banner is written: the report is owed.
LEMMA UpdateTells ==
    ASSUME CallsOK, TellInv, NEW c \in Call, UpdateWrite(c)
    PROVE  TellInv'
<1>1. /\ call[c].op = "update" /\ call[c].pc = "write" /\ banner' = c
      /\ status' = status /\ item' = item
      /\ Moves(c, "append", call[c].todo)
    <2>1. call[c].todo \in Seq(LogRow)
        BY DEF CallsOK
    <2>2. InProgress(c) /\ Go(c, "append", call[c].todo)
          /\ rows' = rows /\ excuse' = excuse /\ overlap' = overlap
        BY DEF UpdateWrite, InProgress
    <2>3. Moves(c, "append", call[c].todo)
        BY <2>1, <2>2, GoIsMove
    <2>. QED BY <2>3 DEF UpdateWrite
<1>2. PlanOK(c)' /\ call[c].todo = ReportPlan
    BY <1>1 DEF TellInv, PlanOK, InProgress, Moves
<1>3. LogTypes'
    BY <1>1 DEF TellInv, LogTypes, Moves
<1>4. EndsOK'
    BY <1>1 DEF TellInv, EndsOK, Told, Excused, HaltOwes, CloseOwes, Moves,
           ExcusesOK
<1>5. NotesOK'
    BY <1>1 DEF TellInv, NotesOK, Told, Moves
<1>6. OneNote'
    BY <1>1 DEF TellInv, OneNote, Serving, InProgress, Told, Moves
<1>7. BannerOK'
    <2>1. \A d \in Call : Serving(d, "update")' => Serving(d, "update")
        BY <1>1 DEF Moves, Serving, InProgress
    <2>2. \A d \in Call : d # c => ~(call[d].op = "update" /\ call[d].pc \in {"append", "insert"})
        BY <1>1 DEF TellInv, BannerOK, Serving, InProgress
    <2>. QED BY <1>1, <2>1, <2>2 DEF TellInv, BannerOK, Moves
<1>8. (\A d \in Call : PlanOK(d)') /\ ExcusesOK'
    BY <1>1, <1>2, MovesKeep
<1>. QED BY <1>3, <1>4, <1>5, <1>6, <1>7, <1>8 DEF TellInv

\* The rollout is halted: the end is owed.
LEMMA HaltWriteTells ==
    ASSUME CallsOK, TellInv, NEW c \in Call, HaltWrite(c)
    PROVE  TellInv'
<1>1. /\ call[c].op = "halt" /\ call[c].pc = "write" /\ banner' = banner
      /\ status' = "halted" /\ item' = item
      /\ Moves(c, "items", call[c].todo)
    <2>1. call[c].todo \in Seq(LogRow)
        BY DEF CallsOK
    <2>2. InProgress(c) /\ Go(c, "items", call[c].todo)
          /\ rows' = rows /\ excuse' = excuse /\ overlap' = overlap
        BY DEF HaltWrite, InProgress
    <2>3. Moves(c, "items", call[c].todo)
        BY <2>1, <2>2, GoIsMove
    <2>. QED BY <2>3 DEF HaltWrite
<1>2. PlanOK(c)'
    BY <1>1 DEF TellInv, PlanOK, InProgress, Moves
<1>3. LogTypes'
    BY <1>1 DEF TellInv, LogTypes, Moves
<1>4. EndsOK'
    BY <1>1 DEF EndsOK, HaltOwes, Moves
<1>5. NotesOK'
    BY <1>1 DEF TellInv, NotesOK, Told, Moves
<1>6. OneNote'
    BY <1>1 DEF TellInv, OneNote, Serving, InProgress, Told, Moves
<1>7. BannerOK'
    BY <1>1, BannerMoves
<1>8. (\A d \in Call : PlanOK(d)') /\ ExcusesOK'
    BY <1>1, <1>2, MovesKeep
<1>. QED BY <1>3, <1>4, <1>5, <1>6, <1>7, <1>8 DEF TellInv

\* The items follow the halt.
LEMMA HaltItemsTells ==
    ASSUME CallsOK, TellInv, NEW c \in Call, HaltItems(c)
    PROVE  TellInv'
<1>1. /\ call[c].op = "halt" /\ call[c].pc = "items" /\ banner' = banner
      /\ status' = status /\ item' = IF item = "dispatched" THEN "halted" ELSE item
      /\ Moves(c, "append", call[c].todo)
    <2>1. call[c].todo \in Seq(LogRow)
        BY DEF CallsOK
    <2>2. InProgress(c) /\ Go(c, "append", call[c].todo)
          /\ rows' = rows /\ excuse' = excuse /\ overlap' = overlap
        BY DEF HaltItems, InProgress
    <2>3. Moves(c, "append", call[c].todo)
        BY <2>1, <2>2, GoIsMove
    <2>. QED BY <2>3 DEF HaltItems
<1>2. PlanOK(c)'
    BY <1>1 DEF TellInv, PlanOK, InProgress, Moves
<1>3. LogTypes'
    BY <1>1 DEF TellInv, LogTypes, Moves
<1>4. EndsOK'
    BY <1>1 DEF TellInv, EndsOK, Told, Excused, HaltOwes, CloseOwes, Moves,
           ExcusesOK
<1>5. NotesOK'
    BY <1>1 DEF TellInv, NotesOK, Told, Moves
<1>6. OneNote'
    BY <1>1 DEF TellInv, OneNote, Serving, InProgress, Told, Moves
<1>7. BannerOK'
    BY <1>1, BannerMoves
<1>8. (\A d \in Call : PlanOK(d)') /\ ExcusesOK'
    BY <1>1, <1>2, MovesKeep
<1>. QED BY <1>3, <1>4, <1>5, <1>6, <1>7, <1>8 DEF TellInv

\* The item is completed: its note is owed.
LEMMA CompleteWriteTells ==
    ASSUME CallsOK, TellInv, NEW c \in Call, CompleteWrite(c)
    PROVE  TellInv'
<1>1. /\ call[c].op = "complete" /\ call[c].pc = "write" /\ banner' = banner
      /\ status' = status /\ item' = "completed"
      /\ Moves(c, "close", call[c].todo)
    <2>1. call[c].todo \in Seq(LogRow)
        BY DEF CallsOK
    <2>2. InProgress(c) /\ Go(c, "close", call[c].todo)
          /\ rows' = rows /\ excuse' = excuse /\ overlap' = overlap
        BY DEF CompleteWrite, InProgress
    <2>3. Moves(c, "close", call[c].todo)
        BY <2>1, <2>2, GoIsMove
    <2>. QED BY <2>3 DEF CompleteWrite
<1>2. PlanOK(c)'
    BY <1>1 DEF TellInv, PlanOK, InProgress, Moves
<1>3. LogTypes'
    BY <1>1 DEF TellInv, LogTypes, Moves
<1>4. EndsOK'
    BY <1>1 DEF TellInv, EndsOK, Told, Excused, HaltOwes, CloseOwes, Moves,
           ExcusesOK
<1>5. NotesOK'
    BY <1>1 DEF TellInv, NotesOK, Told, Moves
<1>6. OneNote'
    BY <1>1 DEF TellInv, OneNote, Serving, InProgress, Told, Moves
<1>7. BannerOK'
    BY <1>1, BannerMoves
<1>8. (\A d \in Call : PlanOK(d)') /\ ExcusesOK'
    BY <1>1, <1>2, MovesKeep
<1>. QED BY <1>3, <1>4, <1>5, <1>6, <1>7, <1>8 DEF TellInv

\* The rollout is closed: the end is owed.
LEMMA CompleteCloseTells ==
    ASSUME CallsOK, TellInv, NEW c \in Call, CompleteClose(c)
    PROVE  TellInv'
<1>1. /\ call[c].op = "complete" /\ call[c].pc = "close" /\ banner' = banner
      /\ status' = "completed" /\ item' = item
      /\ Moves(c, "append", call[c].todo)
    <2>1. call[c].todo \in Seq(LogRow)
        BY DEF CallsOK
    <2>2. InProgress(c) /\ Go(c, "append", call[c].todo)
          /\ rows' = rows /\ excuse' = excuse /\ overlap' = overlap
        BY DEF CompleteClose, InProgress
    <2>3. Moves(c, "append", call[c].todo)
        BY <2>1, <2>2, GoIsMove
    <2>. QED BY <2>3 DEF CompleteClose
<1>2. PlanOK(c)' /\ call[c].todo \in {FullPlan, HealPlan} /\ call[c].todo # ClosePlan
    <2>1. call[c].todo \in {FullPlan, HealPlan}
        BY <1>1 DEF TellInv, PlanOK, InProgress, Moves
    <2>. QED BY <1>1, <2>1, PlanFacts DEF PlanOK, InProgress, Moves
<1>3. LogTypes'
    BY <1>1 DEF TellInv, LogTypes, Moves
<1>4. EndsOK'
    BY <1>1, <1>2 DEF EndsOK, CloseOwes, Moves
<1>5. NotesOK'
    BY <1>1, <1>2 DEF TellInv, NotesOK, Told, Moves
<1>6. OneNote'
    BY <1>1 DEF TellInv, OneNote, Serving, InProgress, Told, Moves
<1>7. BannerOK'
    BY <1>1, BannerMoves
<1>8. (\A d \in Call : PlanOK(d)') /\ ExcusesOK'
    BY <1>1, <1>2, MovesKeep
<1>. QED BY <1>3, <1>4, <1>5, <1>6, <1>7, <1>8 DEF TellInv

\* The note is looked for and found, or is to be appended.
LEMMA FindNoteTells ==
    ASSUME CallsOK, TellInv, NEW c \in Call, FindNote(c)
    PROVE  TellInv'
<1>1. call[c].op = "complete" /\ call[c].pc = "append" /\ call[c].todo = CheckPlan
    BY PlanFacts DEF FindNote, TellInv, PlanOK, InProgress, NoteCheck
<1>2. PICK pc \in {"ok", "append"}, todo \in {<<>>, LastPlan} :
        /\ Moves(c, pc, todo)
        /\ IF Told("merge_note") THEN pc = "ok" /\ todo = <<>> ELSE pc = "append" /\ todo = LastPlan
    <2>1. <<>> \in Seq(LogRow) /\ LastPlan \in Seq(LogRow) /\ LastPlan # <<>>
        BY PlanFacts DEF Plans
    <2>2. CASE Told("merge_note")
        <3>1. Go(c, "ok", <<>>)
            BY <2>2 DEF FindNote, Done, Told
        <3>2. InProgress(c)
              /\ rows' = rows /\ excuse' = excuse /\ overlap' = overlap
            BY <1>1 DEF FindNote, InProgress
        <3>3. Moves(c, "ok", <<>>)
            BY <2>1, <3>1, <3>2, GoIsMove
        <3>. QED BY <2>2, <3>3
    <2>3. CASE ~Told("merge_note")
        <3>1. Go(c, "append", LastPlan)
            BY <2>1, <2>3 DEF FindNote, Done, Told, LastPlan
        <3>2. InProgress(c)
              /\ rows' = rows /\ excuse' = excuse /\ overlap' = overlap
            BY <1>1 DEF FindNote, InProgress
        <3>3. Moves(c, "append", LastPlan)
            BY <2>1, <3>1, <3>2, GoIsMove
        <3>. QED BY <2>3, <3>3
    <2>. QED BY <2>2, <2>3
<1>3. banner' = banner /\ status' = status /\ item' = item
    BY DEF FindNote
<1>4. LastPlan # ClosePlan /\ LastPlan # HealPlan /\ CheckPlan # ClosePlan /\ CheckPlan # HealPlan
      /\ CheckPlan # FullPlan /\ CheckPlan # NotePlan /\ <<>> # LastPlan
    BY PlanFacts DEF NoteCheck, Plans
<1>5. PlanOK(c)'
    BY <1>1, <1>2 DEF PlanOK, InProgress, Moves
<1>6. LogTypes'
    BY <1>2, <1>3 DEF TellInv, LogTypes, Moves
<1>7. EndsOK'
    BY <1>1, <1>2, <1>3, <1>4 DEF TellInv, EndsOK, Told, Excused, HaltOwes, CloseOwes, Moves,
           ExcusesOK
<1>8. NotesOK'
    BY <1>1, <1>2, <1>3, <1>4 DEF TellInv, NotesOK, Told, Moves
<1>9. OneNote'
    BY <1>1, <1>2, <1>3, <1>4 DEF TellInv, OneNote, Serving, InProgress, Told, Moves
<1>10. BannerOK'
    BY <1>1, <1>2, <1>3, BannerMoves
<1>11. (\A d \in Call : PlanOK(d)') /\ ExcusesOK'
    BY <1>2, <1>5, MovesKeep
<1>. QED BY <1>6, <1>7, <1>8, <1>9, <1>10, <1>11 DEF TellInv

\* A number that is read is nobody's.
LEMMA ReadSeqTells ==
    ASSUME CallsOK, Numbered(rows), TellInv, NEW c \in Call, ReadSeq(c)
    PROVE  TellInv'
<1>1. /\ call[c].pc = "append" /\ Head(call[c].todo) # NoteCheck
      /\ call' = [call EXCEPT ![c].pc = "insert", ![c].seq = NextSeq]
      /\ rows' = rows /\ excuse' = excuse /\ overlap' = overlap
      /\ banner' = banner /\ status' = status /\ item' = item
    BY DEF ReadSeq
<1>2. NextSeq \in Nat /\ ~Taken(NextSeq)
    <2>1. Cardinality(rows) \in Nat /\ NextSeq = Cardinality(rows) + 1
        BY NextIsCount
    <2>2. \A r \in rows : r.seq \in 1 .. Cardinality(rows)
        BY DEF Numbered
    <2>. QED BY <2>1, <2>2 DEF Taken
<1>3. call[c] \in [op : Op \cup {Nil},
                   pc : {"new", "write", "items", "close", "append",
                         "insert", "ok", "raised", "dead"},
                   todo : Seq(LogRow), seq : Nat]
    BY DEF CallsOK
<1>4. /\ call'[c].op = call[c].op /\ call'[c].pc = "insert" /\ call'[c].todo = call[c].todo
      /\ call'[c].seq = NextSeq
      /\ \A d \in Call : d # c => call'[d] = call[d]
    BY <1>1, <1>2, <1>3 DEF CallsOK
<1>5. Moves(c, "insert", call[c].todo)
    BY <1>1, <1>4 DEF Moves, InProgress
<1>6. \A d \in Call : PlanOK(d)'
    <2>1. PlanOK(c)'
        BY <1>1, <1>4, PlanFacts DEF TellInv, PlanOK, InProgress
    <2>2. ASSUME NEW d \in Call, d # c PROVE PlanOK(d)'
        BY <1>4, <2>2 DEF TellInv, PlanOK, InProgress
    <2>. QED BY <2>1, <2>2
<1>7. LogTypes'
    BY <1>1 DEF TellInv, LogTypes
<1>8. ExcusesOK'
    BY <1>1, <1>2, <1>4 DEF TellInv, ExcusesOK, Taken
<1>9. EndsOK'
    BY <1>1, <1>5 DEF TellInv, EndsOK, Told, Excused, HaltOwes, CloseOwes, Moves,
           ExcusesOK
<1>10. NotesOK'
    BY <1>1, <1>4 DEF TellInv, NotesOK, Told
<1>11. OneNote'
    <2>1. \A d \in Call : /\ Serving(d, "complete")' <=> Serving(d, "complete")
                          /\ call'[d].todo = call[d].todo
        BY <1>1, <1>5 DEF Serving, InProgress, Moves
    <2>2. Told("merge_note")' <=> Told("merge_note")
        BY <1>1 DEF Told
    <2>. QED BY <1>1, <2>1, <2>2 DEF TellInv, OneNote
<1>12. BannerOK'
    BY <1>1, <1>5, BannerMoves
<1>. QED BY <1>6, <1>7, <1>8, <1>9, <1>10, <1>11, <1>12 DEF TellInv

\* Who is refused lost the number to another.
LEMMA RefusedTells ==
    ASSUME CallsOK, TellInv, NEW c \in Call, RowIsRefused(c)
    PROVE  TellInv'
<1>1. /\ call[c].pc = "insert" /\ c \in excuse
      /\ banner' = banner /\ status' = status /\ item' = item
    BY DEF RowIsRefused, TellInv, ExcusesOK
<1>2. Moves(c, "raised", call[c].todo)
    <2>1. call[c].todo \in Seq(LogRow)
        BY DEF CallsOK
    <2>2. InProgress(c) /\ rows' = rows /\ excuse' = excuse /\ overlap' = overlap
          /\ call' = [call EXCEPT ![c].pc = "raised"]
        BY <1>1 DEF RowIsRefused, InProgress
    <2>3. Go(c, "raised", call[c].todo)
        BY <2>2 DEF Go, CallsOK
    <2>. QED BY <2>1, <2>2, <2>3, GoIsMove
<1>3. PlanOK(c)'
    BY <1>2 DEF PlanOK, InProgress, Moves
<1>4. LogTypes'
    BY <1>1, <1>2 DEF TellInv, LogTypes, Moves
<1>5. EndsOK'
    BY <1>1, <1>2 DEF TellInv, EndsOK, Told, Excused, HaltOwes, CloseOwes, Moves,
           ExcusesOK
<1>6. NotesOK'
    BY <1>1, <1>2 DEF TellInv, NotesOK, Told, Moves
<1>7. OneNote'
    BY <1>1, <1>2 DEF TellInv, OneNote, Serving, InProgress, Told, Moves
<1>8. BannerOK'
    <2>1. \A d \in Call : Serving(d, "update")' => Serving(d, "update")
        BY <1>1, <1>2 DEF Moves, Serving, InProgress
    <2>2. BannerTold' <=> BannerTold
        BY <1>1, <1>2 DEF BannerTold, Moves
    <2>3. \A d \in Call : call'[d].op = "update" /\ call'[d].pc \in {"append", "insert"}
              => banner' = d
        BY <1>1, <1>2 DEF TellInv, BannerOK, Moves
    <2>4. banner' # 0 => \/ banner' \in excuse' /\ call'[banner].op = "update"
                         \/ /\ call'[banner].op = "update"
                            /\ call'[banner].pc \in {"append", "insert"}
                         \/ BannerTold'
        BY <1>1, <1>2, <2>2 DEF TellInv, LogTypes, BannerOK, Moves
    <2>. QED BY <1>1, <2>1, <2>3, <2>4 DEF TellInv, BannerOK
<1>9. (\A d \in Call : PlanOK(d)') /\ ExcusesOK'
    BY <1>2, <1>3, MovesKeep
<1>. QED BY <1>4, <1>5, <1>6, <1>7, <1>8, <1>9 DEF TellInv

\* What an INSERT does: the new row is the latest.
LEMMA InsertIs ==
    ASSUME CallsOK, Numbered(rows), ReadsAreOld, PubOK, StreamRest, TellInv,
           NEW c \in Call, Insert(c)
    PROVE  \E r \in [seq : Nat \ {0}, kind : RowKind, by : Call, event : Id \cup {Nil}],
              pc \in {"ok", "append"}, todo \in Seq(LogRow) :
           /\ r.kind = Head(call[c].todo) /\ r.by = c /\ r.seq = call[c].seq
           /\ rows' = rows \cup {r} /\ \A q \in rows : q.seq < r.seq
           /\ todo = Tail(call[c].todo)
           /\ pc = IF todo = <<>> THEN "ok" ELSE "append"
           /\ call'[c].op = call[c].op /\ call'[c].pc = pc /\ call'[c].todo = todo
           /\ \A d \in Call : d # c => call'[d] = call[d]
<1> DEFINE r == [seq |-> call[c].seq, kind |-> Head(call[c].todo), by |-> c,
                 event |-> IF MoreEvents THEN Len(event) + 1 ELSE Nil]
<1>1. /\ call[c].pc = "insert" /\ rows' = rows \cup {r} /\ Done(c, Tail(call[c].todo))
    BY DEF Insert
<1>2. /\ call[c].todo \in Seq(LogRow) /\ call[c].todo # <<>> /\ call[c].seq \in Nat
    BY <1>1 DEF CallsOK, InProgress
<1>3. Head(call[c].todo) \in RowKind /\ Tail(call[c].todo) \in Seq(LogRow)
    <2>1. Head(call[c].todo) \in LogRow /\ Tail(call[c].todo) \in Seq(LogRow)
        BY <1>2
    <2>2. Head(call[c].todo) # NoteCheck
        BY <1>1, PlanFacts DEF TellInv, PlanOK, InProgress, NoteCheck
    <2>. QED BY <2>1, <2>2 DEF LogRow
<1>4. r.event \in Id \cup {Nil}
    <2>1. MoreEvents => Len(event) + 1 \in Id
        <3>1. ASSUME MoreEvents PROVE Len(event) + 1 \in Id
            <4>1. bounds.events \in 0 .. MaxEvents /\ Len(event) \in Nat
                  /\ Len(event) < bounds.events
                BY <3>1, StreamAssumption DEF MoreEvents, StreamRest, PubOK, Mix
            <4>. QED BY <4>1, StreamAssumption DEF Id
        <3>. QED BY <3>1
    <2>. QED BY <2>1
<1>5. call[c].seq # 0 /\ \A q \in rows : q.seq < call[c].seq
    <2>1. Cardinality(rows) \in Nat
        BY NextIsCount
    <2>2. call[c].seq \in 1 .. (Cardinality(rows) + 1) /\ ~Taken(call[c].seq)
        BY <1>1 DEF ReadsAreOld, Insert
    <2>3. \A q \in rows : q.seq \in 1 .. Cardinality(rows)
        BY DEF Numbered
    <2>4. \A n \in 1 .. Cardinality(rows) : \E q \in rows : q.seq = n
        BY DEF Numbered
    <2>5. call[c].seq = Cardinality(rows) + 1
        BY <2>1, <2>2, <2>4 DEF Taken
    <2>. QED BY <2>1, <2>3, <2>5
<1>6. r \in [seq : Nat \ {0}, kind : RowKind, by : Call, event : Id \cup {Nil}]
    BY <1>2, <1>3, <1>4, <1>5
<1>7. r.kind = Head(call[c].todo) /\ r.by = c /\ r.seq = call[c].seq
    OBVIOUS
<1>. HIDE DEF r
<1>8. PICK todo \in Seq(LogRow) : todo = Tail(call[c].todo)
    BY <1>3
<1>9. CASE todo = <<>>
    <2>1. Go(c, "ok", todo)
        BY <1>1, <1>8, <1>9 DEF Done
    <2>2. /\ call'[c].op = call[c].op /\ call'[c].pc = "ok" /\ call'[c].todo = todo
          /\ \A d \in Call : d # c => call'[d] = call[d]
        BY <2>1, GoMoves
    <2>. QED BY <1>1, <1>5, <1>6, <1>7, <1>8, <1>9, <2>2
<1>10. CASE todo # <<>>
    <2>1. Go(c, "append", todo)
        BY <1>1, <1>8, <1>10 DEF Done
    <2>2. /\ call'[c].op = call[c].op /\ call'[c].pc = "append" /\ call'[c].todo = todo
          /\ \A d \in Call : d # c => call'[d] = call[d]
        BY <2>1, GoMoves
    <2>. QED BY <1>1, <1>5, <1>6, <1>7, <1>8, <1>10, <2>2
<1>. QED BY <1>9, <1>10

\* Request c has appended its next row, the latest, and goes on with todo.
Appends(c, r, pc, todo) ==
    /\ call[c].pc = "insert" /\ call[c].todo # <<>>
    /\ r.kind = Head(call[c].todo) /\ r.by = c /\ r.seq = call[c].seq
    /\ rows' = rows \cup {r} /\ \A q \in rows : q.seq < r.seq
    /\ todo = Tail(call[c].todo)
    /\ pc = IF todo = <<>> THEN "ok" ELSE "append"
    /\ call'[c].op = call[c].op /\ call'[c].pc = pc /\ call'[c].todo = todo
    /\ \A d \in Call : d # c => call'[d] = call[d]
    /\ excuse' = excuse \cup {d \in Call : /\ call[d].pc = "insert"
                                           /\ call[d].seq = call[c].seq
                                           /\ d # c}
    /\ status' = status /\ banner' = banner /\ item' = item /\ overlap' = overlap

\* The row and the rest, plan by plan.
InsertCases(c, r, pc, todo) ==
    \/ /\ call[c].op = "update" /\ r.kind = "manager_state_update"
       /\ call[c].todo = ReportPlan /\ pc = "ok" /\ todo = <<>>
    \/ /\ call[c].op = "answer" /\ r.kind = "comment_posted"
       /\ call[c].todo = AnswerPlan /\ pc = "ok" /\ todo = <<>>
    \/ /\ call[c].op = "halt"
       /\ \/ /\ call[c].todo = HaltPlan /\ r.kind = "comment_posted"
             /\ pc = "append" /\ todo = ToldPlan
          \/ /\ call[c].todo = ToldPlan /\ r.kind = "wave_halted"
             /\ pc = "ok" /\ todo = <<>>
    \/ /\ call[c].op = "complete"
       /\ \/ /\ call[c].todo = FullPlan /\ r.kind = "item_outcome"
             /\ pc = "append" /\ todo = NotePlan
          \/ /\ call[c].todo = NotePlan /\ r.kind = "merge_note"
             /\ pc = "append" /\ todo = ClosePlan
          \/ /\ call[c].todo = ClosePlan /\ r.kind = "wave_completed"
             /\ pc = "ok" /\ todo = <<>>
          \/ /\ call[c].todo = HealPlan /\ r.kind = "wave_completed"
             /\ pc = "append" /\ todo = CheckPlan
          \/ /\ call[c].todo = LastPlan /\ r.kind = "merge_note"
             /\ pc = "ok" /\ todo = <<>>

\* The row that is appended is the next of the plan.
LEMMA InsertPlans ==
    ASSUME TellInv, NEW c \in Call, NEW r, NEW pc, NEW todo, Appends(c, r, pc, todo)
    PROVE  InsertCases(c, r, pc, todo)
<1>1. InProgress(c) /\ PlanOK(c)
    BY DEF Appends, InProgress, TellInv
<1>2. /\ ToldPlan # <<>> /\ NotePlan # <<>> /\ ClosePlan # <<>> /\ CheckPlan # <<>>
    BY PlanFacts DEF Plans
<1>3. CASE call[c].op = "update"
    BY <1>1, <1>3, PlanFacts DEF Appends, PlanOK, InsertCases
<1>4. CASE call[c].op = "answer"
    BY <1>1, <1>4, PlanFacts DEF Appends, PlanOK, InsertCases
<1>5. CASE call[c].op = "halt"
    BY <1>1, <1>2, <1>5, PlanFacts DEF Appends, PlanOK, InsertCases
<1>6. CASE call[c].op = "complete"
    <2>1. call[c].todo \in {FullPlan, HealPlan, NotePlan, ClosePlan, LastPlan}
        BY <1>1, <1>6 DEF Appends, PlanOK
    <2>. QED BY <1>2, <1>6, <2>1, PlanFacts DEF Appends, InsertCases
<1>. QED BY <1>1, <1>3, <1>4, <1>5, <1>6 DEF PlanOK

\* The plans that are told apart below.
LEMMA PlansDiffer ==
    /\ ClosePlan \notin {FullPlan, NotePlan, LastPlan, CheckPlan, HealPlan, <<>>}
    /\ CheckPlan \notin {FullPlan, NotePlan, LastPlan, ClosePlan, HealPlan, <<>>}
    /\ <<>> \notin {FullPlan, NotePlan, LastPlan, ClosePlan, HealPlan}
    /\ HealPlan \notin {FullPlan, NotePlan, LastPlan}
    /\ LastPlan \notin {FullPlan, NotePlan}
    /\ HaltPlan # ToldPlan
<1>1. /\ Head(ClosePlan) = "wave_completed" /\ Head(FullPlan) = "item_outcome"
      /\ Head(NotePlan) = "merge_note" /\ Head(LastPlan) = "merge_note"
      /\ Head(CheckPlan) = "merge_note?" /\ Head(HealPlan) = "wave_completed"
      /\ Head(HaltPlan) = "comment_posted" /\ Head(ToldPlan) = "wave_halted"
    BY PlanFacts DEF NoteCheck
<1>2. ClosePlan # HealPlan /\ LastPlan # NotePlan
    BY PlanFacts
<1>3. /\ <<>> # FullPlan /\ <<>> # NotePlan /\ <<>> # LastPlan /\ <<>> # ClosePlan
      /\ <<>> # HealPlan /\ <<>> # CheckPlan
    BY PlanFacts DEF Plans
<1>. QED BY <1>1, <1>2, <1>3

\* A row that is appended tells what was owed, and excuses who lost the number.
LEMMA AppendTells ==
    ASSUME TellInv, NEW c \in Call,
           NEW r \in [seq : Nat \ {0}, kind : RowKind, by : Call, event : Id \cup {Nil}],
           NEW pc, NEW todo, Appends(c, r, pc, todo)
    PROVE  TellInv'
<1>1. InsertCases(c, r, pc, todo)
    BY InsertPlans
<1>2. \A k \in RowKind : Told(k)' <=> Told(k) \/ r.kind = k
    BY DEF Told, Appends
<1>3. LogTypes'
    BY DEF TellInv, LogTypes, Appends
<1>4. \A d \in Call : PlanOK(d)'
    <2>1. PlanOK(c)'
        BY <1>1 DEF Appends, InsertCases, PlanOK, InProgress
    <2>2. ASSUME NEW d \in Call, d # c PROVE PlanOK(d)'
        <3>1. call'[d] = call[d] /\ PlanOK(d)
            BY <2>2 DEF TellInv, Appends
        <3>. QED BY <3>1 DEF PlanOK, InProgress
    <2>. QED BY <2>1, <2>2
<1>5. ExcusesOK'
    <2>1. excuse' \subseteq {d \in Call : call'[d].pc # "new"}
        BY DEF TellInv, ExcusesOK, Appends
    <2>2. ASSUME NEW d \in Call, call'[d].pc = "insert", Taken(call[d].seq)' PROVE d \in excuse'
        <3>1. d # c /\ call'[d] = call[d]
            BY <2>2 DEF Appends
        <3>2. CASE Taken(call[d].seq)
            BY <2>2, <3>1, <3>2 DEF TellInv, ExcusesOK, Appends
        <3>3. CASE ~Taken(call[d].seq)
            <4>1. r.seq = call[d].seq
                BY <2>2, <3>3 DEF Taken, Appends
            <4>. QED BY <2>2, <3>1, <4>1 DEF Appends
        <3>. QED BY <3>2, <3>3
    <2>3. \A d \in Call : call'[d].pc = "insert" => call'[d] = call[d]
        BY DEF Appends
    <2>4. ASSUME NEW d \in Call, call'[d].pc = "insert", Taken(call[d].seq)'
          PROVE  d \in excuse'
        BY <2>2, <2>4
    <2>. QED BY <2>1, <2>3, <2>4 DEF ExcusesOK, Taken
<1>6. EndsOK'
    <2>1. Excused("halt") => Excused("halt")'
        BY DEF Excused, Appends, TellInv, ExcusesOK
    <2>2. Excused("complete") => Excused("complete")'
        BY DEF Excused, Appends, TellInv, ExcusesOK
    <2>3. HaltOwes => HaltOwes' \/ r.kind = "wave_halted"
        BY <1>1, PlansDiffer DEF HaltOwes, Appends, InsertCases
    <2>4. CloseOwes => CloseOwes' \/ r.kind = "wave_completed"
        <3>1. ASSUME NEW d \in Call, call[d].op = "complete", call[d].pc \in {"append", "insert"},
                     call[d].todo \in {FullPlan, NotePlan, ClosePlan, HealPlan},
                     r.kind # "wave_completed"
              PROVE  CloseOwes'
            <4>1. CASE d # c
                <5>1. call'[d] = call[d]
                    BY <4>1 DEF Appends
                <5>. QED BY <3>1, <5>1 DEF CloseOwes
            <4>2. CASE d = c
                <5>1. \/ call[c].todo = FullPlan /\ pc = "append" /\ todo = NotePlan
                      \/ call[c].todo = NotePlan /\ pc = "append" /\ todo = ClosePlan
                    BY <1>1, <3>1, <4>2, PlansDiffer DEF InsertCases
                <5>2. call'[c].op = "complete" /\ call'[c].pc = pc /\ call'[c].todo = todo
                    BY <3>1, <4>2 DEF Appends
                <5>. QED BY <5>1, <5>2 DEF CloseOwes
            <4>. QED BY <4>1, <4>2
        <3>. QED BY <3>1 DEF CloseOwes
    <2>5. /\ Told("wave_halted")' <=> Told("wave_halted") \/ r.kind = "wave_halted"
          /\ Told("wave_completed")' <=> Told("wave_completed") \/ r.kind = "wave_completed"
        BY <1>2 DEF RowKind
    <2>. QED BY <2>1, <2>2, <2>3, <2>4, <2>5 DEF EndsOK, TellInv, Appends
<1>7. Told("merge_note")' <=> Told("merge_note") \/ r.kind = "merge_note"
    BY <1>2 DEF RowKind
<1>8. NotesOK'
    <2>1. ASSUME NEW d \in Call, call'[d].op = "complete",
                 \/ call'[d].pc = "ok"
                 \/ call'[d].pc \in {"append", "insert"} /\ call'[d].todo = ClosePlan
          PROVE  Told("merge_note")'
        <3>1. CASE d # c
            BY <1>7, <2>1, <3>1 DEF TellInv, NotesOK, Appends
        <3>2. CASE d = c
            BY <1>1, <1>7, <2>1, <3>2, PlansDiffer DEF TellInv, NotesOK, Appends, InsertCases
        <3>. QED BY <3>1, <3>2
    <2>2. Told("merge_note")' => item' = "completed"
        BY <1>1, <1>7 DEF TellInv, NotesOK, Appends, InsertCases
    <2>3. \A d \in Call : call'[d].op = "complete" /\ call'[d].pc \in {"close", "append", "insert"}
                              => item' = "completed"
        BY DEF TellInv, NotesOK, Appends
    <2>. QED BY <2>1, <2>2, <2>3 DEF NotesOK
<1>9. OneNote'
    <2> SUFFICES ASSUME ~overlap' PROVE
            /\ \A a, b \in Call : Serving(a, "complete")' /\ Serving(b, "complete")' => a = b
            /\ \A x, q \in rows' : x.kind = "merge_note" /\ q.kind = "merge_note" => x = q
            /\ \A a \in Call :
                   Serving(a, "complete")' /\ call'[a].todo \in {FullPlan, NotePlan, LastPlan}
                       => ~Told("merge_note")'
        BY DEF OneNote
    <2>1. /\ ~overlap
          /\ \A a, b \in Call : Serving(a, "complete") /\ Serving(b, "complete") => a = b
          /\ \A x, q \in rows : x.kind = "merge_note" /\ q.kind = "merge_note" => x = q
          /\ \A a \in Call :
                 Serving(a, "complete") /\ call[a].todo \in {FullPlan, NotePlan, LastPlan}
                     => ~Told("merge_note")
        BY DEF TellInv, OneNote, Appends
    <2>2. \A a \in Call : Serving(a, "complete")' => Serving(a, "complete")
        BY DEF Serving, InProgress, Appends
    <2>3. r.kind = "merge_note" =>
              /\ Serving(c, "complete") /\ call[c].todo \in {NotePlan, LastPlan}
              /\ ~Told("merge_note")
        BY <1>1, <2>1 DEF InsertCases, Serving, InProgress, Appends
    <2>4. \A x, q \in rows' : x.kind = "merge_note" /\ q.kind = "merge_note" => x = q
        BY <2>1, <2>3 DEF Told, Appends
    <2>5. ASSUME NEW a \in Call, Serving(a, "complete")',
                 call'[a].todo \in {FullPlan, NotePlan, LastPlan}
          PROVE  ~Told("merge_note")'
        <3>1. CASE a # c
            <4>1. ~Told("merge_note") /\ r.kind # "merge_note"
                BY <2>1, <2>2, <2>3, <2>5, <3>1 DEF Appends
            <4>. QED BY <1>7, <4>1
        <3>2. CASE a = c
            <4>1. /\ call[c].todo = FullPlan /\ r.kind = "item_outcome" /\ Serving(c, "complete")
                BY <1>1, <2>2, <2>5, <3>2, PlansDiffer DEF Appends, InsertCases, Serving, InProgress
            <4>2. ~Told("merge_note")
                BY <2>1, <4>1
            <4>. QED BY <1>7, <4>1, <4>2
        <3>. QED BY <3>1, <3>2
    <2>6. \A a, b \in Call : Serving(a, "complete")' /\ Serving(b, "complete")' => a = b
        BY <2>1, <2>2
    <2>. QED BY <2>4, <2>5, <2>6
<1>10. BannerOK'
    <2>1. \A d \in Call : Serving(d, "update")' => Serving(d, "update")
        BY DEF Serving, InProgress, Appends
    <2>2. \A d \in Call :
              call'[d].op = "update" /\ call'[d].pc \in {"append", "insert"} => banner' = d
        BY DEF TellInv, BannerOK, Appends
    <2>3. ASSUME r.kind = "manager_state_update" PROVE BannerTold'
        <3>1. call[c].op = "update"
            BY <1>1, <2>3 DEF InsertCases
        <3>2. banner = c
            BY <3>1 DEF TellInv, BannerOK, Appends
        <3>3. \A q \in rows : q.seq <= r.seq
            BY DEF TellInv, LogTypes, Appends
        <3>4. r.seq <= r.seq
            OBVIOUS
        <3>. QED BY <2>3, <3>2, <3>3, <3>4 DEF BannerTold, Appends
    <2>4. ASSUME r.kind # "manager_state_update", BannerTold PROVE BannerTold'
        BY <2>4 DEF BannerTold, Appends
    <2>5. ASSUME banner # 0, banner \in excuse, call[banner].op = "update"
          PROVE  banner' \in excuse' /\ call'[banner].op = "update"
        BY <2>5 DEF Appends, TellInv, LogTypes
    <2>6. ASSUME banner # 0, call[banner].op = "update", call[banner].pc \in {"append", "insert"},
                 r.kind # "manager_state_update"
          PROVE  /\ call'[banner].op = "update" /\ call'[banner].pc \in {"append", "insert"}
        <3>1. banner # c
            BY <1>1, <2>6 DEF InsertCases
        <3>. QED BY <2>6, <3>1 DEF Appends, TellInv, LogTypes
    <2>7. banner' # 0 => \/ banner' \in excuse' /\ call'[banner].op = "update"
                         \/ /\ call'[banner].op = "update"
                            /\ call'[banner].pc \in {"append", "insert"}
                         \/ BannerTold'
        BY <2>3, <2>4, <2>5, <2>6 DEF TellInv, BannerOK, Appends
    <2>8. banner' = banner
        BY DEF Appends
    <2>. QED BY <2>1, <2>2, <2>7, <2>8 DEF TellInv, BannerOK
<1>. QED BY <1>3, <1>4, <1>5, <1>6, <1>8, <1>9, <1>10 DEF TellInv

\* So does every INSERT.
LEMMA InsertTells ==
    ASSUME CallsOK, Numbered(rows), ReadsAreOld, PubOK, StreamRest, TellInv,
           NEW c \in Call, Insert(c)
    PROVE  TellInv'
<1>1. PICK r \in [seq : Nat \ {0}, kind : RowKind, by : Call, event : Id \cup {Nil}],
           pc \in {"ok", "append"}, todo \in Seq(LogRow) :
           /\ r.kind = Head(call[c].todo) /\ r.by = c /\ r.seq = call[c].seq
           /\ rows' = rows \cup {r} /\ \A q \in rows : q.seq < r.seq
           /\ todo = Tail(call[c].todo)
           /\ pc = IF todo = <<>> THEN "ok" ELSE "append"
           /\ call'[c].op = call[c].op /\ call'[c].pc = pc /\ call'[c].todo = todo
           /\ \A d \in Call : d # c => call'[d] = call[d]
    BY InsertIs
<1>2. call[c].pc = "insert" /\ call[c].todo # <<>>
    BY DEF Insert, CallsOK, InProgress
<1>3. Appends(c, r, pc, todo)
    BY <1>1, <1>2 DEF Insert, Appends
<1>. QED BY <1>3, AppendTells

\* Request c is made: how it is admitted and what it plans.
Asks(c, op, pc, todo) ==
    /\ call[c].pc = "new" /\ op \in Op
    /\ call'[c].op = op /\ call'[c].pc = pc /\ call'[c].todo = todo
    /\ \A d \in Call : d # c => call'[d] = call[d]
    /\ op = "update" => Quiet("update")
    /\ overlap' = (overlap \/ (op = "complete" /\ ~Quiet("complete")))
    /\ status' = status /\ banner' = banner /\ item' = item /\ rows' = rows /\ excuse' = excuse

AskCases(op, pc, todo) ==
    \/ pc = "raised"
    \/ op = "update" /\ pc = "write" /\ todo = ReportPlan
    \/ op = "answer" /\ pc = "append" /\ todo = AnswerPlan
    \/ op = "halt" /\ pc = "write" /\ todo = HaltPlan
    \/ op = "complete" /\ pc = "write" /\ todo = FullPlan /\ item # "completed"
    \/ op = "complete" /\ pc = "close" /\ todo = HealPlan /\ item = "completed"
    \/ op = "complete" /\ pc = "append" /\ todo = CheckPlan /\ item = "completed"

\* What is asked is one of these.
LEMMA AskIs ==
    ASSUME BoundsOK, CallsOK, NEW c \in Call, Ask(c)
    PROVE  \E op \in Op : \E pc, todo : Asks(c, op, pc, todo) /\ AskCases(op, pc, todo)
<1> DEFINE Pc(op) == IF ~Admitted(op) THEN "raised"
                     ELSE IF op = "answer" THEN "append"
                     ELSE IF Repeats(op) THEN HealPc ELSE "write"
           Todo(op) == IF ~Admitted(op) THEN <<>>
                       ELSE IF Repeats(op) THEN Heal ELSE RowsOf(op)
<1>1. PICK op \in bounds.ops :
        /\ op = "update" => Quiet("update")
        /\ call' = [call EXCEPT ![c] =
                  [op |-> op, seq |-> 0, pc |-> Pc(op), todo |-> Todo(op)]]
        /\ overlap' = (overlap \/ (op = "complete" /\ ~Quiet("complete")))
    BY DEF Ask
<1>2. op \in Op
    BY <1>1, StreamAssumption DEF BoundsOK, Mix, Op
<1>3. AskCases(op, Pc(op), Todo(op))
    <2>1. CASE ~Admitted(op)
        BY <2>1 DEF AskCases
    <2>2. CASE Admitted(op) /\ Repeats(op)
        BY <2>2 DEF AskCases, Repeats, Heal, HealPc, HealPlan, CheckPlan
    <2>3. CASE Admitted(op) /\ ~Repeats(op) /\ op = "update"
        BY <2>3 DEF AskCases, RowsOf, ReportPlan
    <2>4. CASE Admitted(op) /\ ~Repeats(op) /\ op = "answer"
        BY <2>4 DEF AskCases, RowsOf, AnswerPlan
    <2>5. CASE Admitted(op) /\ ~Repeats(op) /\ op = "halt"
        BY <2>5 DEF AskCases, RowsOf, HaltPlan
    <2>6. CASE Admitted(op) /\ ~Repeats(op) /\ op = "complete"
        BY <2>6 DEF AskCases, RowsOf, FullPlan, Repeats
    <2>. QED BY <1>2, <2>1, <2>2, <2>3, <2>4, <2>5, <2>6 DEF Op
<1>. HIDE DEF Pc, Todo
<1>4. /\ call'[c].op = op /\ call'[c].pc = Pc(op) /\ call'[c].todo = Todo(op)
      /\ \A d \in Call : d # c => call'[d] = call[d]
    BY <1>1 DEF CallsOK
<1>5. Asks(c, op, Pc(op), Todo(op))
    BY <1>1, <1>2, <1>4 DEF Asks, Ask
<1>. QED BY <1>2, <1>3, <1>5

\* A request that begins owes nothing.
LEMMA AskTells ==
    ASSUME BoundsOK, CallsOK, TellInv, NEW c \in Call, Ask(c)
    PROVE  TellInv'
<1>0. PICK op \in Op : \E pc, todo : Asks(c, op, pc, todo) /\ AskCases(op, pc, todo)
    BY AskIs
<1>1. PICK pc, todo : Asks(c, op, pc, todo) /\ AskCases(op, pc, todo)
    BY <1>0
<1>2. LogTypes'
    BY <1>1 DEF TellInv, LogTypes, Asks
<1>3. \A d \in Call : PlanOK(d)'
    <2>1. PlanOK(c)'
        BY <1>1, PlansDiffer DEF Asks, AskCases, PlanOK, InProgress
    <2>2. ASSUME NEW d \in Call, d # c PROVE PlanOK(d)'
        <3>1. call'[d] = call[d] /\ PlanOK(d)
            BY <1>1, <2>2 DEF TellInv, Asks
        <3>. QED BY <3>1 DEF PlanOK, InProgress
    <2>. QED BY <2>1, <2>2
<1>4. c \notin excuse
    BY <1>1 DEF TellInv, ExcusesOK, Asks
<1>5. pc \in {"raised", "write", "close", "append"}
    BY <1>1 DEF AskCases
<1>6. ExcusesOK'
    BY <1>1, <1>4, <1>5 DEF TellInv, ExcusesOK, Asks, Taken
<1>7. EndsOK'
    <2>1. Excused("halt") => Excused("halt")'
        BY <1>1, <1>4 DEF Excused, Asks, TellInv, ExcusesOK
    <2>2. Excused("complete") => Excused("complete")'
        BY <1>1, <1>4 DEF Excused, Asks, TellInv, ExcusesOK
    <2>3. HaltOwes => HaltOwes'
        BY <1>1 DEF HaltOwes, Asks
    <2>4. CloseOwes => CloseOwes'
        BY <1>1 DEF CloseOwes, Asks
    <2>5. /\ Told("wave_halted")' = Told("wave_halted")
          /\ Told("wave_completed")' = Told("wave_completed")
        BY <1>1 DEF Told, Asks
    <2>6. status' = status
        BY <1>1 DEF Asks
    <2>. QED BY <2>1, <2>2, <2>3, <2>4, <2>5, <2>6 DEF EndsOK, TellInv
<1>8. Told("merge_note")' <=> Told("merge_note")
    BY <1>1 DEF Told, Asks
<1>9. NotesOK'
    <2>1. ASSUME NEW d \in Call, d # c
          PROVE  call'[d] = call[d] /\ item' = item
        BY <1>1, <2>1 DEF Asks
    <2>2. op = "complete" => /\ pc # "ok" /\ (pc \in {"append", "insert"} => todo = CheckPlan)
                             /\ (pc \in {"close", "append", "insert"} => item = "completed")
        BY <1>1 DEF AskCases
    <2>3. item' = item /\ call'[c].op = op /\ call'[c].pc = pc /\ call'[c].todo = todo
        BY <1>1 DEF Asks
    <2>. QED BY <1>8, <2>1, <2>2, <2>3, PlansDiffer DEF TellInv, NotesOK
<1>10. OneNote'
    <2> SUFFICES ASSUME ~overlap' PROVE
            /\ \A a, b \in Call : Serving(a, "complete")' /\ Serving(b, "complete")' => a = b
            /\ \A x, q \in rows' : x.kind = "merge_note" /\ q.kind = "merge_note" => x = q
            /\ \A a \in Call :
                   Serving(a, "complete")' /\ call'[a].todo \in {FullPlan, NotePlan, LastPlan}
                       => ~Told("merge_note")'
        BY DEF OneNote
    <2>1. /\ \A a, b \in Call : Serving(a, "complete") /\ Serving(b, "complete") => a = b
          /\ \A x, q \in rows : x.kind = "merge_note" /\ q.kind = "merge_note" => x = q
          /\ \A a \in Call :
                 Serving(a, "complete") /\ call[a].todo \in {FullPlan, NotePlan, LastPlan}
                     => ~Told("merge_note")
        BY <1>1 DEF TellInv, OneNote, Asks
    <2>2. \A a \in Call : a # c => /\ Serving(a, "complete")' <=> Serving(a, "complete")
                                   /\ call'[a] = call[a]
        BY <1>1 DEF Serving, InProgress, Asks
    <2>3. Serving(c, "complete")' => \A a \in Call : ~Serving(a, "complete")
        BY <1>1 DEF Serving, InProgress, Asks, Quiet
    <2>4. ASSUME Serving(c, "complete")', call'[c].todo \in {FullPlan, NotePlan, LastPlan}
          PROVE  ~Told("merge_note")
        <3>1. item # "completed"
            BY <1>1, <2>4, PlansDiffer DEF Asks, AskCases, Serving, InProgress
        <3>. QED BY <3>1 DEF TellInv, NotesOK
    <2>5. rows' = rows
        BY <1>1 DEF Asks
    <2>6. \A a, b \in Call : Serving(a, "complete")' /\ Serving(b, "complete")' => a = b
        BY <2>1, <2>2, <2>3
    <2>7. \A a \in Call :
              Serving(a, "complete")' /\ call'[a].todo \in {FullPlan, NotePlan, LastPlan}
                  => ~Told("merge_note")'
        BY <1>8, <2>1, <2>2, <2>4
    <2>. QED BY <2>1, <2>5, <2>6, <2>7
<1>11. BannerOK'
    <2>1. \A a \in Call : a # c => /\ Serving(a, "update")' <=> Serving(a, "update")
                                   /\ call'[a] = call[a]
        BY <1>1 DEF Serving, InProgress, Asks
    <2>2. Serving(c, "update")' => \A a \in Call : ~Serving(a, "update")
        BY <1>1 DEF Serving, InProgress, Asks, Quiet
    <2>3. \A a, b \in Call : Serving(a, "update")' /\ Serving(b, "update")' => a = b
        BY <2>1, <2>2 DEF TellInv, BannerOK
    <2>4. ~(call'[c].op = "update" /\ call'[c].pc \in {"append", "insert"})
        BY <1>1 DEF Asks, AskCases
    <2>5. banner' = banner /\ rows' = rows /\ excuse' = excuse /\ call[c].pc = "new"
        BY <1>1 DEF Asks
    <2>6. \A a \in Call :
              call'[a].op = "update" /\ call'[a].pc \in {"append", "insert"} => banner' = a
        BY <2>1, <2>4, <2>5 DEF TellInv, BannerOK
    <2>7. BannerTold' <=> BannerTold
        BY <2>5 DEF BannerTold
    <2>8. banner' # 0 => \/ banner' \in excuse' /\ call'[banner].op = "update"
                         \/ /\ call'[banner].op = "update"
                            /\ call'[banner].pc \in {"append", "insert"}
                         \/ BannerTold'
        BY <1>4, <2>1, <2>5, <2>7 DEF TellInv, LogTypes, BannerOK
    <2>. QED BY <2>3, <2>5, <2>6, <2>8 DEF BannerOK
<1>. QED BY <1>2, <1>3, <1>6, <1>7, <1>9, <1>10, <1>11 DEF TellInv

\* A request that dies is excused.
LEMMA RestartTells ==
    ASSUME CallsOK, TellInv, Restart
    PROVE  TellInv'
<1>1. /\ status' = status /\ banner' = banner /\ item' = item /\ rows' = rows
      /\ overlap' = overlap /\ excuse' = excuse \cup {c \in Call : InProgress(c)}
    BY DEF Restart
<1>2. \A c \in Call : /\ call'[c].op = call[c].op
                      /\ call'[c].pc = IF InProgress(c) THEN "dead" ELSE call[c].pc
                      /\ InProgress(c) \/ call'[c] = call[c]
    BY DEF CallsOK, Restart
<1>3. \A c \in Call : ~InProgress(c)'
    BY <1>2 DEF InProgress
<1>4. LogTypes'
    BY <1>1 DEF TellInv, LogTypes
<1>5. \A c \in Call : PlanOK(c)'
    BY <1>3 DEF PlanOK
<1>6. ExcusesOK'
    BY <1>1, <1>2, <1>3 DEF TellInv, ExcusesOK, InProgress
<1>7. EndsOK'
    <2>1. Excused("halt") \/ HaltOwes => Excused("halt")'
        BY <1>1, <1>2 DEF Excused, HaltOwes, InProgress, TellInv, ExcusesOK
    <2>2. Excused("complete") \/ CloseOwes => Excused("complete")'
        BY <1>1, <1>2 DEF Excused, CloseOwes, InProgress, TellInv, ExcusesOK
    <2>3. /\ Told("wave_halted")' = Told("wave_halted")
          /\ Told("wave_completed")' = Told("wave_completed")
        BY <1>1 DEF Told
    <2>. QED BY <1>1, <2>1, <2>2, <2>3 DEF EndsOK, TellInv
<1>8. NotesOK'
    <2>1. Told("merge_note")' <=> Told("merge_note")
        BY <1>1 DEF Told
    <2>2. \A c \in Call : call'[c].pc \in {"ok", "close", "append", "insert"} => call'[c] = call[c]
        BY <1>2
    <2>. QED BY <1>1, <2>1, <2>2 DEF TellInv, NotesOK
<1>9. OneNote'
    BY <1>1, <1>3 DEF TellInv, OneNote, Serving
<1>10. BannerOK'
    <2>1. BannerTold' <=> BannerTold
        BY <1>1 DEF BannerTold
    <2>2. banner' # 0 => \/ banner' \in excuse' /\ call'[banner].op = "update"
                         \/ BannerTold'
        BY <1>1, <1>2, <2>1 DEF TellInv, LogTypes, BannerOK, InProgress
    <2>3. \A c \in Call : ~(call'[c].pc \in {"append", "insert"})
        BY <1>3 DEF InProgress
    <2>4. banner' = banner
        BY <1>1
    <2>. QED BY <1>3, <2>2, <2>3, <2>4 DEF BannerOK, Serving
<1>. QED BY <1>4, <1>5, <1>6, <1>7, <1>8, <1>9, <1>10 DEF TellInv

\* What the log tells depends on nothing else.
LEMMA TellStays ==
    ASSUME TellInv, UNCHANGED logVars
    PROVE  TellInv'
<1>1. /\ status' = status /\ banner' = banner /\ item' = item /\ rows' = rows
      /\ call' = call /\ excuse' = excuse /\ overlap' = overlap
    BY DEF logVars
<1>2. LogTypes' /\ (\A c \in Call : PlanOK(c)') /\ ExcusesOK'
    BY <1>1 DEF TellInv, LogTypes, PlanOK, InProgress, ExcusesOK, Taken
<1>3. EndsOK'
    BY <1>1 DEF TellInv, EndsOK, Told, Excused, HaltOwes, CloseOwes
<1>4. NotesOK'
    BY <1>1 DEF TellInv, NotesOK, Told
<1>5. OneNote'
    BY <1>1 DEF TellInv, OneNote, Serving, InProgress, Told
<1>6. BannerOK'
    BY <1>1 DEF TellInv, BannerOK, BannerTold, Serving, InProgress
<1>. QED BY <1>2, <1>3, <1>4, <1>5, <1>6 DEF TellInv

\* The inductive invariant of what the log tells, for any number of requests:
\* an end, a note or a phase that was written is told, owed by a request still
\* under way, or excused.
THEOREM LogInductive == Spec => []TellInv
<1>1. Init => TellInv
    <2>. SUFFICES ASSUME Init PROVE TellInv
        OBVIOUS
    <2>1. /\ status = "running" /\ banner = 0 /\ item = "dispatched" /\ rows = {}
          /\ excuse = {} /\ overlap = FALSE
          /\ \A c \in Call : call[c].op = Nil /\ call[c].pc = "new"
        BY DEF Init
    <2>2. LogTypes
        BY <2>1 DEF LogTypes
    <2>3. (\A c \in Call : PlanOK(c)) /\ ExcusesOK
        BY <2>1 DEF PlanOK, InProgress, ExcusesOK
    <2>4. EndsOK /\ NotesOK
        BY <2>1 DEF EndsOK, NotesOK, Told
    <2>5. OneNote /\ BannerOK
        BY <2>1 DEF OneNote, BannerOK, Serving, InProgress, Told
    <2>. QED BY <2>2, <2>3, <2>4, <2>5 DEF TellInv
<1>2. NumberInv /\ DeliveryParts /\ TellInv /\ [Next]_vars => TellInv'
    <2>. SUFFICES ASSUME NumberInv, DeliveryParts, TellInv, [Next]_vars PROVE TellInv'
        OBVIOUS
    <2>1. BoundsOK /\ CallsOK /\ Numbered(rows) /\ ReadsAreOld /\ PubOK /\ StreamRest
        BY DEF NumberInv, DeliveryParts
    <2>2. ASSUME NEW c \in Call, Step(c) PROVE TellInv'
        BY <2>1, <2>2, UpdateTells, HaltWriteTells, HaltItemsTells, CompleteWriteTells,
           CompleteCloseTells, ReadSeqTells, InsertTells, RefusedTells, FindNoteTells DEF Step
    <2>3. ASSUME NEW c \in Call, Ask(c) PROVE TellInv'
        BY <2>1, <2>3, AskTells
    <2>4. CASE Restart
        BY <2>1, <2>4, RestartTells
    <2>5. CASE UNCHANGED logVars
        BY <2>5, TellStays
    <2>. QED BY <2>2, <2>3, <2>4, <2>5 DEF Next, vars
<1>. QED BY <1>1, <1>2, LogNumbered, DeliveryInductive, PTL DEF Spec

\* Of finitely many numbered rows one is the latest.
LEMMA LatestRow ==
    ASSUME Numbered(rows), NEW set, set \subseteq rows, set # {}
    PROVE  \E r \in set : {q \in set : q.seq > r.seq} = {}
<1>. DEFINE N == Cardinality(rows)
           T == {N - r.seq : r \in set}
<1>1. N \in Nat /\ \A r \in set : r.seq \in 1 .. N
    BY NextIsCount DEF Numbered
<1>. HIDE DEF N
<1>2. T \in SUBSET Nat /\ T # {}
    BY <1>1
<1>3. PICK n \in T : \A m \in T : <<m, n>> \notin OpToRel(<, Nat)
    <2>. HIDE DEF T
    <2>. QED BY <1>2, NatLessThanWellFounded, WFMin
<1>4. \A m \in T : ~(m < n)
    BY <1>2, <1>3 DEF OpToRel
<1>5. PICK r \in set : n = N - r.seq
    BY <1>3
<1>6. \A q \in set : ~(N - q.seq < N - r.seq)
    BY <1>4, <1>5
<1>7. \A q \in set : ~(q.seq > r.seq)
    BY <1>1, <1>6
<1>. QED BY <1>7

\* The history tells of every end that no crash and no lost race for a number
\* cut short; a completion that answered left its note, and completions that
\* did not overlap left no second; and the banner shows the last phase that
\* was told (rollout_service.py, _append_event and its callers).  For any
\* number of requests, restarts and users.
THEOREM LogCorrect == Spec => []LogInv
<1>1. ASSUME DeliveryParts, CallsOK, TellInv PROVE LogTypeOK
    <2>1. TypeOK
        <3>1. stream \in [Stream -> Browser] /\ offered \in [Stream -> Seq(Id \cup {Stop})]
              /\ gap \in [Stream -> SUBSET Id] /\ doubled \in [Stream -> SUBSET Id]
              /\ subs \subseteq Stream /\ \A s \in Stream : ConnOK(s)
            BY <1>1 DEF DeliveryParts, ConnInv, ConnsOK, Browser
        <3>2. \A s \in Stream : Len(stream[s].queue) <= QueueSize
            BY <3>1 DEF ConnOK
        <3>. QED BY <1>1, <3>1, <3>2 DEF TypeOK, DeliveryParts, StreamRest, PubOK, Browser
    <2>2. excuse \subseteq Call
        BY <1>1 DEF TellInv, ExcusesOK
    <2>. QED BY <1>1, <2>1, <2>2 DEF LogTypeOK, CallsOK, LogRow, TellInv, LogTypes
<1>2. ASSUME TellInv PROVE EndsAreTold
    <2>1. Quiet("halt") => ~HaltOwes
        BY DEF Quiet, HaltOwes, InProgress
    <2>2. Quiet("complete") => ~CloseOwes
        BY DEF Quiet, CloseOwes, InProgress
    <2>3. Told("wave_halted") => Halts # {}
        BY DEF Told, Halts
    <2>. QED BY <1>2, <2>1, <2>2, <2>3 DEF TellInv, EndsOK, EndsAreTold
<1>3. ASSUME NumberInv, TellInv PROVE NotesAreKept
    <2>. DEFINE all == {r \in rows : r.kind = "merge_note"}
    <2>1. RecentNotes(2) = {r \in all : Cardinality({q \in all : q.seq > r.seq}) < 2}
        BY DEF RecentNotes, Newest
    <2>2. ASSUME NEW c \in Call, call[c].op = "complete", call[c].pc = "ok"
          PROVE  RecentNotes(2) # {}
        <3>1. all # {} /\ all \subseteq rows /\ Numbered(rows)
            BY <1>3, <2>2 DEF TellInv, NotesOK, Told, NumberInv
        <3>2. PICK r \in all : {q \in all : q.seq > r.seq} = {}
            <4>. HIDE DEF all
            <4>. QED BY <3>1, LatestRow
        <3>3. Cardinality({q \in all : q.seq > r.seq}) < 2
            BY <3>2, FS_EmptySet
        <3>. QED BY <2>1, <3>3
    <2>3. ASSUME ~overlap PROVE Cardinality(RecentNotes(2)) # 2
        <3>1. \A r, q \in RecentNotes(2) : r = q
            BY <1>3, <2>1, <2>3 DEF TellInv, OneNote
        <3>2. CASE RecentNotes(2) = {}
            BY <3>2, FS_EmptySet
        <3>3. CASE RecentNotes(2) # {}
            <4>1. PICK r : RecentNotes(2) = {r}
                BY <3>1, <3>3
            <4>. QED BY <4>1, FS_Singleton
        <3>. QED BY <3>2, <3>3
    <2>. QED BY <2>2, <2>3 DEF NotesAreKept
<1>4. ASSUME TellInv PROVE BannerIsLast
    <2>1. (banner # 0 /\ Quiet("update"))
              => (banner \in excuse /\ call[banner].op = "update") \/ BannerTold
        BY <1>4 DEF TellInv, LogTypes, BannerOK, Quiet, InProgress
    <2>. QED BY <1>4, <2>1 DEF BannerIsLast, BannerTold, TellInv, ExcusesOK
<1>5. NumberInv /\ DeliveryParts /\ TellInv /\ LogIsContiguous => LogInv
    BY <1>1, <1>2, <1>3, <1>4 DEF LogInv, NumberInv
<1>. QED BY <1>5, LogNumbered, DeliveryInductive, LogInductive, LogContiguous, PTL

=============================================================================
