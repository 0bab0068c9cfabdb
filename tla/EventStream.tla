---------------------------- MODULE EventStream ----------------------------
(***************************************************************************)
(* The event bus, the event stream endpoint and the browser hook that      *)
(* reads it (event_bus.py, event_helpers.py, routes/event_routes.py,       *)
(* frontend/src/hooks/useEventStream.ts).                                  *)
(*                                                                         *)
(* A publish is a coroutine: it takes its time stamp, INSERTs the event,   *)
(* and after that await puts it into the queues of the owner's streams,    *)
(* then, after the query for the members, into those of the other members  *)
(* of the project.  A stream first replays the events later than "since"   *)
(* and only then registers its queue.  Everything between two awaits is    *)
(* one step.                                                               *)
(***************************************************************************)
EXTENDS Naturals, FiniteSets, SequencesExt

CONSTANTS
    User,        \* the users of one shared project: its owner and its members
    Stream,      \* the browsers; each holds at most one connection
    Kind,        \* the event types that are published
    Heard,       \* the event types the hook registers a handler for
    Nil,         \* no event, no "since"
    QueueSize,   \* bound of the code: the maxsize of a queue (256 there)
    Mixes,       \* bounds: what a behaviour has of each (see Mix)
    MaxEvents    \* bound: events published

\* The bounds of a behaviour: the browsers, the connections of each, the
\* number of events and those that services publish, the statements of a
\* publish that fail, the ends of the process, and the requests with their
\* number (see RolloutLog).
Mix == [browsers : SUBSET Stream, connects : Nat, events : 0 .. MaxEvents,
        emits : SUBSET [kind : Kind, owner : User, shared : BOOLEAN],
        failures : Nat, starts : Nat,
        ops : SUBSET {"update", "halt", "answer", "complete"}, calls : Nat]

ASSUME StreamAssumption ==
    /\ QueueSize \in Nat \ {0}
    /\ MaxEvents \in Nat
    /\ Mixes \subseteq Mix
    /\ Nil \notin 1 .. MaxEvents

VARIABLES
    bounds,  \* the bounds of this behaviour
    clock,   \* datetime.now(): it may stand still between two readings
    event,   \* the published events, in the order their tasks were created
    pub,     \* where the publish of each event is
    stored,  \* the rows of table events
    stream,  \* the generator and the queue of each connection
    subs,    \* EventBus._subscribers: the streams whose queue is registered
    drained, \* the bus was drained: the process is shutting down
    faults,  \* failures and restarts so far
    offered, \* history: what was put into the queue of each connection
    gap,     \* history: events that passed a connection before it registered
    deaf,    \* history: streams whose queue was full when the bus drained
    doubled  \* history: replayed events whose fan-out was still to come

tableVars == <<clock, event, pub, stored>>
connVars == <<stream, subs, offered, gap, deaf, doubled>>
histVars == <<offered, gap, deaf, doubled>>
lifeVars == <<bounds, drained, faults>>
streamVars == <<tableVars, connVars, lifeVars>>

Id == 1 .. MaxEvents

\* The signal drain() puts into a queue.
Stop == 0

Phase == {"off", "replay", "yield", "register", "live"}
PubPhase == {"task", "insert", "owner", "members", "done", "failed", "lost"}

TypeOK ==
    /\ bounds \in Mixes
    /\ clock \in 0 .. MaxEvents
    /\ event \in Seq([kind : Kind, owner : User, shared : BOOLEAN,
                      at : 0 .. MaxEvents])
    /\ Len(event) <= MaxEvents
    /\ pub \in [DOMAIN event -> PubPhase]
    /\ stored \subseteq DOMAIN event
    /\ stream \in [Stream ->
           [user : User, phase : Phase, since : Id \cup {Nil},
            last : Id \cup {Nil}, missed : Seq(Id),
            queue : Seq(Id \cup {Stop}), got : Seq(Id),
            shown : SUBSET Id, connects : Nat]]
    /\ \A s \in Stream : Len(stream[s].queue) <= QueueSize
    /\ subs \subseteq Stream
    /\ drained \in BOOLEAN
    /\ faults \in [failures : Nat, starts : Nat]
    /\ offered \in [Stream -> Seq(Id \cup {Stop})]
    /\ deaf \subseteq Stream
    /\ {gap, doubled} \subseteq [Stream -> SUBSET Id]

\* Whoever: the user of a browser that never connects.
Anyone == CHOOSE u \in User : TRUE

StreamInit ==
    /\ bounds \in Mixes
    /\ clock = 0
    /\ event = <<>> /\ pub = <<>> /\ stored = {}
    /\ \E u \in [Stream -> User] :
           /\ \A s \in Stream \ bounds.browsers : u[s] = Anyone
           /\ stream = [s \in Stream |->
                  [user |-> u[s], phase |-> "off", since |-> Nil,
                   last |-> Nil, missed |-> <<>>, queue |-> <<>>,
                   got |-> <<>>, shown |-> {}, connects |-> 0]]
    /\ subs = {} /\ drained = FALSE /\ deaf = {}
    /\ faults = [failures |-> 0, starts |-> 0]
    /\ offered = [s \in Stream |-> <<>>]
    /\ gap = [s \in Stream |-> {}]
    /\ doubled = [s \in Stream |-> {}]

-----------------------------------------------------------------------------
(* Publishing.                                                             *)

\* accessible_project_ids: the own events, and those of the shared project.
Visible(u, e) == event[e].owner = u \/ event[e].shared

\* A service creates a task for best_effort_publish, or awaits it: then it
\* runs at once, up to its INSERT.
Created(kind, owner, shared, at, pc) ==
    /\ event' = Append(event, [kind |-> kind, owner |-> owner,
                               shared |-> shared, at |-> at])
    /\ pub' = Append(pub, pc)

\* Two readings of the clock may give the same time.
Now == {clock, clock + 1} \cap (0 .. MaxEvents)

MoreEvents == Len(event) < bounds.events

Emit ==
    /\ MoreEvents
    /\ clock' \in Now
    /\ \E e \in bounds.emits :
           Created(e.kind, e.owner, e.shared, clock', "insert")
    /\ UNCHANGED <<stored, connVars, lifeVars>>

MutantStamp(e) ==
    /\ pub[e] = "task" /\ subs # {}
    /\ clock' \in Now
    /\ event' = [event EXCEPT ![e].at = clock']
    /\ pub' = [pub EXCEPT ![e] = "insert"]
    /\ UNCHANGED <<stored, connVars, lifeVars>>

\* A task begins: the time stamp is taken before the INSERT is awaited.
Stamp(e) ==
    /\ pub[e] = "task"
    /\ clock' \in Now
    /\ event' = [event EXCEPT ![e].at = clock']
    /\ pub' = [pub EXCEPT ![e] = "insert"]
    /\ UNCHANGED <<stored, connVars, lifeVars>>

Store(e) ==
    /\ pub[e] = "insert"
    /\ stored' = stored \cup {e}
    /\ pub' = [pub EXCEPT ![e] = "owner"]
    /\ UNCHANGED <<clock, event, connVars, lifeVars>>

\* best_effort_publish swallows and counts what an INSERT or the query for
\* the members raises; a pool that is closed fails every time.
PublishFails(e) ==
    /\ pub[e] \in {"insert", "members"}
    /\ \/ /\ faults.failures < bounds.failures
          /\ faults' = [faults EXCEPT !.failures = @ + 1]
       \/ drained /\ UNCHANGED faults
    /\ pub' = [pub EXCEPT ![e] = "failed"]
    /\ UNCHANGED <<bounds, clock, event, stored, drained, connVars>>

\* A full queue loses its oldest event to the new one.
Room(q) == IF Len(q) < QueueSize THEN q ELSE Tail(q)

\* put_nowait into the queues of some users, in one step.
FanOut(e, users) ==
    LET to == {s \in subs : stream[s].user \in users}
        passed == {s \in Stream : /\ stream[s].user \in users
                                  /\ stream[s].phase \in {"yield", "register"}}
    IN /\ stream' = [s \in Stream |->
              IF s \in to THEN [stream[s] EXCEPT
                                    !.queue = Append(Room(@), e)]
              ELSE stream[s]]
       /\ offered' = [s \in Stream |->
              IF s \in to THEN Append(offered[s], e) ELSE offered[s]]
       /\ gap' = [s \in Stream |->
              IF s \in passed THEN gap[s] \cup {e} ELSE gap[s]]

FanOutOwner(e) ==
    /\ pub[e] = "owner"
    /\ FanOut(e, {event[e].owner})
    /\ pub' = [pub EXCEPT ![e] = IF event[e].shared THEN "members"
                                 ELSE "done"]
    /\ UNCHANGED <<clock, event, stored, subs, deaf, doubled, lifeVars>>

FanOutMembers(e) ==
    /\ pub[e] = "members"
    /\ FanOut(e, User \ {event[e].owner})
    /\ pub' = [pub EXCEPT ![e] = "done"]
    /\ UNCHANGED <<clock, event, stored, subs, deaf, doubled, lifeVars>>

Publish(e) == \/ Stamp(e) \/ Store(e) \/ PublishFails(e)
              \/ FanOutOwner(e) \/ FanOutMembers(e)

-----------------------------------------------------------------------------
(* Streaming.                                                              *)

\* The browser opens the stream.  The hook builds its URL once: the browser's
\* own reconnection repeats the "since" of the last connection, a remount of
\* the hook asks from the last event it handled.
Connect(s) ==
    /\ stream[s].phase = "off"
    /\ s \in bounds.browsers /\ stream[s].connects < bounds.connects
    /\ \E since \in {stream[s].since, stream[s].last} :
           stream' = [stream EXCEPT
               ![s].phase = IF since = Nil THEN "register" ELSE "replay",
               ![s].since = since,
               ![s].connects = @ + 1]
    /\ UNCHANGED <<subs, tableVars, lifeVars, histVars>>

MutantLater(s) == {e \in stored : /\ event[e].owner = stream[s].user
                                  /\ event[e].at > event[stream[s].since].at}

\* replay_since: what the user may see with a later time stamp, in the order
\* of the time stamps; equal ones in any order.
Later(s) == {e \in stored : /\ Visible(stream[s].user, e)
                            /\ event[e].at > event[stream[s].since].at}

Replay(s) ==
    /\ stream[s].phase = "replay"
    /\ \E missed \in SetToSeqs(Later(s)) :
           /\ \A i, j \in DOMAIN missed :
                  i < j => event[missed[i]].at <= event[missed[j]].at
           /\ stream' = [stream EXCEPT ![s].phase = "yield",
                                       ![s].missed = missed]
    /\ UNCHANGED <<subs, tableVars, lifeVars, histVars>>

\* The browser gets an event: the hook notes its id and passes it on when it
\* has a listener for its type.
Received(b, e) ==
    LET heard == event[e].kind \in Heard
    IN [b EXCEPT !.got = Append(@, e),
                 !.last = IF heard THEN e ELSE @,
                 !.shown = IF heard THEN @ \cup {e} ELSE @]

YieldMissed(s) ==
    /\ stream[s].phase = "yield"
    /\ stream[s].missed # <<>>
    /\ stream' = [stream EXCEPT ![s] =
           [Received(@, Head(@.missed)) EXCEPT !.missed = Tail(stream[s].missed)]]
    /\ UNCHANGED <<subs, tableVars, lifeVars, histVars>>

\* The fan-out to user u that is still to come.
Coming(u, e) ==
    IF event[e].owner = u THEN pub[e] = "owner"
                          ELSE pub[e] \in {"owner", "members"}

\* bus.subscribe, when everything missed has been yielded.
Subscribe(s) ==
    /\ \/ stream[s].phase = "register"
       \/ stream[s].phase = "yield" /\ stream[s].missed = <<>>
    /\ subs' = subs \cup {s}
    /\ stream' = [stream EXCEPT ![s].phase = "live"]
    /\ doubled' = [doubled EXCEPT ![s] =
           {e \in ToSet(stream[s].got) : Coming(stream[s].user, e)}]
    /\ UNCHANGED <<offered, gap, deaf, tableVars, lifeVars>>

Ended(b) == [b EXCEPT !.phase = "off", !.missed = <<>>, !.queue = <<>>,
                      !.got = <<>>, !.shown = {}]

\* Leaving the generator runs its "finally": unsubscribe.
Closed(s) ==
    /\ stream' = [stream EXCEPT ![s] = Ended(@)]
    /\ subs' = subs \ {s}
    /\ offered' = [offered EXCEPT ![s] = <<>>]
    /\ gap' = [gap EXCEPT ![s] = {}]
    /\ doubled' = [doubled EXCEPT ![s] = {}]
    /\ deaf' = deaf \ {s}

\* queue.get: the next event goes out, the stop signal ends the stream.
\* A heartbeat changes nothing.
Deliver(s) ==
    /\ stream[s].phase = "live"
    /\ stream[s].queue # <<>>
    /\ Head(stream[s].queue) # Stop
    /\ stream' = [stream EXCEPT ![s] =
           [Received(@, Head(@.queue)) EXCEPT !.queue = Tail(stream[s].queue)]]
    /\ UNCHANGED <<subs, tableVars, lifeVars, histVars>>

Stopped(s) ==
    /\ stream[s].phase = "live"
    /\ stream[s].queue # <<>>
    /\ Head(stream[s].queue) = Stop
    /\ Closed(s)
    /\ UNCHANGED <<tableVars, lifeVars>>

\* The browser goes away: is_disconnected, or the cancellation of the
\* response wherever the generator waits.
Disconnect(s) ==
    /\ stream[s].phase # "off"
    /\ Closed(s)
    /\ UNCHANGED <<tableVars, lifeVars>>

Serve(s) == \/ Replay(s) \/ YieldMissed(s) \/ Subscribe(s)
            \/ Deliver(s) \/ Stopped(s)

-----------------------------------------------------------------------------
(* Shutdown and restart.                                                   *)

MutantSignalled(s) == FALSE

\* drain(): QueueFull is suppressed, so a full queue gets no signal.
Signalled(s) == s \in subs /\ Len(stream[s].queue) < QueueSize

Drain ==
    /\ ~drained /\ faults.starts < bounds.starts
    /\ drained' = TRUE
    /\ stream' = [s \in Stream |->
           IF Signalled(s) THEN [stream[s] EXCEPT !.queue = Append(@, Stop)]
           ELSE stream[s]]
    /\ offered' = [s \in Stream |->
           IF Signalled(s) THEN Append(offered[s], Stop) ELSE offered[s]]
    /\ subs' = {}
    /\ deaf' = {s \in subs : Len(stream[s].queue) = QueueSize}
    /\ UNCHANGED <<bounds, faults, gap, doubled, tableVars>>

\* The process ends, drained or not, and starts again: tasks and
\* connections are gone, the table is kept.
Restarted ==
    /\ faults.starts < bounds.starts
    /\ faults' = [faults EXCEPT !.starts = @ + 1]
    /\ drained' = FALSE
    /\ subs' = {}
    /\ pub' = [e \in DOMAIN pub |->
           IF pub[e] \in {"done", "failed"} THEN pub[e] ELSE "lost"]
    /\ stream' = [s \in Stream |-> Ended(stream[s])]
    /\ offered' = [s \in Stream |-> <<>>]
    /\ gap' = [s \in Stream |-> {}]
    /\ doubled' = [s \in Stream |-> {}]
    /\ deaf' = {}
    /\ UNCHANGED <<bounds, clock, event, stored>>

BusStep == \/ \E e \in DOMAIN pub : Publish(e)
           \/ \E s \in Stream : Connect(s) \/ Serve(s) \/ Disconnect(s)
           \/ Drain

-----------------------------------------------------------------------------
(* What the stream promises.                                               *)

Live(s) == s \in subs /\ stream[s].phase = "live"

\* Whether the fan-out of e has passed the streams of user u.
Passed(u, e) == \/ pub[e] = "done"
                \/ event[e].owner = u /\ pub[e] \in {"members", "failed"}
                                      /\ e \in stored

\* The docs promise that "since" replays what was missed before going live.
\* An event that has passed a live stream and is later than its "since" was
\* sent, is queued or was pushed out of the full queue, unless it passed
\* after the replay was read and before the queue was registered.
NothingSkipped ==
    \A s \in Stream, e \in DOMAIN event :
        (/\ Live(s) /\ stream[s].since # Nil
         /\ Visible(stream[s].user, e) /\ Passed(stream[s].user, e)
         /\ event[e].at > event[stream[s].since].at)
        => e \in ToSet(stream[s].got) \cup ToSet(offered[s]) \cup gap[s]

\* The queue of a registered stream is the end of what was put into it: an
\* overflow costs the oldest events, never a newer one, and nothing
\* overtakes.
QueueIsTail ==
    \A s \in subs : IsSuffix(stream[s].queue, offered[s])

\* A connection sends an event twice only when its row was replayed before
\* its fan-out and the queue was registered in between.
TwiceOnlyBetween ==
    \A s \in Stream : \A i, j \in DOMAIN stream[s].got :
        (i # j /\ stream[s].got[i] = stream[s].got[j] /\ Live(s))
        => stream[s].got[i] \in doubled[s]

\* A shutdown ends every stream that was registered with room in its queue,
\* whatever is queued before the signal.  (A full queue, and a stream that
\* registers after the drain, get no signal: they end with the process.)
SignalledStreamsEnd ==
    \A s \in Stream :
        (drained /\ stream[s].phase = "live" /\ s \notin subs \cup deaf)
        ~> (stream[s].phase = "off")

\* What a browser is sent: of the events later than its "since" none is
\* skipped, none is overtaken and none comes twice, but in the windows named.
DeliveryInv == NothingSkipped /\ QueueIsTail /\ TwiceOnlyBetween
=============================================================================
