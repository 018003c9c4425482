----------------------------- MODULE ConsoleFeed -----------------------------
(***************************************************************************)
(* The live feed of the console: ConsoleHub of                             *)
(* interlock/gateway/console_ws.py and the browser's ProjectionConnection  *)
(* of console/src/api/projectionClient.ts.                                 *)
(*                                                                         *)
(* The hub numbers the events it publishes and keeps the last ReplayBuffer *)
(* of them; each socket has a queue of its own, twice that long.  A client *)
(* that connects gets the kept events through its queue and asks for them  *)
(* over HTTP too; what the socket brings meanwhile is set aside.  A gateway*)
(* that restarts begins a new stream at sequence number 1.                 *)
(***************************************************************************)
EXTENDS Naturals, Sequences

CONSTANTS
    ReplayBuffer,   \* REPLAY_BUFFER
    Transit,        \* messages the transport holds between hub and browser
    MaxEvents,      \* bound: events of one stream
    MaxStreams,     \* bound: incarnations of the gateway
    MaxFaults       \* bound: lost connections, failed requests and restarts

ASSUME FeedAssumption ==
    /\ {ReplayBuffer, Transit, MaxStreams} \subseteq Nat \ {0}
    /\ {MaxEvents, MaxFaults} \subseteq Nat

VARIABLES
    stream,      \* ConsoleHub.stream_id, as a number of the incarnation
    seq,         \* ConsoleHub._seq
    server,      \* the hub's side of the socket: "none", "accepted" or "joined"
    queue,       \* its queue in ConsoleHub._clients
    wire,        \* messages on their way to the browser
    socket,      \* the browser's side: "connecting", "open", "timer" or "stopped"
    recovery,    \* the request to /console/recent: "none", "asked" or its response
    recovering,  \* recoveringGeneration is the current generation
    aside,       \* ProjectionConnection.pendingEnvelopes
    client,      \* its cursor, and history: the events applied, and applied again
    dropped,     \* history: events lost with a queue that overflowed
    faults       \* faults so far

hubVars     == <<stream, seq>>
linkVars    == <<server, queue, wire>>
recoverVars == <<recovery, recovering, aside>>
vars        == <<hubVars, linkVars, socket, recoverVars, client, dropped, faults>>

Event(s, q) == [stream |-> s, seq |-> q]
Events      == [stream : 1..MaxStreams, seq : 1..MaxEvents]
NoCursor    == Event(0, 0)

\* A response of /console/recent is what snapshot() returned.
Responses == [stream : 1..MaxStreams, latest : 0..MaxEvents, events : Seq(Events)]

OneStream(es) ==
    \A j, k \in DOMAIN es : j < k => es[j].stream = es[k].stream /\ es[j].seq < es[k].seq

NoRecovery == [pc |-> "none"]

Init ==
    /\ stream = 1 /\ seq = 0
    /\ server = "none" /\ queue = <<>> /\ wire = <<>>
    /\ socket = "connecting"
    /\ recovery = NoRecovery /\ recovering = FALSE /\ aside = <<>>
    /\ client = [cursor |-> NoCursor, applied |-> {}, again |-> {}]
    /\ dropped = {}
    /\ faults = 0

Fault == faults < MaxFaults /\ faults' = faults + 1

-----------------------------------------------------------------------------
(* The hub                                                                  *)

Oldest   == IF seq > ReplayBuffer THEN seq - ReplayBuffer + 1 ELSE 1
Retained == {Event(stream, q) : q \in Oldest..seq}

\* recent(): what is kept after a cursor, which counts only for this stream.
Recent(after) ==
    LET from == IF after.stream = stream THEN after.seq + 1 ELSE 1
        lo   == IF from > Oldest THEN from ELSE Oldest
    IN  [k \in 1..(IF lo > seq THEN 0 ELSE seq + 1 - lo) |-> Event(stream, lo + k - 1)]

\* Mutant: the socket brings only what is published from now on.
JoinLive ==
    /\ server = "accepted"
    /\ server' = "joined"
    /\ queue' = <<>>
    /\ UNCHANGED <<hubVars, wire, socket, recoverVars, client, dropped, faults>>

\* The rest of connect(), once accept() is through.
Join ==
    /\ server = "accepted"
    /\ server' = "joined"
    /\ queue' = Recent(NoCursor)
    /\ UNCHANGED <<hubVars, wire, socket, recoverVars, client, dropped, faults>>

\* A client whose queue is full is disconnected; what it had queued is gone.
Publish ==
    /\ seq < MaxEvents
    /\ seq' = seq + 1
    /\ CASE server # "joined" -> UNCHANGED <<server, queue, dropped>>
         [] server = "joined" /\ Len(queue) < 2 * ReplayBuffer ->
               /\ queue' = Append(queue, Event(stream, seq'))
               /\ UNCHANGED <<server, dropped>>
         [] OTHER ->
               /\ server' = "none" /\ queue' = <<>>
               /\ dropped' = dropped \cup {queue[k] : k \in DOMAIN queue}
    /\ UNCHANGED <<stream, wire, socket, recoverVars, client, faults>>

Deliver ==
    /\ server = "joined" /\ queue # <<>> /\ Len(wire) < Transit
    /\ wire' = Append(wire, Head(queue))
    /\ queue' = Tail(queue)
    /\ UNCHANGED <<hubVars, server, socket, recoverVars, client, dropped, faults>>

\* The gateway restarts: a new stream, nothing kept, no sockets.
Restart ==
    /\ stream < MaxStreams /\ Fault
    /\ stream' = stream + 1 /\ seq' = 0
    /\ server' = "none" /\ queue' = <<>>
    /\ UNCHANGED <<wire, socket, recoverVars, client, dropped>>

-----------------------------------------------------------------------------
(* The socket                                                               *)

\* onopen: the hub has accepted, which is before it adds the client.
OnOpen ==
    /\ socket = "connecting"
    /\ socket' = "open"
    /\ server' = "accepted" /\ queue' = <<>> /\ wire' = <<>>
    /\ recovering' = TRUE /\ aside' = <<>>
    /\ recovery' = [pc |-> "asked", after |-> client.cursor]
    /\ UNCHANGED <<hubVars, client, dropped, faults>>

OnClose ==
    /\ socket' = "timer"
    /\ server' = "none" /\ queue' = <<>> /\ wire' = <<>>
    /\ UNCHANGED <<hubVars, recoverVars, client, dropped>>

\* The hub has closed its side and what it had sent was read ...
Closed ==
    /\ socket = "open" /\ server = "none" /\ wire = <<>>
    /\ OnClose
    /\ UNCHANGED faults

\* ... or the connection, or the attempt to make one, fails (onerror closes).
ConnectionLost ==
    /\ socket \in {"connecting", "open"}
    /\ Fault
    /\ OnClose

\* The timer opens the next generation; an older recovery no longer counts.
Reconnect ==
    /\ socket = "timer"
    /\ socket' = "connecting"
    /\ recovery' = NoRecovery /\ recovering' = FALSE
    /\ UNCHANGED <<hubVars, linkVars, aside, client, dropped, faults>>

\* stop(), when the page goes away.
Stop ==
    /\ socket # "stopped"
    /\ socket' = "stopped"
    /\ server' = "none" /\ queue' = <<>> /\ wire' = <<>>
    /\ recovery' = NoRecovery /\ recovering' = FALSE /\ aside' = <<>>
    /\ UNCHANGED <<hubVars, client, dropped, faults>>

-----------------------------------------------------------------------------
(* The cursor                                                               *)

Before(e, cursor) == e.stream = cursor.stream /\ e.seq <= cursor.seq

\* accept() for each event of a list, and with it the reducer of
\* consoleStore.ts, which has the same guard.  A list comes from one socket or
\* one response (OneStream), so what is new in it ends with its last event.
Accept(c, es) ==
    LET new == {es[k] : k \in {j \in DOMAIN es : ~Before(es[j], c.cursor)}}
    IN  IF new = {} THEN c
        ELSE [cursor  |-> es[Len(es)],
              applied |-> c.applied \cup new,
              again   |-> c.again \cup (new \cap c.applied)]

\* handleMessage().
Receive ==
    /\ socket = "open" /\ wire # <<>>
    /\ wire' = Tail(wire)
    /\ IF recovering
       THEN aside' = Append(aside, Head(wire)) /\ UNCHANGED client
       ELSE client' = Accept(client, <<Head(wire)>>) /\ UNCHANGED aside
    /\ UNCHANGED <<hubVars, server, queue, socket, recovery, recovering, dropped, faults>>

-----------------------------------------------------------------------------
(* recoverRecent() and /console/recent                                      *)

Answer ==
    /\ recovery.pc = "asked"
    /\ recovery' = [pc |-> "answered",
                    response |-> [stream |-> stream, latest |-> seq,
                                  events |-> Recent(recovery.after)]]
    /\ UNCHANGED <<hubVars, linkVars, socket, recovering, aside, client, dropped, faults>>

\* finishRecovery() on top of client state c: what was set aside follows.
FinishRecovery(c) ==
    /\ client' = Accept(c, aside)
    /\ aside' = <<>>
    /\ recovering' = FALSE
    /\ recovery' = NoRecovery

\* The cursor moves on to the snapshot's last number.
CatchUp(c, r) ==
    IF c.cursor.stream # r.stream \/ r.latest > c.cursor.seq
    THEN [c EXCEPT !.cursor = Event(r.stream, r.latest)]
    ELSE c

Recovered ==
    /\ recovery.pc = "answered"
    /\ LET r == recovery.response
       IN  FinishRecovery(CatchUp(Accept(client, r.events), r))
    /\ UNCHANGED <<hubVars, linkVars, socket, dropped, faults>>

\* Mutant: the error path does not finish the recovery.
RecoveryFailsUnfinished ==
    /\ recovery.pc # "none"
    /\ Fault
    /\ recovery' = NoRecovery
    /\ UNCHANGED <<hubVars, linkVars, socket, recovering, aside, client, dropped>>

\* The request fails, or its response is malformed.
RecoveryFails ==
    /\ recovery.pc # "none"
    /\ Fault
    /\ FinishRecovery(client)
    /\ UNCHANGED <<hubVars, linkVars, socket, dropped>>

-----------------------------------------------------------------------------
\* What goes on by itself: tasks, timers, requests, and messages on the wire.
Progress == \/ Join \/ Deliver \/ Receive
            \/ OnOpen \/ Closed \/ Reconnect
            \/ Answer \/ Recovered

Next == Progress \/ Publish \/ Restart \/ ConnectionLost \/ RecoveryFails \/ Stop

\* Nobody need publish, and faults are free.
Fairness == WF_vars(Progress)

Spec == Init /\ [][Next]_vars /\ Fairness

-----------------------------------------------------------------------------
(* Properties                                                               *)

\* No event the hub still keeps is ever skipped: once the cursor has passed it,
\* it was applied, however the socket's replay, its live events, the recovery's
\* response, reconnects and restarts come together.
NothingKeptIsSkipped == \A e \in Retained : Before(e, client.cursor) => e \in client.applied

\* Replay over the socket and over HTTP overlap, and still no event is applied
\* twice, unless a restart let the cursor return to an older stream.
AppliedOnce == client.again # {} => stream > 1

\* What replay, recovery and live events make of the feed (projectionClient.ts,
\* console_ws.py): all that is kept, once, in order.
FeedIsExact == NothingKeptIsSkipped /\ AppliedOnce

\* When the hub falls silent, a page that is still open ends up with everything
\* the hub keeps, through overflows, lost connections and restarts.
FeedCatchesUp == <>[](socket = "stopped" \/ Retained \subseteq client.applied)

\* console_ws.py:126 says that a client that cannot keep up must reconnect and
\* recover, since a dropped envelope would make its cursor look complete when it
\* is not: what it lost with its queue is applied before the cursor passes it.
OverflowIsRecovered ==
    \A e \in dropped : Before(e, client.cursor) => e \in client.applied
=============================================================================
