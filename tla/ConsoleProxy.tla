----------------------------- MODULE ConsoleProxy ---------------------------
(***************************************************************************)
(* The websocket of the console host, interlock/console/app.py: a browser  *)
(* is let in by its origin, the gateway's websocket is opened for it, and  *)
(* one task each way pumps frames until the first of the two ends.         *)
(*                                                                         *)
(* A frame is counted, not read.  A peer may leave at any time; sending to *)
(* one that has left fails, or goes unnoticed until its side is known to   *)
(* be closed.  The HTTP proxy and the static files keep no state.          *)
(***************************************************************************)
EXTENDS Naturals

CONSTANTS
    Schemes,     \* schemes of the host, "ws" or "wss"
    Origins,     \* origins of browsers: <<>> when absent, or <<scheme, host>>
    MaxFrames    \* bound: frames a peer sends

VARIABLE relay   \* one call of console_websocket

Peers == {"browser", "gateway"}

OtherSide(p) == CHOOSE q \in Peers : q # p

\* The tasks browser_to_gateway and gateway_to_browser, named by what they read.
Over(p) == relay.task[p] \in {"ended", "failed"}

-----------------------------------------------------------------------------
\* A browser that names no origin is let in.
SameOriginWebsocket(origin, scheme) ==
    origin = <<>> \/ origin = <<IF scheme = "wss" THEN "https" ELSE "http", "console">>

RelayInit ==
    \E origin \in Origins, scheme \in Schemes :
        relay = [pc |-> "handshake", origin |-> origin, scheme |-> scheme,
                 here |-> [p \in Peers |-> p = "browser"],
                 sent |-> [p \in Peers |-> 0], taken |-> [p \in Peers |-> 0],
                 delivered |-> [p \in Peers |-> 0],
                 task |-> [p \in Peers |-> "none"]]

\* Accepted, or closed with 1008.
Handshake ==
    /\ relay.pc = "handshake"
    /\ relay' = [relay EXCEPT !.pc = IF SameOriginWebsocket(relay.origin, relay.scheme)
                                     THEN "connecting" ELSE "refused"]

\* The gateway answers and both tasks are created, or it does not and the
\* browser is closed with 1011.
Connect ==
    /\ relay.pc = "connecting"
    /\ \/ relay' = [relay EXCEPT !.pc = "relaying", !.here["gateway"] = TRUE,
                                 !.task = [p \in Peers |-> "reading"]]
       \/ relay' = [relay EXCEPT !.pc = "done"]

Sends(p) ==
    /\ relay.here[p] /\ relay.pc \in {"connecting", "relaying"} /\ relay.sent[p] < MaxFrames
    /\ relay' = [relay EXCEPT !.sent[p] = @ + 1]

Leaves(p) ==
    /\ relay.here[p] /\ relay.pc \in {"connecting", "relaying"}
    /\ relay' = [relay EXCEPT !.here[p] = FALSE]

Receive(p) ==
    /\ relay.pc = "relaying" /\ relay.task[p] = "reading" /\ relay.taken[p] < relay.sent[p]
    /\ relay' = [relay EXCEPT !.taken[p] = @ + 1, !.task[p] = "sending"]

\* What was sent before it left is read first.
SeesEnd(p) ==
    /\ relay.pc = "relaying" /\ relay.task[p] = "reading"
    /\ ~ relay.here[p] /\ relay.taken[p] = relay.sent[p]
    /\ relay' = [relay EXCEPT !.task[p] = "ended"]

Deliver(p) ==
    /\ relay.pc = "relaying" /\ relay.task[p] = "sending"
    /\ \/ relay' = [relay EXCEPT !.task[p] = "reading",
                                 !.delivered[p] = IF relay.here[OtherSide(p)] THEN @ + 1 ELSE @]
       \/ /\ ~ relay.here[OtherSide(p)]
          /\ relay' = [relay EXCEPT !.task[p] = "failed"]

Pump(p) == Receive(p) \/ SeesEnd(p) \/ Deliver(p)

\* Plausible bug: a peer that left is not read to its end.
StopEarly ==
    /\ relay.pc = "relaying" /\ \E p \in Peers : ~ relay.here[p]
    /\ relay' = [relay EXCEPT !.pc = "closing",
                              !.task = [p \in Peers |-> IF Over(p) THEN @[p] ELSE "cancelled"]]

\* The first task that ends wakes the handler, which cancels the other one.
Stop ==
    /\ relay.pc = "relaying" /\ \E p \in Peers : Over(p)
    /\ relay' = [relay EXCEPT !.pc = "closing",
                              !.task = [p \in Peers |-> IF Over(p) THEN @[p] ELSE "cancelled"]]

\* The gateway's websocket is closed as the handler returns, and the browser's
\* by the server.
CloseUpstream ==
    /\ relay.pc = "closing"
    /\ relay' = [relay EXCEPT !.pc = "done"]

Handler == Handshake \/ Connect \/ Stop \/ CloseUpstream

RelayNext ==
    \/ Handler
    \/ \E p \in Peers : Sends(p) \/ Leaves(p) \/ Pump(p)

\* The event loop runs what is ready, the connection attempt is bounded in time,
\* and a peer that is there reads what it is sent or is found dead by its pings.
RelayFairness ==
    /\ WF_relay(Handler)
    /\ \A p \in Peers : WF_relay(Pump(p))

RelaySpec == RelayInit /\ [][RelayNext]_relay /\ RelayFairness

-----------------------------------------------------------------------------
\* Once a peer has left, both connections end; and what it sent before it left
\* has reached the other one, unless that one left too or a frame on its way to
\* the peer found it gone first (console/app.py console_websocket:
\* FIRST_COMPLETED, and then the other task is cancelled).
EveryRelayEnds ==
    \A p \in Peers :
        (relay.pc = "relaying" /\ ~ relay.here[p]) ~>
            /\ relay.pc = "done"
            /\ relay.here[OtherSide(p)] /\ relay.task[OtherSide(p)] # "failed" =>
                  relay.delivered[p] = relay.sent[p]
=============================================================================
