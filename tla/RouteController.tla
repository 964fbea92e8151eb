------------------------- MODULE RouteController -------------------------
(***************************************************************************)
(* The generation-bound route of a signed-WSS client: RouteController.     *)
(*                                                                         *)
(* Every event of a socket, timer, promise reaction and public call is one *)
(* action.  Reactions run in microtasks after the event that settled their *)
(* promise: here they may run any time later, which is what the staleness  *)
(* checks at their head are for.  A socket is known by the generation that *)
(* made it, the content of frames by what the handler makes of them.       *)
(***************************************************************************)
EXTENDS Naturals, FiniteSets

CONSTANTS MaxGen,        \* bound: generations
          MaxReconnects  \* reconnectMaxAttempts()

ASSUME RouteAssumption == MaxGen \in Nat /\ MaxGen >= 3 /\ MaxReconnects \in Nat

Gen == 1 .. MaxGen
None == 0

VARIABLES
  state_,     \* what the route says of itself
  gen,        \* generation_
  bound,      \* negotiatedGeneration, None for -1
  caps,       \* does capabilities_ hold anything?
  sock,       \* socket, by its generation
  conn,       \* connectingSocket
  active,     \* activeEstablishment, by its generation
  control,    \* pendingControl, by its generation
  ctlTimers,  \* the armed timers of control exchanges
  attempts,   \* reconnectAttempts
  timer,      \* is reconnectTimer armed?
  link,       \* each socket: "none", "dialing", "open", "closing" or "gone"
  connected,  \* the generations whose socket was accepted in its open event
  step,       \* how far each handshake got
  promise,    \* the promise of each establishment: negotiate() hands it out
  wasReady,   \* history: generations that became ready
  lost        \* history: generations published through onRouteLost

sockets == <<sock, conn, link, connected>>
handshake == <<control, ctlTimers, step>>
binding == <<bound, caps>>
retry == <<attempts, timer>>
history == <<wasReady, lost>>

controllerVars == <<state_, gen, binding, sockets, active, handshake, retry, promise, history>>

closed == state_ = "closed"
establishing == \E g \in Gen : promise[g] = "pending"
Settled(g) == promise[g] # "pending"
Stale(g) == Settled(g) \/ closed \/ g # gen

RouteState == {"disconnected", "connecting", "authenticating", "negotiating",
               "ready", "reconnecting", "unavailable", "closed"}

RouteTypeOK ==
  /\ state_ \in RouteState
  /\ {gen, bound, sock, conn, active, control} \subseteq Gen \cup {None}
  /\ caps \in BOOLEAN /\ timer \in BOOLEAN
  /\ ctlTimers \cup connected \cup wasReady \cup lost \subseteq Gen
  /\ attempts \in 0 .. MaxReconnects
  /\ link \in [Gen -> {"none", "dialing", "open", "closing", "gone"}]
  /\ step \in [Gen -> {"none", "auth", "acked", "control", "answered", "refused"}]
  /\ promise \in [Gen -> {"none", "pending", "resolved", "rejected"}]

RouteInit ==
  /\ state_ = "disconnected"
  /\ gen = 0
  /\ bound = None /\ caps = FALSE
  /\ sock = None /\ conn = None /\ active = None
  /\ control = None /\ ctlTimers = {}
  /\ attempts = 0 /\ timer = FALSE
  /\ link = [g \in Gen |-> "none"]
  /\ connected = {}
  /\ step = [g \in Gen |-> "none"]
  /\ promise = [g \in Gen |-> "none"]
  /\ wasReady = {} /\ lost = {}

-----------------------------------------------------------------------------
(* Parts of the handlers *)

\* scheduleReconnect() after state_ = "reconnecting": one timer, within budget.
Reconnecting ==
  IF timer THEN state_' = "reconnecting" /\ UNCHANGED retry
  ELSE IF attempts >= MaxReconnects THEN state_' = "unavailable" /\ UNCHANGED retry
  ELSE state_' = "reconnecting" /\ timer' = TRUE /\ attempts' = attempts + 1

\* socket.close() or terminate() on the sockets gs.
Closing(gs) == [g \in Gen |-> IF g \in gs /\ link[g] \in {"dialing", "open"} THEN "closing" ELSE link[g]]

Without(v, g) == IF v = g THEN None ELSE v

\* detachSocket() for the current generation.
Detach(g) ==
  /\ sock' = Without(sock, g)
  /\ conn' = Without(conn, g)
  /\ control' = None
  /\ ctlTimers' = ctlTimers \ {control}
  /\ link' = Closing({g})

\* fail() of the current, unsettled establishment.
Fail(g, transient) ==
  /\ promise' = [promise EXCEPT ![g] = "rejected"]
  /\ active' = Without(active, g)
  /\ Detach(g)
  /\ IF transient THEN Reconnecting /\ UNCHANGED binding
     ELSE state_' = "unavailable" /\ bound' = None /\ caps' = FALSE /\ UNCHANGED retry

-----------------------------------------------------------------------------
(* Public calls and the reconnect timer *)

\* establish().  The bound leaves room for a loss and for close().
Establish(armed) ==
  LET g == gen + 1 IN
  /\ gen + 3 <= MaxGen
  /\ gen' = g
  /\ state_' = "connecting"
  /\ conn' = g
  /\ active' = g
  /\ link' = [link EXCEPT ![g] = "dialing"]
  /\ promise' = [promise EXCEPT ![g] = "pending"]
  /\ timer' = armed
  /\ UNCHANGED <<binding, sock, connected, handshake, attempts, history>>

\* Seeded fault: negotiate() forgets to cancel the timer.
FaultNegotiate ==
  /\ ~closed
  /\ ~(state_ = "ready" /\ caps /\ gen = bound)
  /\ ~establishing
  /\ Establish(timer)

\* negotiate(), when it neither returns at once nor joins an attempt.
Negotiate ==
  /\ ~closed
  /\ ~(state_ = "ready" /\ caps /\ gen = bound)
  /\ ~establishing
  /\ Establish(FALSE)

ReconnectTimer == timer /\ Establish(FALSE)

\* close() of the controller in the state given by its arguments.
Shut(g, p, l, c, t) ==
  /\ state_' = "closed"
  /\ gen' = g + 1
  /\ bound' = None /\ caps' = FALSE
  /\ sock' = None /\ conn' = None /\ active' = None
  /\ control' = None /\ ctlTimers' = t \ {c}
  /\ timer' = FALSE
  /\ link' = l
  /\ promise' = p
  /\ UNCHANGED <<attempts, connected>>

Close ==
  /\ ~closed
  /\ Shut(gen,
          [g \in Gen |-> IF g = active /\ g = gen /\ ~Settled(g) THEN "rejected" ELSE promise[g]],
          Closing({sock, conn} \cup IF active = gen THEN {active} ELSE {}),
          control, ctlTimers)
  /\ UNCHANGED <<step, history>>

-----------------------------------------------------------------------------
(* The socket's events *)

\* "open": the pin is checked, an older socket closed, authentication starts.
Opened(g) ==
  /\ link[g] = "dialing"
  /\ IF Stale(g)
     THEN /\ link' = [link EXCEPT ![g] = "closing"]
          /\ UNCHANGED <<state_, gen, binding, sock, conn, connected, active, handshake,
                         retry, promise>>
     ELSE \/ Fail(g, FALSE) /\ UNCHANGED <<gen, connected, step>>
          \/ /\ link' = [Closing({sock} \ {g}) EXCEPT ![g] = "open"]
             /\ sock' = g
             /\ conn' = Without(conn, g)
             /\ connected' = connected \cup {g}
             /\ state_' = "authenticating"
             /\ step' = [step EXCEPT ![g] = "auth"]
             /\ UNCHANGED <<gen, binding, active, control, ctlTimers, retry, promise>>
  /\ UNCHANGED history

\* "error" before "open": refused, unreachable, handshake timeout.
SocketError(g) ==
  /\ link[g] = "dialing"
  /\ IF Stale(g) THEN /\ link' = [link EXCEPT ![g] = "closing"]
                      /\ UNCHANGED <<state_, binding, sock, conn, active, control, ctlTimers,
                                     retry, promise>>
     ELSE Fail(g, TRUE)
  /\ UNCHANGED <<gen, connected, step, history>>

PeerCloses(g) ==
  /\ link[g] = "open"
  /\ link' = [link EXCEPT ![g] = "closing"]
  /\ UNCHANGED <<state_, gen, binding, sock, conn, connected, active, handshake, retry,
                 promise, history>>

\* loseRoute() of generation g as far as it is not at stake in a fault: p the
\* promises, t the control timers, l the losses published.  The callback may
\* close the controller (shut), when its checkpoint fails.
Losing(g, shut, p, t, l) ==
  LET gone == [link EXCEPT ![g] = "gone"] IN
  /\ lost' = l
  /\ IF shut THEN Shut(gen + 1, p, gone, control, ctlTimers)
     ELSE /\ gen' = gen + 1
          /\ bound' = None /\ caps' = FALSE
          /\ control' = None
          /\ ctlTimers' = t
          /\ active' = Without(active, g)
          /\ promise' = p
          /\ sock' = None
          /\ conn' = IF active = g THEN Without(conn, g) ELSE conn
          /\ link' = gone
          /\ Reconnecting
          /\ UNCHANGED connected
  /\ UNCHANGED <<step, wasReady>>

LostPromises(g) == [promise EXCEPT ![g] = IF active = g /\ ~Settled(g) THEN "rejected" ELSE @]

\* Seeded fault: the attempt of a lost route is not failed.
FaultLosePending(g, shut) == Losing(g, shut, promise, ctlTimers \ {control}, lost \cup {g})

\* The generation is over before anything else of it can run.
LoseRoute(g, shut) ==
  Losing(g, shut, LostPromises(g), ctlTimers \ {control}, lost \cup {g})

\* "close".
SocketGone(g) ==
  /\ link[g] \in {"dialing", "closing"}
  /\ IF ~closed /\ g = gen /\ g \in connected
     THEN \E shut \in BOOLEAN : LoseRoute(g, shut)
     ELSE /\ link' = [link EXCEPT ![g] = "gone"]
          /\ IF Settled(g) \/ (~closed /\ g # gen) THEN UNCHANGED <<state_, retry, promise>>
             ELSE /\ promise' = [promise EXCEPT ![g] = "rejected"]
                  /\ IF closed THEN UNCHANGED <<state_, retry>> ELSE Reconnecting
          /\ UNCHANGED <<gen, binding, sock, conn, connected, active, handshake, history>>

-----------------------------------------------------------------------------
(* Authentication and the control exchange *)

\* What the handshake on socket g leaves alone while it goes on.
Handshaking == UNCHANGED <<gen, binding, sockets, active, retry, promise, history>>

\* hello_ack; a refused challenge, a throwing signer, or the timeout.
Authenticated(g) ==
  /\ step[g] = "auth"
  /\ \/ /\ link[g] \in {"open", "closing"} /\ g = gen /\ ~closed /\ sock = g
        /\ step' = [step EXCEPT ![g] = "acked"]
     \/ step' = [step EXCEPT ![g] = "refused"]
  /\ Handshaking
  /\ UNCHANGED <<state_, control, ctlTimers>>

\* The reaction to authenticate(): runControlNegotiate(), which may not get its
\* frame out.
StartControl(g) ==
  /\ step[g] = "acked"
  /\ IF Stale(g)
     THEN step' = [step EXCEPT ![g] = "none"] /\ UNCHANGED <<state_, control, ctlTimers>>
     ELSE /\ state_' = "negotiating"
          /\ \/ /\ sock = g
                /\ control' = g
                /\ ctlTimers' = ctlTimers \cup {g}
                /\ step' = [step EXCEPT ![g] = "control"]
             \/ /\ control' = IF sock = g THEN None ELSE control
                /\ step' = [step EXCEPT ![g] = "refused"]
                /\ UNCHANGED ctlTimers
  /\ Handshaking

\* handleControlMessage() for the response the exchange waits for.
ControlAnswer(g) ==
  /\ control = g
  /\ g = gen
  /\ link[g] \in {"open", "closing"}
  /\ control' = None
  /\ ctlTimers' = ctlTimers \ {g}
  /\ \E how \in {"answered", "refused"} : step' = [step EXCEPT ![g] = how]
  /\ Handshaking
  /\ UNCHANGED state_

\* The timer clears whatever exchange is pending when it fires.
ControlTimeout(g) ==
  /\ g \in ctlTimers
  /\ ctlTimers' = ctlTimers \ {g}
  /\ control' = None
  /\ step' = [step EXCEPT ![g] = "refused"]
  /\ Handshaking
  /\ UNCHANGED state_

\* Seeded fault: the reaction does not look whether it is stale.
FaultBecomeReady(g) ==
  /\ step[g] = "answered"
  /\ step' = [step EXCEPT ![g] = "none"]
  /\ promise' = [promise EXCEPT ![g] = "resolved"]
  /\ active' = Without(active, g)
  /\ caps' = TRUE
  /\ bound' = g
  /\ attempts' = 0
  /\ state_' = "ready"
  /\ wasReady' = wasReady \cup {g}
  /\ UNCHANGED <<gen, sockets, control, ctlTimers, timer, lost>>

\* The reaction to a good answer: the only way to become ready.
BecomeReady(g) ==
  /\ step[g] = "answered"
  /\ step' = [step EXCEPT ![g] = "none"]
  /\ IF Stale(g) THEN UNCHANGED <<state_, binding, active, attempts, promise, wasReady>>
     ELSE /\ promise' = [promise EXCEPT ![g] = "resolved"]
          /\ active' = Without(active, g)
          /\ caps' = TRUE
          /\ bound' = g
          /\ attempts' = 0
          /\ state_' = "ready"
          /\ wasReady' = wasReady \cup {g}
  /\ UNCHANGED <<gen, sockets, control, ctlTimers, timer, lost>>

\* The reaction to a failed authentication or exchange.
HandshakeFails(g) ==
  /\ step[g] = "refused"
  /\ step' = [step EXCEPT ![g] = "none"]
  /\ IF Stale(g) THEN UNCHANGED <<state_, binding, sock, conn, link, active, control,
                                  ctlTimers, retry, promise>>
     ELSE Fail(g, FALSE)
  /\ UNCHANGED <<gen, connected, history>>

-----------------------------------------------------------------------------
RouteNext ==
  \/ Negotiate \/ ReconnectTimer \/ Close
  \/ \E g \in Gen :
       \/ Opened(g) \/ SocketError(g) \/ PeerCloses(g) \/ SocketGone(g)
       \/ Authenticated(g) \/ StartControl(g) \/ ControlAnswer(g)
       \/ ControlTimeout(g) \/ BecomeReady(g) \/ HandshakeFails(g)

RouteSpec == RouteInit /\ [][RouteNext]_controllerVars

\* Handshakes time out, closing sockets end, reactions run.  Nothing obliges a
\* peer to answer.
RouteFairness ==
  \A g \in Gen :
    /\ WF_controllerVars(SocketError(g)) /\ WF_controllerVars(SocketGone(g)) /\ WF_controllerVars(Authenticated(g))
    /\ WF_controllerVars(StartControl(g)) /\ WF_controllerVars(ControlTimeout(g))
    /\ WF_controllerVars(BecomeReady(g)) /\ WF_controllerVars(HandshakeFails(g))

RouteFairSpec == RouteSpec /\ RouteFairness

-----------------------------------------------------------------------------
(* Properties *)

\* A control timer is armed only for the exchange that is pending: a late one
\* would clear the exchange of a newer generation.
ControlTimersAreCurrent == ctlTimers = IF control = None THEN {} ELSE {control}

\* One attempt at a time, and never none when one is due: a pending attempt is
\* that of the current generation with no reconnect timer beside it, a state of an
\* attempt has its attempt, and a route that says it reconnects has its timer
\* ("Rearm: cancel any pending reconnect timer so exactly one attempt runs").
OneAttemptUnderWay ==
  /\ \A g \in Gen : promise[g] = "pending" => g = gen /\ ~timer
  /\ state_ \in {"connecting", "authenticating", "negotiating"} => promise[gen] = "pending"
  /\ state_ = "reconnecting" => timer

\* No socket lives on unheld: one that dials or is open is held by the
\* controller, so that close() and the next attempt can end it.
NoOrphanSocket == \A g \in Gen : link[g] \in {"dialing", "open"} => g \in {sock, conn}

\* The loss of a ready generation is always published, unless the controller
\* was closed: the transport requeues its in-flight frame on no other signal.
LossPublished ==
  \A g \in wasReady : g \in lost \/ closed \/ (state_ = "ready" /\ gen = g)

\* No generation is forgotten: its socket ends, and so does what waits on it.
GenerationsEnd == NoOrphanSocket /\ LossPublished /\ ControlTimersAreCurrent

\* Both: one attempt and one socket at a time, and a loss is told (establish(),
\* loseRoute(), scheduleReconnect()).
OneLiveSocket == OneAttemptUnderWay /\ GenerationsEnd

\* What SignedWssTransport relies on of its route.
RouteOf ==
  IF state_ # "ready" THEN "down" ELSE IF link[gen] = "open" THEN "ready" ELSE "closing"

Abstract == INSTANCE Route WITH route <- RouteOf, gen <- gen
ImplementsRoute == Abstract!Spec

\* negotiate() settles whatever the peer does or does not do: every wait of the
\* handshake has its timeout.  Since a promise settles once, again and again none
\* is pending.
NegotiateSettles == []<>(\A g \in Gen : promise[g] # "pending")
=============================================================================
