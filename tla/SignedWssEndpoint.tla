------------------------- MODULE SignedWssEndpoint --------------------------
(***************************************************************************)
(* The remote endpoint of a daemon: its sockets, the checks a signed       *)
(* request passes before it is dispatched (signed-wss-endpoint.ts), the    *)
(* nonces it claims (nonce-store.ts), the audit that must record the       *)
(* decision (remote-audit.ts), and the shutdown.  The client's side is     *)
(* SignedWssTransport, the service behind it MutationService.              *)
(*                                                                         *)
(* A frame is what a peer signed: its nonce, its time and its request.     *)
(* Signatures are dated in whole seconds of the signer's clock, which may  *)
(* be ahead of the daemon's; nonces expire by a finer clock.               *)
(***************************************************************************)
EXTENDS Integers, FiniteSets

CONSTANTS
  Socket,
  WssFrame,
  WssRequest,
  RequestOf,   \* the request a frame carries: a resent request is signed anew
  SignedAt,    \* when a frame was signed, in seconds
  Second,      \* ticks of the clock in a second
  Skew,        \* the seconds by which a signer's clock may be ahead
  StampWindow, \* WSS_TIMESTAMP_WINDOW_SEC
  Ttl,         \* NONCE_TTL_MS, in ticks
  MaxInflight, \* WSS_MAX_INFLIGHT
  MaxTime,     \* bound: ticks of the clock
  MaxBoot      \* bound: starts of the daemon

ASSUME EndpointAssumption ==
  /\ RequestOf \in [WssFrame -> WssRequest] /\ SignedAt \in [WssFrame -> Int]
  /\ Second \in Nat \ {0} /\ Skew \in Nat /\ StampWindow \in Nat /\ Ttl \in Nat
  /\ MaxInflight \in Nat /\ MaxTime \in Nat /\ MaxBoot \in Nat \ {0}

VARIABLES
  now,      \* the clock
  nonces,   \* the nonce table: when the nonce of a frame expires, or Never
  decided,  \* the frames the audit holds an allowing decision of
  degraded, \* has the audit failed in this life?
  socket,   \* each socket: closed, open until the hello, ready
  under,    \* the dispatches under way: socket and frame
  stage,    \* serving, closed (to new work), quiesced or stopped
  dispatched, \* history: how often each frame was dispatched
  boots    \* starts of the daemon

endpointVars == <<now, nonces, decided, degraded, socket, under, stage, dispatched, boots>>

Never == -1

EndpointTypeOK ==
  /\ now \in 0..MaxTime /\ nonces \in [WssFrame -> Int] /\ decided \subseteq WssFrame /\ degraded \in BOOLEAN
  /\ socket \in [Socket -> {"closed", "open", "ready"}] /\ under \subseteq Socket \X WssFrame
  /\ stage \in {"serving", "closed", "quiesced", "stopped"}
  /\ dispatched \in [WssFrame -> Nat] /\ boots \in 1..MaxBoot

EndpointInit ==
  /\ now = 0 /\ nonces = [f \in WssFrame |-> Never] /\ decided = {} /\ degraded = FALSE
  /\ socket = [s \in Socket |-> "closed"] /\ under = {} /\ stage = "serving"
  /\ dispatched = [f \in WssFrame |-> 0] /\ boots = 1

EndpointTick ==
  /\ now < MaxTime /\ now' = now + 1
  /\ UNCHANGED <<nonces, decided, degraded, socket, under, stage, dispatched, boots>>

-----------------------------------------------------------------------------
(* Sockets.                                                                *)

\* A connection is challenged.
Connect(s) ==
  /\ stage \in {"serving", "closed"} /\ socket[s] = "closed"
  /\ socket' = [socket EXCEPT ![s] = "open"]
  /\ UNCHANGED <<now, nonces, decided, degraded, under, stage, dispatched, boots>>

\* A hello that answers the challenge in time makes the socket its peer's.
Hello(s) ==
  /\ socket[s] = "open" /\ stage # "stopped"
  /\ socket' = [socket EXCEPT ![s] = "ready"]
  /\ UNCHANGED <<now, nonces, decided, degraded, under, stage, dispatched, boots>>

\* A bad or late hello, a bad frame, the idle timeout or the network.
Hangup(s) ==
  /\ socket[s] # "closed"
  /\ socket' = [socket EXCEPT ![s] = "closed"]
  /\ UNCHANGED <<now, nonces, decided, degraded, under, stage, dispatched, boots>>

-----------------------------------------------------------------------------
(* A request.                                                              *)

Inflight(s) == {f \in WssFrame : <<s, f>> \in under}

\* signRequest(): the frame is there when the signer's clock has come to its time.
Signed(f) == (SignedAt[f] - Skew) * Second <= now

\* verifyRequestSignature(): the second that now falls in is at most StampWindow from the
\* frame's.
Lapses(f) == (SignedAt[f] + StampWindow + 1) * Second
Timely(f) == (SignedAt[f] - StampWindow) * Second <= now /\ now < Lapses(f)

\* Rows whose time is over.
Expired(f) == nonces[f] # Never /\ nonces[f] < now

\* Seeded fault: nonces are forgotten when the window of their claim is over.
FaultExpiry == now + StampWindow * Second

\* When a nonce claimed now may be forgotten.
Expiry == now + Ttl

\* An insert finds no row of the frame's nonce.
Fresh(f) == nonces[f] = Never \/ Expired(f)

\* claim(): what is over is deleted, and one insert wins.
Claimed(f) == [g \in WssFrame |-> IF g = f /\ Fresh(f) THEN Expiry ELSE IF Expired(g) THEN Never ELSE nonces[g]]

\* What is refused before a nonce is claimed leaves no trace.
Heard(s, f) ==
  /\ socket[s] = "ready" /\ stage = "serving"
  /\ Cardinality(Inflight(s)) < MaxInflight /\ Signed(f) /\ Timely(f)

\* The nonce is taken, or the store fails: what is over may be gone all the same.
NotClaimed(s, f) ==
  /\ Heard(s, f)
  /\ \/ ~Fresh(f) /\ nonces' = Claimed(f)
     \/ nonces' \in {nonces, [g \in WssFrame |-> IF Expired(g) THEN Never ELSE nonces[g]]}
  /\ UNCHANGED <<now, decided, degraded, socket, under, stage, dispatched, boots>>

Claims(s, f) == Heard(s, f) /\ Fresh(f) /\ nonces' = Claimed(f)

\* A method its peer has no grant for: the audit is told, or fails.
Unauthorized(s, f) ==
  /\ Claims(s, f) /\ degraded' \in {degraded, TRUE}
  /\ UNCHANGED <<now, decided, socket, under, stage, dispatched, boots>>

UnderWay(s, f) == RequestOf[f] \in {RequestOf[g] : g \in Inflight(s)}

\* The request, signed again, is under way on this socket.
Duplicate(s, f) ==
  /\ Claims(s, f) /\ UnderWay(s, f)
  /\ UNCHANGED <<now, decided, degraded, socket, under, stage, dispatched, boots>>

\* record(): a failure degrades the audit for as long as the daemon lives.
Recorded(f) == ~degraded /\ decided' = decided \cup {f} /\ UNCHANGED degraded

Dispatch(s, f) ==
  /\ Claims(s, f) /\ ~UnderWay(s, f) /\ Recorded(f)
  /\ under' = under \cup {<<s, f>>}
  /\ dispatched' = [dispatched EXCEPT ![f] = @ + 1]
  /\ UNCHANGED <<now, socket, stage, boots>>

\* The audit fails, or has failed, or the record is too long: the request is refused.
AuditFails(s, f) ==
  /\ Claims(s, f) /\ ~UnderWay(s, f) /\ degraded' \in {degraded, TRUE}
  /\ UNCHANGED <<now, decided, socket, under, stage, dispatched, boots>>

\* The service answers; the response reaches a socket that is still there.
Finish(d) ==
  /\ d \in under /\ under' = under \ {d}
  /\ UNCHANGED <<now, nonces, decided, degraded, socket, stage, dispatched, boots>>

-----------------------------------------------------------------------------
(* The shutdown: the service closes, then the endpoint quiesces and stops. *)

CloseService ==
  /\ stage = "serving" /\ stage' = "closed"
  /\ UNCHANGED <<now, nonces, decided, degraded, socket, under, dispatched, boots>>

\* No new connection; those established keep their accepted work.
Quiesce ==
  /\ stage = "closed" /\ stage' = "quiesced"
  /\ UNCHANGED <<now, nonces, decided, degraded, socket, under, dispatched, boots>>

\* stop(): the wait ends when the work is done or the time is over.
Stop ==
  /\ stage = "quiesced" /\ stage' = "stopped"
  /\ socket' = [s \in Socket |-> "closed"]
  /\ UNCHANGED <<now, nonces, decided, degraded, under, dispatched, boots>>

\* The daemon ends, at any moment, and starts again on the same stores.
Restart ==
  /\ boots < MaxBoot /\ boots' = boots + 1
  /\ socket' = [s \in Socket |-> "closed"] /\ under' = {}
  /\ stage' = "serving" /\ degraded' = FALSE
  /\ UNCHANGED <<now, nonces, decided, dispatched>>

EndpointNext ==
  \/ EndpointTick \/ CloseService \/ Quiesce \/ Stop \/ Restart
  \/ \E s \in Socket : Connect(s) \/ Hello(s) \/ Hangup(s)
  \/ \E s \in Socket, f \in WssFrame : NotClaimed(s, f) \/ Unauthorized(s, f) \/ Duplicate(s, f) \/ Dispatch(s, f) \/ AuditFails(s, f)
  \/ \E d \in under : Finish(d)

EndpointSpec == EndpointInit /\ [][EndpointNext]_endpointVars

-----------------------------------------------------------------------------
(* What must hold.                                                         *)

\* A signed frame is dispatched once, however often it arrives, over which
\* connection, before or after a restart: its nonce outlives the time in which
\* its signature is accepted (claim(), verifyRequestSignature()).
DispatchedOnce ==
  \A f \in WssFrame : dispatched[f] <= 1 /\ (dispatched[f] = 1 => f \in decided)
=============================================================================
