---------------------------- MODULE LocalTransport ----------------------------
(***************************************************************************)
(* The local client (local-transport.ts) over its socket to the daemon     *)
(* (handleConnection() of local-endpoint-server.ts).  A connection is a    *)
(* number, the generation it gets when it connects.  The requests that     *)
(* wait for an answer are kept over a lost connection, which reconnects    *)
(* within a budget and replays them; the daemon's ledger knows a replay by *)
(* its key.                                                                *)
(*                                                                         *)
(* A stream is in order: what the client wrote is read, and what the       *)
(* daemon wrote arrives, first in first out, or is lost with the           *)
(* connection.                                                             *)
(***************************************************************************)
EXTENDS Integers, Sequences, FiniteSets, SequencesExt

CONSTANTS
  LocalCall,   \* requests, each with an id and, if it mutates, a key of its own
  MaxGen,      \* bound: connections made
  MaxAttempts, \* RECONNECT_MAX_ATTEMPTS
  MaxInflight, \* CONNECTION_MAX_INFLIGHT
  MaxRestart   \* bound: deaths of the daemon

ASSUME LocalAssumption ==
  /\ IsFiniteSet(LocalCall) /\ MaxGen \in Nat /\ MaxAttempts \in Nat \ {0}
  /\ MaxInflight \in Nat \ {0} /\ MaxRestart \in Nat

NoGen == 0
Gen == 1..MaxGen

VARIABLES
  callers,     \* where each request is for its caller
  outstanding, \* the requests in `pending`, in the order they were written first
  current,     \* currentGeneration, or NoGen
  made,        \* generationSeq
  connecting,  \* connectPromise: is a socket being connected, and was it settled?
  timer,       \* is the reconnect timer armed, or its ensureConnected() awaited?
  attempts,    \* reconnectAttempts
  closed,
  wire,        \* of each connection: open, closing or gone, and its two streams
  daemon,      \* "up", "closing" or "down"
  inflight,    \* of each connection the requests the daemon is at work on
  ledger,      \* the requests that took effect
  restarts

clientVars == <<callers, outstanding, current, made, connecting, timer, attempts, closed>>
daemonVars == <<daemon, ledger, restarts>>
localVars == <<clientVars, wire, inflight, daemonVars>>

\* What a caller knows: nothing yet, or "not_sent" and "overload" (the request did
\* not begin), "turned_away" (a service that is closed says so too), "uncertain"
\* (unavailable or outcome_unknown), or the answer.
Told == {"not_sent", "overload", "turned_away", "uncertain", "done"}
CallState == {"unused", "connecting", "waiting"} \cup Told

Quiet == [state |-> "none", sent |-> <<>>, back |-> <<>>]

LocalTypeOK ==
  /\ callers \in [LocalCall -> CallState]
  /\ outstanding \in Seq(LocalCall)
  /\ current \in Gen \cup {NoGen} /\ made \in 0..MaxGen
  /\ connecting \in BOOLEAN /\ timer \in {"off", "armed", "awaits"}
  /\ attempts \in 0..MaxAttempts /\ closed \in BOOLEAN
  /\ wire \in [Gen -> [state : {"none", "open", "destroyed", "gone"}, sent : Seq(LocalCall),
                       back : Seq([call : LocalCall, says : Told])]]
  /\ daemon \in {"up", "closing", "down"}
  /\ inflight \in [Gen -> SUBSET LocalCall] /\ ledger \subseteq LocalCall /\ restarts \in 0..MaxRestart

LocalInit ==
  /\ callers = [c \in LocalCall |-> "unused"] /\ outstanding = <<>>
  /\ current = NoGen /\ made = 0 /\ connecting = FALSE /\ timer = "off" /\ attempts = 0
  /\ closed = FALSE /\ wire = [g \in Gen |-> Quiet]
  /\ daemon = "up" /\ inflight = [g \in Gen |-> {}] /\ ledger = {} /\ restarts = 0

-----------------------------------------------------------------------------
(* The client *)

Without(c) == SelectSeq(outstanding, LAMBDA d : d # c)
Waiting(c) == callers[c] = "waiting"
Pending == {outstanding[i] : i \in DOMAIN outstanding}
\* Callers that are told what nobody has told them yet.
Tell(these, says) == [c \in LocalCall |-> IF c \in these /\ Waiting(c) THEN says ELSE callers[c]]

Linked == current # NoGen /\ wire[current].state = "open"
Written(w, g, cs) == [w EXCEPT ![g].sent = @ \o cs]
\* socket.destroy(): no response arrives any more, the close event comes later, and
\* the daemon may still read what was written.
Destroyed(w, g) == IF w[g].state # "open" THEN w ELSE [w EXCEPT ![g].state = "destroyed", ![g].back = <<>>]
\* The daemon ends a connection.
Cut(w, g) == [w EXCEPT ![g].state = IF @ = "open" THEN "destroyed" ELSE @, ![g].sent = <<>>, ![g].back = <<>>]

\* request(): writes on a live connection, or waits for one.
Request(c) ==
  /\ callers[c] = "unused"
  /\ IF closed
     THEN callers' = [callers EXCEPT ![c] = "not_sent"] /\ UNCHANGED <<outstanding, connecting, wire>>
     ELSE IF Linked
     THEN /\ callers' = [callers EXCEPT ![c] = "waiting"] /\ outstanding' = Append(outstanding, c)
          /\ wire' = Written(wire, current, <<c>>) /\ UNCHANGED connecting
     ELSE /\ callers' = [callers EXCEPT ![c] = "connecting"] /\ connecting' = TRUE
          /\ UNCHANGED <<outstanding, wire>>
  /\ UNCHANGED <<current, made, timer, attempts, closed, inflight, daemonVars>>

\* Those that await ensureConnected() go on before any other event.
Await == {c \in LocalCall : callers[c] = "connecting"}
NotSent == [c \in LocalCall |-> IF c \in Await THEN "not_sent" ELSE callers[c]]

\* The connection is made: the timer goes, the budget is whole again, what is
\* pending is replayed, and who waited for the connection writes.
Connected ==
  /\ connecting /\ daemon # "down" /\ connecting' = FALSE
  /\ IF closed
     THEN callers' = NotSent /\ UNCHANGED <<outstanding, current, made, timer, attempts, wire>>
     ELSE /\ made < MaxGen /\ made' = made + 1 /\ current' = made'
          /\ timer' = "off" /\ attempts' = 0
          /\ callers' = [c \in LocalCall |-> IF c \in Await THEN "waiting" ELSE callers[c]]
          /\ outstanding' = outstanding \o SetToSeq(Await)
          /\ wire' = [wire EXCEPT ![made'] = [Quiet EXCEPT !.state = "open", !.sent = outstanding']]
  /\ UNCHANGED <<closed, inflight, daemonVars>>

\* scheduleReconnect(): one timer; a budget that is spent settles what is pending.
ReconnectLater(told) ==
  IF closed \/ timer = "armed"
  THEN callers' = told /\ UNCHANGED <<timer, attempts, outstanding>>
  ELSE IF attempts >= MaxAttempts
  THEN /\ callers' = [c \in LocalCall |-> IF c \in Pending /\ Waiting(c) THEN "uncertain" ELSE told[c]]
       /\ outstanding' = <<>> /\ timer' = "off" /\ UNCHANGED attempts
  ELSE /\ timer' = "armed" /\ attempts' = attempts + 1
       /\ callers' = told /\ UNCHANGED outstanding

\* A connection that is refused: who waited for it is told, and the timer that
\* waited for it is armed anew.
Refused ==
  /\ connecting /\ daemon = "down" /\ connecting' = FALSE
  /\ IF timer = "awaits" THEN ReconnectLater(NotSent)
     ELSE callers' = NotSent /\ UNCHANGED <<timer, attempts, outstanding>>
  /\ UNCHANGED <<current, made, closed, wire, inflight, daemonVars>>

ReconnectTimer ==
  /\ timer = "armed"
  /\ IF Linked THEN timer' = "off" /\ UNCHANGED connecting
     ELSE timer' = "awaits" /\ connecting' = TRUE
  /\ UNCHANGED <<callers, outstanding, current, made, attempts, closed, wire, inflight, daemonVars>>

\* Seeded fault: the close event of any connection counts.
FaultSocketGone(g) ==
  /\ wire[g].state = "destroyed" /\ wire' = [wire EXCEPT ![g].state = "gone"]
  /\ IF closed THEN UNCHANGED <<callers, outstanding, current, timer, attempts>>
     ELSE current' = NoGen /\ ReconnectLater(callers)
  /\ UNCHANGED <<made, connecting, closed, inflight, daemonVars>>

\* The close event of a connection; only the current one counts.
SocketGone(g) ==
  /\ wire[g].state = "destroyed" /\ wire' = [wire EXCEPT ![g].state = "gone"]
  /\ IF closed \/ current # g
     THEN UNCHANGED <<callers, outstanding, current, timer, attempts>>
     ELSE current' = NoGen /\ ReconnectLater(callers)
  /\ UNCHANGED <<made, connecting, closed, inflight, daemonVars>>

\* A frame that cannot be read: its callers are told at once, the envelopes are kept
\* for the replay.
FrameError(g) ==
  /\ wire[g].state = "open" /\ current = g /\ wire[g].back # <<>>
  /\ callers' = Tell(Pending, "uncertain")
  /\ wire' = Destroyed(wire, g)
  /\ UNCHANGED <<outstanding, current, made, connecting, timer, attempts, closed, inflight, daemonVars>>

\* A response: the request is no longer pending, its caller is told once.
Response(g) ==
  /\ wire[g].state = "open" /\ wire[g].back # <<>>
  /\ wire' = [wire EXCEPT ![g].back = Tail(@)]
  /\ LET r == Head(wire[g].back)
     IN IF current = g /\ r.call \in Pending
        THEN outstanding' = Without(r.call) /\ callers' = Tell({r.call}, r.says)
        ELSE UNCHANGED <<outstanding, callers>>
  /\ UNCHANGED <<current, made, connecting, timer, attempts, closed, inflight, daemonVars>>

\* The deadline of a request.
Timeout(c) ==
  /\ c \in Pending
  /\ outstanding' = Without(c) /\ callers' = Tell({c}, "uncertain")
  /\ UNCHANGED <<current, made, connecting, timer, attempts, closed, wire, inflight, daemonVars>>

\* A write that fails ends the connection.  The caller is told, unless the write was
\* a replay.
WriteFails(c) ==
  /\ c \in Pending /\ Linked /\ c \in {wire[current].sent[i] : i \in DOMAIN wire[current].sent}
  /\ \/ outstanding' = Without(c) /\ callers' = Tell({c}, "uncertain")
     \/ UNCHANGED <<outstanding, callers>>
  /\ wire' = Destroyed(wire, current)
  /\ UNCHANGED <<current, made, connecting, timer, attempts, closed, inflight, daemonVars>>

CloseClient ==
  /\ ~closed /\ closed' = TRUE
  /\ current' = NoGen /\ timer' = "off" /\ outstanding' = <<>>
  /\ callers' = Tell(Pending, "uncertain")
  /\ wire' = IF current = NoGen THEN wire ELSE Destroyed(wire, current)
  /\ UNCHANGED <<made, connecting, attempts, inflight, daemonVars>>

-----------------------------------------------------------------------------
(* The daemon *)

Sends(w, g, c, says) ==
  IF w[g].state = "open" THEN [w EXCEPT ![g].back = Append(@, [call |-> c, says |-> says])] ELSE w
Taken(g) == [wire EXCEPT ![g].sent = Tail(@)]

\* A frame is read: too many on this connection, a service that is closed, or work.
Reads(g) ==
  /\ daemon # "down" /\ wire[g].sent # <<>>
  /\ LET c == Head(wire[g].sent)
     IN IF Cardinality(inflight[g]) >= MaxInflight
        THEN wire' = Sends(Taken(g), g, c, "overload") /\ UNCHANGED inflight
        ELSE IF daemon = "closing"
        THEN wire' = Sends(Taken(g), g, c, "turned_away") /\ UNCHANGED inflight
        ELSE /\ wire' = Taken(g)
             /\ inflight' = [inflight EXCEPT ![g] = @ \cup {c}]
  /\ UNCHANGED <<clientVars, daemonVars>>

\* handle() ends: for a replay with what the ledger says, for the first with its
\* effect; the response goes out on the connection the frame came by.
Handles(g, c) ==
  /\ c \in inflight[g] /\ inflight' = [inflight EXCEPT ![g] = @ \ {c}]
  /\ ledger' = ledger \cup {c}
  /\ wire' = Sends(wire, g, c, "done")
  /\ UNCHANGED <<clientVars, daemon, restarts>>

\* The daemon drops a connection: its idle timer, its limit of queued writes.
Drops(g) ==
  /\ daemon # "down" /\ wire[g].state = "open" /\ wire' = Cut(wire, g)
  /\ UNCHANGED <<clientVars, inflight, daemonVars>>

Quiesce ==
  /\ daemon = "up" /\ restarts < MaxRestart /\ daemon' = "closing"
  /\ UNCHANGED <<clientVars, wire, inflight, ledger, restarts>>

\* The process ends, with or without a shutdown before.
Dies ==
  /\ daemon # "down" /\ restarts < MaxRestart
  /\ daemon' = "down" /\ restarts' = restarts + 1
  /\ wire' = [g \in Gen |-> Cut(wire, g)[g]]
  /\ inflight' = [g \in Gen |-> {}]
  /\ UNCHANGED <<clientVars, ledger>>

Restart ==
  /\ daemon = "down" /\ daemon' = "up"
  /\ UNCHANGED <<clientVars, wire, inflight, ledger, restarts>>

Client ==
  \/ \E c \in LocalCall : Request(c) \/ Timeout(c) \/ WriteFails(c)
  \/ Connected \/ Refused \/ ReconnectTimer \/ CloseClient
  \/ \E g \in Gen : SocketGone(g) \/ FrameError(g) \/ Response(g)

Daemon ==
  \/ \E g \in Gen : Reads(g) \/ Drops(g) \/ \E c \in LocalCall : Handles(g, c)
  \/ Quiesce \/ Dies \/ Restart

LocalNext == Client \/ Daemon

LocalSpec == LocalInit /\ [][LocalNext]_localVars

-----------------------------------------------------------------------------
(* What must hold.                                                         *)

\* A request that waits gets on before its deadline: its connection is up or its
\* close event is due, or a connection is being made, or the timer that makes one
\* is armed ("otherwise pending requests can wait until their deadline with no
\* progress").
NobodyIdles ==
  outstanding # <<>> => \/ current # NoGen /\ wire[current].state \in {"open", "destroyed"}
                    \/ connecting \/ timer = "armed"

\* No connection is left behind: the one that is open is the current one, and the
\* timer of a client that has a connection makes no second one.
OneConnection ==
  /\ \A g \in Gen : wire[g].state = "open" => current = g
  /\ closed => current = NoGen /\ timer = "off"

\* Reconnecting serves every request and makes one connection.
ReconnectsOnce == NobodyIdles /\ OneConnection

=============================================================================
