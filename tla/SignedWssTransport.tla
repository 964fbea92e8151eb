----------------------- MODULE SignedWssTransport -----------------------
(***************************************************************************)
(* The remote client: SignedWssTransport over its durable RequestOutbox,   *)
(* with the route it sends on, the frames on that route and what the peer  *)
(* makes of them.                                                          *)
(*                                                                         *)
(* A frame is written to the outbox before its first send and stays there  *)
(* until an answer, the retry budget or nothing settles it.  Every handler *)
(* is synchronous, so each is one action, with one outcome per way its     *)
(* checkpoints can end.  The outbox rolls a failed write back in memory,   *)
(* so memory and file agree and one variable stands for both.              *)
(*                                                                         *)
(* Abstracted: frames are numbered in admission order; clock times are     *)
(* three-valued (no next attempt, in the future, past) and a deadline has  *)
(* lapsed or not; backoff lengths, signatures and bodies are left out.     *)
(* The route is what RouteController shows of itself: ready, or with its   *)
(* socket closing under it, or down, and its generation (module Route).    *)
(***************************************************************************)
EXTENDS Naturals, FiniteSets

CONSTANTS MaxFrame,     \* bound: requests made
          MaxAttempts,  \* OUTBOX_MAX_ATTEMPTS (5)
          Slots,        \* WSS_OUTBOX_MAX_ENTRIES
          MaxRouteGen,  \* bound: generations of the route
          MaxStarts,    \* bound: processes of the client
          MaxLapses,    \* bound: deadlines that pass
          DiskFaults    \* may a checkpoint fail?

ASSUME TransportAssumption ==
  /\ {MaxFrame, MaxAttempts, Slots, MaxRouteGen, MaxStarts} \subseteq Nat \ {0}
  /\ MaxLapses \in Nat
  /\ DiskFaults \in BOOLEAN

Frame == 1 .. MaxFrame
NoFrame == 0

VARIABLES
  entry,      \* the outbox: delivery state, attempts, next attempt, deadline
  caller,     \* the promise of each request: pending, answered, or lost
  sentOnGen,  \* the frame whose response is awaited, NoFrame when none
  pumpTimer,  \* "none", "pump" (0 ms) or "wake" (the earliest next attempt)
  client,     \* "up", "degraded", "closed" or "down"
  diskBad,    \* the outbox's degraded flag
  replayed,   \* frames this process loaded rather than admitted: no caller here
  starts,     \* processes of the client so far
  route, routeGen, \* the route: "down", "ready", or "closing" (socket not open any more)
  net,        \* requests and responses on the way, with their generation
  began,      \* history: frames whose mutation the peer's service began
  sends       \* history: times each frame was put on the wire

clientVars == <<entry, caller, sentOnGen, pumpTimer, client, diskBad, replayed, starts,
          route, routeGen, net, began, sends>>

peerHistory == <<began, sends>>

-----------------------------------------------------------------------------
Pending == {"admitted", "in_flight", "retry_wait"}
DeliveryState == Pending \cup {"absent", "terminal_unknown"}

\* What a caller was told.  "unavailable_pre" and "refused" reach the user as
\* stage pre_dispatch, "closed" and "outcome_unknown" as stage response.
Told == {"result", "refused", "outcome_unknown", "not_admitted",
         "unavailable_pre", "closed"}

\* "dropped": no longer in the pending map, never resolved.  "gone": its
\* process died.
CallerState == Told \cup {"idle", "waiting", "dropped", "gone"}

NoEntry == [state |-> "absent", attempts |-> 0, next |-> "unset", lapsed |-> FALSE]
NewEntry == [NoEntry EXCEPT !.state = "admitted"]

Kind == {"request", "handling", "result", "refused"}

ClientTypeOK ==
  /\ entry \in [Frame -> [state : DeliveryState, attempts : 0 .. MaxAttempts,
                          next : {"unset", "future", "past"}, lapsed : BOOLEAN]]
  /\ caller \in [Frame -> CallerState]
  /\ sentOnGen \in Frame \cup {NoFrame}
  /\ pumpTimer \in {"none", "pump", "wake"}
  /\ client \in {"up", "degraded", "closed", "down"}
  /\ diskBad \in BOOLEAN
  /\ replayed \subseteq Frame
  /\ starts \in 0 .. MaxStarts
  /\ route \in {"down", "ready", "closing"}
  /\ routeGen \in 0 .. MaxRouteGen
  /\ net \subseteq [frame : Frame, gen : 0 .. MaxRouteGen, kind : Kind]
  /\ began \subseteq Frame
  /\ sends \in [Frame -> Nat]

ClientInit ==
  /\ entry = [f \in Frame |-> NoEntry]
  /\ caller = [f \in Frame |-> "idle"]
  /\ sentOnGen = NoFrame
  /\ pumpTimer = "none"
  /\ client = "down"
  /\ diskBad = FALSE
  /\ replayed = {}
  /\ starts = 0
  /\ route = "down"
  /\ routeGen = 0
  /\ net = {}
  /\ began = {}
  /\ sends = [f \in Frame |-> 0]

-----------------------------------------------------------------------------
(* The outbox *)

Occupied(e) == {f \in Frame : e[f].state # "absent"}

\* peekDue(): waiting, its time has come, its deadline has not.
Due(e) ==
  {f \in Frame : /\ e[f].state \in {"admitted", "retry_wait"}
                 /\ e[f].state = "retry_wait" => e[f].next # "future"
                 /\ ~e[f].lapsed}

Exhausted(e, f) == e[f].attempts >= MaxAttempts \/ e[f].lapsed

\* counts().nextAttemptAt: the earliest next attempt of any live entry.
NextAttempt(e) ==
  LET times == {e[f].next : f \in {g \in Frame : e[g].state \in Pending}}
  IN  IF "past" \in times THEN "past" ELSE IF "future" \in times THEN "future" ELSE "unset"

MarkInFlight(e, f) == [e EXCEPT ![f].state = "in_flight"]

MarkRetryWait(e, f) ==
  [e EXCEPT ![f].state = "retry_wait", ![f].attempts = @ + 1, ![f].next = "future"]

\* A checkpoint that fails marks the outbox degraded and is rolled back.
DiskOk == UNCHANGED diskBad
DiskFails == DiskFaults /\ diskBad' = TRUE

-----------------------------------------------------------------------------
(* Parts of the handlers *)

ready == route = "ready"      \* isReady()

\* schedulePump() over the entries e, with the pump timer as given: one timer
\* at a time, at once for a due entry, else for the earliest next attempt.
Armed(timer, e) ==
  IF timer # "none" THEN timer
  ELSE IF Due(e) # {} THEN "pump"
  ELSE IF NextAttempt(e) = "future" THEN "wake"
  ELSE "none"

Scheduled(timer, e) == IF ready /\ client = "up" THEN Armed(timer, e) ELSE timer

Waiting == {f \in Frame : caller[f] = "waiting"}

\* Every waiting caller is told the same, but for the frame f.
TellWaiting(what) == [f \in Frame |-> IF f \in Waiting THEN what ELSE caller[f]]

\* The current generation ends: no response can come over it any more, but a
\* request on its way may still reach the peer.
RouteDown ==
  /\ route' = "down"
  /\ routeGen' = IF route = "down" THEN routeGen ELSE routeGen + 1
  /\ net' = {m \in net : m.kind = "request"}

\* markDegraded(), the outbox being e and the callers being as in c.  A pump
\* timer still armed finds the client degraded and does nothing.
Degrade(e, c) ==
  /\ DiskFails
  /\ entry' = e
  /\ caller' = c
  /\ client' = IF client = "closed" THEN "closed" ELSE "degraded"
  /\ sentOnGen' = NoFrame
  /\ pumpTimer' = "none"
  /\ RouteDown
  /\ UNCHANGED <<replayed, starts, peerHistory>>

DegradeAll(e) == Degrade(e, TellWaiting("unavailable_pre"))

Freed(f) == IF sentOnGen = f THEN NoFrame ELSE sentOnGen

\* settleTerminalUnknown()
GiveUp(f, timer) ==
  LET e == [entry EXCEPT ![f].state = "terminal_unknown"] IN
  \/ /\ DiskOk
     /\ entry' = e
     /\ caller' = [caller EXCEPT ![f] = IF @ = "waiting" THEN "outcome_unknown" ELSE @]
     /\ sentOnGen' = Freed(f)
     /\ pumpTimer' = Scheduled(timer, e)
     /\ UNCHANGED <<client, replayed, starts, route, routeGen, net, peerHistory>>
  \/ DegradeAll(entry)

\* recordUncertainFailure() for a frame that is not exhausted.
RetryLater(f) ==
  LET e == MarkRetryWait(entry, f) IN
  \/ /\ DiskOk
     /\ entry' = e
     /\ sentOnGen' = Freed(f)
     /\ pumpTimer' = Scheduled(pumpTimer, e)
     /\ UNCHANGED <<caller, client, replayed, starts, route, routeGen, net, peerHistory>>
  \/ DegradeAll(entry)

\* sendEntry() past its guards, the outbox being e, the callers c, the pump
\* timer as given: the claim is durable before the frame is on the wire.
Transmit(f, e, c, timer) ==
  \/ /\ DiskOk
     /\ entry' = MarkInFlight(e, f)
     /\ caller' = c
     /\ sentOnGen' = f
     /\ net' = net \cup {[frame |-> f, gen |-> routeGen, kind |-> "request"]}
     /\ sends' = [sends EXCEPT ![f] = @ + 1]
     /\ pumpTimer' = timer
     /\ UNCHANGED <<client, replayed, starts, route, routeGen, began>>
  \/ /\ DiskOk                   \* the socket refuses the write
     /\ entry' = MarkRetryWait(e, f)
     /\ caller' = c
     /\ pumpTimer' = Scheduled(timer, MarkRetryWait(e, f))
     /\ UNCHANGED <<client, sentOnGen, replayed, starts, route, routeGen, net, peerHistory>>
  \/ \E e2 \in {e, MarkInFlight(e, f)} :
       Degrade(e2, [g \in Frame |-> IF c[g] = "waiting" THEN "unavailable_pre" ELSE c[g]])

-----------------------------------------------------------------------------
(* request() *)

NextNew(f) == caller[f] = "idle" /\ \A g \in Frame : g < f => caller[g] # "idle"

Admits == client = "up" /\ ~diskBad /\ ready /\ Cardinality(Occupied(entry)) < Slots

\* Admission fails (or the entry is too large), or the append cannot be written:
\* no entry is left behind.
NotAdmitted(f) ==
  /\ NextNew(f)
  /\ client # "down"
  /\ DiskOk \/ (Admits /\ DiskFails)
  /\ caller' = [caller EXCEPT ![f] = "not_admitted"]
  /\ UNCHANGED <<entry, sentOnGen, pumpTimer, client, replayed, starts, route, routeGen, net, peerHistory>>

Requests(f) ==
  LET e == [entry EXCEPT ![f] = NewEntry]
      c == [caller EXCEPT ![f] = "waiting"] IN
  /\ NextNew(f)
  /\ Admits
  /\ \/ /\ sentOnGen # NoFrame     \* one send at a time: the pump will take it
        /\ entry' = e
        /\ caller' = c
        /\ UNCHANGED <<sentOnGen, pumpTimer, client, diskBad, replayed, starts,
                       route, routeGen, net, peerHistory>>
     \/ /\ sentOnGen = NoFrame
        /\ Transmit(f, e, c, pumpTimer)

-----------------------------------------------------------------------------
(* Timers *)

\* The response timer of a send: the current one, or in a degraded client
\* that of a replayed frame, which nobody clears.
ResponseTimeout(f) ==
  /\ client # "down"
  /\ entry[f].state = "in_flight"
  /\ sentOnGen = f \/ (client # "up" /\ f \in replayed)
  /\ IF Exhausted(entry, f) THEN GiveUp(f, pumpTimer) ELSE RetryLater(f)

\* The pump: the oldest due entry is sent, unless a send is under way.
Pump ==
  /\ client # "down"
  /\ pumpTimer = "pump"
  /\ IF client # "up" \/ ~ready \/ Due(entry) = {} \/ sentOnGen # NoFrame
     THEN /\ pumpTimer' = "none"
          /\ UNCHANGED <<entry, caller, sentOnGen, client, diskBad, replayed, starts,
                         route, routeGen, net, peerHistory>>
     ELSE \E f \in Due(entry) :
            /\ \A g \in Due(entry) : f <= g
            /\ IF Exhausted(entry, f) THEN GiveUp(f, "none")
                                      ELSE Transmit(f, entry, caller, "none")

Wake ==
  /\ client # "down"
  /\ pumpTimer = "wake"
  /\ pumpTimer' = Scheduled("none", entry)
  /\ UNCHANGED <<entry, caller, sentOnGen, client, diskBad, replayed, starts,
                 route, routeGen, net, peerHistory>>

\* Time passes: a next attempt comes, a deadline lapses (oldest first, since
\* every frame has the same allowance).
NextAttemptComes(f) ==
  /\ entry[f].next = "future"
  /\ entry[f].state \in Pending
  /\ entry' = [entry EXCEPT ![f].next = "past"]
  /\ UNCHANGED <<caller, sentOnGen, pumpTimer, client, diskBad, replayed, starts,
                 route, routeGen, net, peerHistory>>

Lapse(f) ==
  /\ entry[f].state \in Pending
  /\ \A g \in Frame : g <= f /\ entry[g].state \in Pending => (entry[g].lapsed <=> g < f)
  /\ Cardinality({g \in Frame : entry[g].lapsed}) < MaxLapses
  /\ entry' = [entry EXCEPT ![f].lapsed = TRUE]
  /\ UNCHANGED <<caller, sentOnGen, pumpTimer, client, diskBad, replayed, starts,
                 route, routeGen, net, peerHistory>>

-----------------------------------------------------------------------------
(* handleMessage() *)

\* Seeded fault: an answer ends the send, and the pump is not scheduled.
FaultHandleMessage(m) ==
  LET f == m.frame IN
  /\ client = "up"
  /\ route # "down"
  /\ m.kind \in {"result", "refused"}
  /\ m.gen = routeGen
  /\ sentOnGen = f
  /\ DiskOk
  /\ entry' = [entry EXCEPT ![f] = NoEntry]
  /\ caller' = [caller EXCEPT ![f] = IF @ = "waiting" THEN m.kind ELSE @]
  /\ sentOnGen' = NoFrame
  /\ net' = net \ {m}
  /\ UNCHANGED <<pumpTimer, client, replayed, starts, route, routeGen, peerHistory>>

HandleMessage(m) ==
  LET f == m.frame
      e == [entry EXCEPT ![f] = NoEntry] IN
  /\ client = "up"
  /\ route # "down"
  /\ m.kind \in {"result", "refused"}
  /\ m.gen = routeGen
  /\ sentOnGen = f
  /\ \/ /\ DiskOk
        /\ entry' = e
        /\ caller' = [caller EXCEPT ![f] = IF @ = "waiting" THEN m.kind ELSE @]
        /\ sentOnGen' = NoFrame
        /\ pumpTimer' = Scheduled(pumpTimer, e)
        /\ net' = net \ {m}
        /\ UNCHANGED <<client, replayed, starts, route, routeGen, peerHistory>>
     \/ Degrade(entry, [TellWaiting("unavailable_pre") EXCEPT
                          ![f] = IF caller[f] = "waiting" THEN "dropped" ELSE @])

-----------------------------------------------------------------------------
(* The peer: endpoint and service, seen from the wire *)

\* On a socket that is gone, what a request becomes is of no use to anyone.
Becomes(m, k) ==
  net' = (net \ {m}) \cup (IF route # "down" /\ m.gen = routeGen THEN {[m EXCEPT !.kind = k]} ELSE {})

\* A request is handed to the service, refused by the endpoint before that
\* (malformed, not granted, rate, closed service, a request with the same id
\* in flight on this socket).  One that is ignored, or lost with its socket, is
\* one that is never taken.
PeerTakes(m) ==
  LET dup == \E h \in net : h.frame = m.frame /\ h.gen = m.gen /\ h.kind = "handling" IN
  /\ m \in net
  /\ m.kind = "request"
  /\ \/ ~dup /\ Becomes(m, "handling") /\ began' = began \cup {m.frame}
     \/ Becomes(m, "refused") /\ UNCHANGED began
  /\ UNCHANGED <<entry, caller, sentOnGen, pumpTimer, client, diskBad, replayed, starts,
                 route, routeGen, sends>>

PeerAnswers(m) ==
  /\ m \in net
  /\ m.kind = "handling"
  /\ Becomes(m, "result")
  /\ UNCHANGED <<entry, caller, sentOnGen, pumpTimer, client, diskBad, replayed, starts,
                 route, routeGen, peerHistory>>

-----------------------------------------------------------------------------
(* The route and the process *)

RouteReady ==
  /\ client = "up"
  /\ route = "down"
  /\ routeGen < MaxRouteGen
  /\ \/ route' = "ready" /\ pumpTimer' = Armed(pumpTimer, entry)
     \/ route' = "closing" /\ UNCHANGED pumpTimer
  /\ UNCHANGED <<entry, caller, sentOnGen, client, diskBad, replayed, starts, routeGen, net, peerHistory>>

\* The socket starts to close; the close event has yet to come.
SocketCloses ==
  /\ ready
  /\ route' = "closing"
  /\ UNCHANGED <<entry, caller, sentOnGen, pumpTimer, client, diskBad, replayed, starts,
                 routeGen, net, peerHistory>>

\* Seeded fault: the send is forgotten, the durable entry stays in flight.
FaultRouteLost ==
  /\ client = "up"
  /\ route # "down"
  /\ DiskOk
  /\ RouteDown
  /\ sentOnGen' = NoFrame
  /\ UNCHANGED <<entry, caller, pumpTimer, client, replayed, starts, peerHistory>>

\* handleRouteLost(): the frame under way goes back to the queue.
RouteLost ==
  /\ client = "up"
  /\ route # "down"
  /\ \/ /\ DiskOk
        /\ RouteDown
        /\ sentOnGen' = NoFrame
        /\ IF sentOnGen = NoFrame THEN UNCHANGED <<entry, caller>>
           ELSE IF Exhausted(entry, sentOnGen)
           THEN /\ entry' = [entry EXCEPT ![sentOnGen].state = "terminal_unknown"]
                /\ caller' = [caller EXCEPT ![sentOnGen] =
                                IF @ = "waiting" THEN "outcome_unknown" ELSE @]
           ELSE entry' = MarkRetryWait(entry, sentOnGen) /\ UNCHANGED caller
        /\ UNCHANGED <<pumpTimer, client, replayed, starts, peerHistory>>
     \/ sentOnGen # NoFrame /\ DegradeAll(entry)

CloseClient ==
  /\ client \in {"up", "degraded"}
  /\ client' = "closed"
  /\ caller' = TellWaiting("closed")
  /\ sentOnGen' = NoFrame
  /\ pumpTimer' = "none"
  /\ RouteDown
  /\ UNCHANGED <<entry, diskBad, replayed, starts, peerHistory>>

\* The process dies or exits: promises and timers are gone, the file stays.
ClientDies ==
  /\ client # "down"
  /\ client' = "down"
  /\ caller' = TellWaiting("gone")
  /\ sentOnGen' = NoFrame
  /\ pumpTimer' = "none"
  /\ RouteDown
  /\ UNCHANGED <<entry, diskBad, replayed, starts, peerHistory>>

\* Seeded fault: a load that gives what was given up a fresh budget.
FaultReloadAll(r) ==
  IF r.state \in {"in_flight", "terminal_unknown"} THEN [NoEntry EXCEPT !.state = "retry_wait"] ELSE r

\* load(): an entry found in flight is ambiguous and due at once.
Reloaded(r) ==
  IF r.state = "in_flight" THEN [r EXCEPT !.state = "retry_wait", !.next = "unset"] ELSE r

ClientStarts ==
  /\ client = "down"
  /\ starts < MaxStarts
  /\ starts' = starts + 1
  /\ client' = "up"
  /\ entry' = [f \in Frame |-> Reloaded(entry[f])]
  /\ replayed' = Occupied(entry)
  /\ diskBad' \in {FALSE} \cup
       {DiskFaults /\ \E f \in Frame : entry[f].state = "in_flight"}
  /\ UNCHANGED <<caller, sentOnGen, pumpTimer, route, routeGen, net, peerHistory>>

-----------------------------------------------------------------------------
ClientNext ==
  \/ \E f \in Frame :
       \/ NotAdmitted(f) \/ Requests(f) \/ ResponseTimeout(f)
       \/ NextAttemptComes(f) \/ Lapse(f)
  \/ \E m \in net : HandleMessage(m) \/ PeerTakes(m) \/ PeerAnswers(m)
  \/ Pump \/ Wake \/ RouteReady \/ SocketCloses \/ RouteLost \/ CloseClient \/ ClientDies \/ ClientStarts

ClientSpec == ClientInit /\ [][ClientNext]_clientVars

\* Timers fire and time passes; a lost route is established again.  Nothing
\* obliges the peer to take or answer a request.
ClientFairness ==
  /\ \A f \in Frame : WF_clientVars(ResponseTimeout(f)) /\ WF_clientVars(NextAttemptComes(f))
  /\ WF_clientVars(Pump) /\ WF_clientVars(Wake) /\ WF_clientVars(RouteReady)

ClientFairSpec == ClientSpec /\ ClientFairness

-----------------------------------------------------------------------------
(* Properties *)

\* Nothing is stranded.  An entry is in flight exactly while the client awaits its
\* response: the pump never looks at one in flight.  And a caller that waits has
\* an entry that is still to be sent or answered: settling an entry and settling
\* its promise never come apart (sendEntry, handleRouteLost, settleTerminalUnknown,
\* handleMessage, load).  A caller told that the outcome is unknown after the retry
\* budget has a durable record of it, in this process and the next.  A request that
\* was refused admission never runs at the peer, not even out of the outbox of a
\* later process (append rolls back what it could not write).
NothingStranded ==
  /\ client = "up" => \A f \in Frame : entry[f].state = "in_flight" <=> sentOnGen = f
  /\ \A f \in Waiting : client = "up" /\ entry[f].state \in Pending /\ f \notin replayed
  /\ \A f \in Frame : caller[f] = "outcome_unknown" => entry[f].state = "terminal_unknown"
  /\ \A f \in Frame : caller[f] = "not_admitted" => f \notin began /\ sends[f] = 0

\* A frame whose caller got a response or an unknown outcome, and a frame given
\* up as terminal_unknown, is never put on the wire again, by this process or a
\* later one.
Finished(f) ==
  \/ caller[f] \in {"result", "refused", "outcome_unknown"}
  \/ entry[f].state = "terminal_unknown"

FinishedNeverResent ==
  [][\A f \in Frame : Finished(f) => Finished(f)' /\ sends'[f] = sends[f]]_clientVars

\* While the route is ready and idle, a waiting entry always has a timer that
\* will look at it: "Nothing due now: arm one bounded timer for the earliest
\* next attempt" (schedulePump and every path that must call it).
NoLostWakeup ==
  (client = "up" /\ ready /\ sentOnGen = NoFrame
     /\ \E f \in Frame : entry[f].state \in {"admitted", "retry_wait"} /\ ~entry[f].lapsed)
  => pumpTimer # "none"

\* The route stops failing for good, or the client stops using it.
RouteSettles == <>[](ready \/ client # "up")

\* No deadline passes before its request is over: one that does blocks the pump for
\* the requests behind it (NoLostWakeup).
NothingLapses == [](\A f \in Frame : ~entry[f].lapsed)

\* Once the route settles, every caller is answered even by a peer that never
\* answers: the retry budget runs out before any deadline does.  Of two entries in
\* the outbox one waits for the other's send to end, and nothing but the schedulePump
\* of whatever ends that send (an answer, a timeout, the budget, a lost route) looks
\* at it again; one of them may be a leftover of an earlier process.
CallersAnswered == RouteSettles /\ NothingLapses => []<>(Waiting = {})
=============================================================================
