---------------------------- MODULE SignedWssProofs ----------------------------
(* Machine-checked proofs about the two ends of the signed transport.           *)
(* Its client (SignedWssTransport), for every number of frames, attempts,       *)
(* slots, generations and processes, with and without failing checkpoints; its  *)
(* endpoint (SignedWssEndpoint), for every number of sockets, frames, restarts  *)
(* and ticks: a signed frame is dispatched once, as long as the nonce table     *)
(* remembers for as long as a signature is accepted.                            *)
EXTENDS SignedWssTransport, SignedWssEndpoint, FiniteSetTheorems, TLAPS

-----------------------------------------------------------------------------
(* The inductive invariant *)

EntryRecord == [state : DeliveryState, attempts : 0 .. MaxAttempts,
                next : {"unset", "future", "past"}, lapsed : BOOLEAN]

Entries == [Frame -> EntryRecord]

Timer == {"none", "pump", "wake"}

\* An entry is in flight exactly while a client that is up awaits its response.
Awaited == client = "up" => \A f \in Frame : entry[f].state = "in_flight" <=> sentOnGen = f

\* A client that is not up awaits nothing.
AtRest == client # "up" => sentOnGen = NoFrame

\* A caller waits on a client that is up, for an entry of its own process that is
\* still to be sent or answered.
Waits ==
  \A f \in Frame : caller[f] = "waiting" =>
    client = "up" /\ entry[f].state \in Pending /\ f \notin replayed

\* What was loaded from the file was requested by an earlier process.
Replays == \A f \in replayed : caller[f] \notin {"idle", "waiting"}

\* What a caller was told and the entry agree, in this process and the next.
UnknownKept == \A f \in Frame : caller[f] = "outcome_unknown" => entry[f].state = "terminal_unknown"
AnsweredGone == \A f \in Frame : caller[f] \in {"result", "refused"} => entry[f].state = "absent"

\* A frame that was never admitted is nowhere: not in the outbox, not on the wire,
\* not at the peer.
Strangers ==
  \A f \in Frame : caller[f] \in {"idle", "not_admitted"} =>
    /\ entry[f].state = "absent"
    /\ f \notin began
    /\ sends[f] = 0
    /\ \A m \in net : m.frame # f

\* A route that is up leaves a generation to lose it to.
GenLeft == route # "down" => routeGen < MaxRouteGen

IInv ==
  /\ ClientTypeOK
  /\ Awaited /\ AtRest /\ Waits /\ Replays
  /\ UnknownKept /\ AnsweredGone /\ Strangers
  /\ GenLeft

\* The inductive invariant holds what NothingStranded says.
LEMMA InvIsEnough == IInv => NothingStranded
BY DEF IInv, NothingStranded, Awaited, Waits, UnknownKept, Strangers, Waiting

-----------------------------------------------------------------------------
(* The outbox *)

\* MarkInFlight changes the state of its entry and nothing else.
LEMMA MarkInFlightFacts ==
  ASSUME NEW e \in Entries, NEW f \in Frame
  PROVE  /\ MarkInFlight(e, f) \in Entries
         /\ MarkInFlight(e, f)[f].state = "in_flight"
         /\ \A g \in Frame : g # f => MarkInFlight(e, f)[g] = e[g]
<1>1. e[f] \in EntryRecord
  BY DEF Entries
<1>2. MarkInFlight(e, f) = [e EXCEPT ![f] = [e[f] EXCEPT !.state = "in_flight"]]
  BY DEF MarkInFlight
<1>3. [e[f] EXCEPT !.state = "in_flight"] \in EntryRecord
  BY <1>1 DEF EntryRecord, DeliveryState, Pending
<1>4. [e[f] EXCEPT !.state = "in_flight"].state = "in_flight"
  BY <1>1 DEF EntryRecord
<1>5. PICK r \in EntryRecord : MarkInFlight(e, f) = [e EXCEPT ![f] = r] /\ r.state = "in_flight"
  BY <1>2, <1>3, <1>4
<1> QED
  BY <1>5 DEF Entries

\* MarkRetryWait changes its entry and nothing else; one attempt must be left.
LEMMA MarkRetryWaitFacts ==
  ASSUME NEW e \in Entries, NEW f \in Frame, e[f].attempts < MaxAttempts
  PROVE  /\ MarkRetryWait(e, f) \in Entries
         /\ MarkRetryWait(e, f)[f].state = "retry_wait"
         /\ \A g \in Frame : g # f => MarkRetryWait(e, f)[g] = e[g]
<1> DEFINE r0 == [e[f] EXCEPT !.state = "retry_wait", !.attempts = @ + 1, !.next = "future"]
<1>1. e[f] \in EntryRecord
  BY DEF Entries
<1>2. MarkRetryWait(e, f) = [e EXCEPT ![f] = r0]
  BY <1>1 DEF MarkRetryWait, Entries, EntryRecord
<1>3. e[f].attempts + 1 \in 0 .. MaxAttempts
  BY <1>1, TransportAssumption DEF EntryRecord
<1>4. r0 \in EntryRecord
  BY <1>1, <1>3 DEF EntryRecord, DeliveryState, Pending
<1>5. r0.state = "retry_wait"
  BY <1>1 DEF EntryRecord
<1>6. PICK r \in EntryRecord : MarkRetryWait(e, f) = [e EXCEPT ![f] = r] /\ r.state = "retry_wait"
  BY <1>2, <1>4, <1>5
<1> QED
  BY <1>6 DEF Entries

\* Giving a frame up changes the state of its entry and nothing else.
GivenUp(e, f) == [e EXCEPT ![f].state = "terminal_unknown"]

LEMMA GivenUpFacts ==
  ASSUME NEW e \in Entries, NEW f \in Frame
  PROVE  /\ GivenUp(e, f) \in Entries
         /\ GivenUp(e, f)[f].state = "terminal_unknown"
         /\ \A g \in Frame : g # f => GivenUp(e, f)[g] = e[g]
<1>1. e[f] \in EntryRecord
  BY DEF Entries
<1>2. GivenUp(e, f) = [e EXCEPT ![f] = [e[f] EXCEPT !.state = "terminal_unknown"]]
  BY DEF GivenUp
<1>3. [e[f] EXCEPT !.state = "terminal_unknown"] \in EntryRecord
  BY <1>1 DEF EntryRecord, DeliveryState
<1>4. [e[f] EXCEPT !.state = "terminal_unknown"].state = "terminal_unknown"
  BY <1>1 DEF EntryRecord
<1>5. PICK r \in EntryRecord : GivenUp(e, f) = [e EXCEPT ![f] = r] /\ r.state = "terminal_unknown"
  BY <1>2, <1>3, <1>4
<1> QED
  BY <1>5 DEF Entries

\* What an entry is before it is admitted, and when it is.
LEMMA NewEntryFacts ==
  /\ NoEntry \in EntryRecord /\ NoEntry.state = "absent"
  /\ NewEntry \in EntryRecord /\ NewEntry.state = "admitted" /\ NewEntry.attempts = 0
<1>1. 0 \in 0 .. MaxAttempts
  BY TransportAssumption
<1>2. NoEntry \in EntryRecord
  BY <1>1 DEF NoEntry, EntryRecord, DeliveryState
<1>3. NewEntry \in EntryRecord
  BY <1>2 DEF NewEntry, EntryRecord, DeliveryState, Pending
<1>4. NewEntry.state = "admitted" /\ NewEntry.attempts = 0
  BY DEF NewEntry, NoEntry
<1>5. NoEntry.state = "absent"
  BY DEF NoEntry
<1> QED
  BY <1>2, <1>3, <1>4, <1>5

\* A load changes no state but that of an entry found in flight.
LEMMA ReloadedFacts ==
  ASSUME NEW r \in EntryRecord
  PROVE  /\ Reloaded(r) \in EntryRecord
         /\ Reloaded(r).state = IF r.state = "in_flight" THEN "retry_wait" ELSE r.state
<1>1. CASE r.state = "in_flight"
  <2>1. [r EXCEPT !.state = "retry_wait", !.next = "unset"] \in EntryRecord
    BY DEF EntryRecord, DeliveryState, Pending
  <2>2. [r EXCEPT !.state = "retry_wait", !.next = "unset"].state = "retry_wait"
    BY DEF EntryRecord
  <2> QED
    BY <1>1, <2>1, <2>2 DEF Reloaded
<1>2. CASE r.state # "in_flight"
  BY <1>2 DEF Reloaded
<1> QED
  BY <1>1, <1>2

\* schedulePump() leaves one of the timers.
LEMMA ScheduledFacts ==
  ASSUME NEW timer \in Timer, NEW e
  PROVE  Scheduled(timer, e) \in Timer /\ Armed(timer, e) \in Timer
BY DEF Scheduled, Armed, Timer

\* The end of a generation leaves the types and takes only from the wire.
LEMMA RouteDownFacts ==
  ASSUME IInv, RouteDown
  PROVE  /\ route' \in {"down", "ready", "closing"}
         /\ routeGen' \in 0 .. MaxRouteGen
         /\ net' \subseteq net
         /\ GenLeft'
BY TransportAssumption DEF IInv, ClientTypeOK, GenLeft, RouteDown

\* TellWaiting leaves those who do not wait alone.
LEMMA TellWaitingFacts ==
  ASSUME IInv, NEW what \in {"unavailable_pre", "closed", "gone"}
  PROVE  /\ TellWaiting(what) \in [Frame -> CallerState]
         /\ \A g \in Frame : TellWaiting(what)[g] =
                               IF caller[g] = "waiting" THEN what ELSE caller[g]
BY DEF IInv, ClientTypeOK, TellWaiting, Waiting, CallerState, Told

-----------------------------------------------------------------------------
(* The initial states satisfy the invariant *)

LEMMA InitInv == ClientInit => IInv
<1> SUFFICES ASSUME ClientInit PROVE IInv
  OBVIOUS
<1>1. ClientTypeOK
  <2>1. entry \in Entries
    BY NewEntryFacts DEF ClientInit, Entries
  <2>2. starts \in 0 .. MaxStarts /\ routeGen \in 0 .. MaxRouteGen
    BY TransportAssumption DEF ClientInit
  <2> QED
    BY <2>1, <2>2 DEF ClientInit, ClientTypeOK, Entries, EntryRecord, CallerState
<1>2. Awaited /\ AtRest /\ Waits /\ Replays /\ UnknownKept /\ AnsweredGone /\ GenLeft
  BY DEF ClientInit, Awaited, AtRest, Waits, Replays, UnknownKept, AnsweredGone, GenLeft
<1>3. Strangers
  BY NewEntryFacts DEF ClientInit, Strangers
<1> QED
  BY <1>1, <1>2, <1>3 DEF IInv

-----------------------------------------------------------------------------
(* Every step keeps it *)

\* markDegraded() keeps it, provided that the callers who waited are told, that no
\* other caller hears anything, and that an entry which changed is still pending.
LEMMA DegradeInv ==
  ASSUME IInv, NEW e \in Entries, NEW c \in [Frame -> CallerState], Degrade(e, c),
         \A f \in Frame : (c[f] = caller[f] /\ caller[f] # "waiting")
                          \/ c[f] \in {"unavailable_pre", "dropped"},
         \A f \in Frame : e[f].state = entry[f].state
                          \/ c[f] \in {"unavailable_pre", "dropped"}
                          \/ {e[f].state, entry[f].state} \subseteq Pending
  PROVE  IInv'
<1> USE DEF Degrade
<1>1. ClientTypeOK'
  BY RouteDownFacts DEF IInv, ClientTypeOK, Entries, EntryRecord, DiskFails, NoFrame, peerHistory
<1>2. Awaited' /\ AtRest'
  BY DEF Awaited, AtRest
<1>3. Waits'
  BY DEF Waits
<1>4. Replays'
  BY DEF IInv, ClientTypeOK, Replays
<1>5. UnknownKept'
  BY DEF IInv, UnknownKept, Pending
<1>6. AnsweredGone'
  BY DEF IInv, AnsweredGone, Pending
<1>7. Strangers'
  BY RouteDownFacts DEF IInv, Strangers, Pending, peerHistory
<1>8. GenLeft'
  BY RouteDownFacts
<1> QED
  BY <1>1, <1>2, <1>3, <1>4, <1>5, <1>6, <1>7, <1>8 DEF IInv

\* As most handlers degrade: the outbox as it is, every waiting caller told.
LEMMA DegradeAllInv == ASSUME IInv, DegradeAll(entry) PROVE IInv'
<1>1. entry \in Entries
  BY DEF IInv, ClientTypeOK, Entries, EntryRecord
<1> DEFINE c == TellWaiting("unavailable_pre")
<1>2. /\ c \in [Frame -> CallerState]
      /\ \A g \in Frame : c[g] = IF caller[g] = "waiting" THEN "unavailable_pre" ELSE caller[g]
  BY TellWaitingFacts
<1>3. Degrade(entry, c)
  BY DEF DegradeAll
<1> HIDE DEF c
<1>4. \A g \in Frame : (c[g] = caller[g] /\ caller[g] # "waiting")
                       \/ c[g] \in {"unavailable_pre", "dropped"}
  BY <1>2
<1>5. c \in [Frame -> CallerState]
  BY <1>2
<1> QED
  BY <1>1, <1>3, <1>4, <1>5, DegradeInv

\* A frame that is pending, and awaited if in flight, may be given up.
LEMMA GiveUpInv ==
  ASSUME IInv, NEW f \in Frame, NEW timer \in Timer, GiveUp(f, timer),
         entry[f].state \in Pending
  PROVE  IInv'
<1> DEFINE e == GivenUp(entry, f)
<1>1. entry \in Entries
  BY DEF IInv, ClientTypeOK, Entries, EntryRecord
<1>2. /\ e \in Entries
      /\ e[f].state = "terminal_unknown"
      /\ \A g \in Frame : g # f => e[g] = entry[g]
  BY <1>1, GivenUpFacts
<1> HIDE DEF e
<1>3. CASE DegradeAll(entry)
  BY <1>3, DegradeAllInv
<1>4. CASE /\ DiskOk
           /\ entry' = e
           /\ caller' = [caller EXCEPT ![f] = IF @ = "waiting" THEN "outcome_unknown" ELSE @]
           /\ sentOnGen' = Freed(f)
           /\ pumpTimer' = Scheduled(timer, e)
           /\ UNCHANGED <<client, replayed, starts, route, routeGen, net, peerHistory>>
  <2> USE <1>4
  <2>1. ClientTypeOK'
    <3>1. pumpTimer' \in Timer
      BY ScheduledFacts
    <3>2. sentOnGen' \in Frame \cup {NoFrame}
      BY DEF IInv, ClientTypeOK, Freed
    <3>3. caller' \in [Frame -> CallerState]
      BY DEF IInv, ClientTypeOK, CallerState, Told
    <3> QED
      BY <1>2, <3>1, <3>2, <3>3
         DEF IInv, ClientTypeOK, Entries, EntryRecord, Timer, DiskOk, peerHistory
  <2>2. Awaited' /\ AtRest'
    BY <1>2 DEF IInv, ClientTypeOK, Awaited, AtRest, Freed, Frame, NoFrame, Pending
  <2>3. Waits'
    BY <1>2 DEF IInv, ClientTypeOK, Waits
  <2>4. Replays'
    BY DEF IInv, ClientTypeOK, Replays
  <2>5. UnknownKept' /\ AnsweredGone'
    BY <1>2 DEF IInv, ClientTypeOK, UnknownKept, AnsweredGone, Pending
  <2>6. Strangers'
    BY <1>2 DEF IInv, ClientTypeOK, Strangers, Pending, peerHistory
  <2>7. GenLeft'
    BY DEF IInv, GenLeft
  <2> QED
    BY <2>1, <2>2, <2>3, <2>4, <2>5, <2>6, <2>7 DEF IInv
<1> QED
  BY <1>3, <1>4 DEF GiveUp, e, GivenUp

LEMMA RetryLaterInv ==
  ASSUME IInv, NEW f \in Frame, RetryLater(f),
         entry[f].state = "in_flight", ~Exhausted(entry, f)
  PROVE  IInv'
<1> DEFINE e == MarkRetryWait(entry, f)
<1>1. entry \in Entries /\ entry[f] \in EntryRecord
  BY DEF IInv, ClientTypeOK, Entries, EntryRecord
<1>2. entry[f].attempts < MaxAttempts
  BY <1>1, TransportAssumption DEF Exhausted, EntryRecord
<1>3. /\ e \in Entries
      /\ e[f].state = "retry_wait"
      /\ \A g \in Frame : g # f => e[g] = entry[g]
  BY <1>1, <1>2, MarkRetryWaitFacts
<1> HIDE DEF e
<1>4. CASE DegradeAll(entry)
  BY <1>4, DegradeAllInv
<1>5. CASE /\ DiskOk
           /\ entry' = e
           /\ sentOnGen' = Freed(f)
           /\ pumpTimer' = Scheduled(pumpTimer, e)
           /\ UNCHANGED <<caller, client, replayed, starts, route, routeGen, net, peerHistory>>
  <2> USE <1>5
  <2>1. ClientTypeOK'
    <3>1. pumpTimer' \in Timer
      BY ScheduledFacts DEF IInv, ClientTypeOK, Timer
    <3>2. sentOnGen' \in Frame \cup {NoFrame}
      BY DEF IInv, ClientTypeOK, Freed
    <3> QED
      BY <1>3, <3>1, <3>2
         DEF IInv, ClientTypeOK, Entries, EntryRecord, Timer, DiskOk, peerHistory
  <2>2. Awaited' /\ AtRest'
    BY <1>3 DEF IInv, ClientTypeOK, Awaited, AtRest, Freed, Frame, NoFrame
  <2>3. Waits'
    BY <1>3 DEF IInv, Waits, Pending
  <2>4. Replays'
    BY DEF IInv, Replays
  <2>5. UnknownKept' /\ AnsweredGone'
    BY <1>3 DEF IInv, UnknownKept, AnsweredGone
  <2>6. Strangers'
    BY <1>3 DEF IInv, Strangers, peerHistory
  <2>7. GenLeft'
    BY DEF IInv, GenLeft
  <2> QED
    BY <2>1, <2>2, <2>3, <2>4, <2>5, <2>6, <2>7 DEF IInv
<1> QED
  BY <1>4, <1>5 DEF RetryLater, e

\* Putting a frame on the wire keeps it, for a frame whose caller was told nothing,
\* whose entry waits with an attempt left, while no send is under way.
LEMMA TransmitInv ==
  ASSUME IInv, NEW f \in Frame, NEW e \in Entries, NEW c \in [Frame -> CallerState],
         NEW timer \in Timer, Transmit(f, e, c, timer),
         client = "up", sentOnGen = NoFrame,
         e[f].state \in {"admitted", "retry_wait"}, e[f].attempts < MaxAttempts,
         c[f] \notin {"idle", "not_admitted", "outcome_unknown", "result", "refused"},
         c[f] = "waiting" => f \notin replayed,
         c[f] = "waiting" \/ (c[f] = caller[f] /\ entry[f].state \in Pending),
         \A g \in Frame : g # f => e[g] = entry[g] /\ c[g] = caller[g]
  PROVE  IInv'
<1>1. /\ MarkInFlight(e, f) \in Entries
      /\ MarkInFlight(e, f)[f].state = "in_flight"
      /\ \A g \in Frame : g # f => MarkInFlight(e, f)[g] = entry[g]
  BY MarkInFlightFacts
<1>2. /\ MarkRetryWait(e, f) \in Entries
      /\ MarkRetryWait(e, f)[f].state = "retry_wait"
      /\ \A g \in Frame : g # f => MarkRetryWait(e, f)[g] = entry[g]
  BY MarkRetryWaitFacts
<1>3. Scheduled(timer, MarkRetryWait(e, f)) \in Timer
  BY ScheduledFacts
<1>4. \A g \in Frame : g # f => entry[g].state # "in_flight"
  BY DEF IInv, Awaited, Frame, NoFrame
<1>5. CASE /\ DiskOk
           /\ entry' = MarkInFlight(e, f)
           /\ caller' = c
           /\ sentOnGen' = f
           /\ net' = net \cup {[frame |-> f, gen |-> routeGen, kind |-> "request"]}
           /\ sends' = [sends EXCEPT ![f] = @ + 1]
           /\ pumpTimer' = timer
           /\ UNCHANGED <<client, replayed, starts, route, routeGen, began>>
  <2> USE <1>1, <1>5
  <2>1. ClientTypeOK'
    <3>1. net' \subseteq [frame : Frame, gen : 0 .. MaxRouteGen, kind : Kind]
      BY DEF IInv, ClientTypeOK, Kind
    <3>2. sends' \in [Frame -> Nat]
      BY DEF IInv, ClientTypeOK
    <3> QED
      BY <3>1, <3>2 DEF IInv, ClientTypeOK, Entries, EntryRecord, Timer, DiskOk
  <2>2. Awaited' /\ AtRest'
    BY <1>4 DEF Awaited, AtRest
  <2>3. Waits'
    BY DEF IInv, Waits, Pending
  <2>4. Replays'
    BY DEF IInv, ClientTypeOK, Replays
  <2>5. UnknownKept' /\ AnsweredGone'
    BY DEF IInv, UnknownKept, AnsweredGone
  <2>6. Strangers'
    BY DEF IInv, ClientTypeOK, Strangers
  <2>7. GenLeft'
    BY DEF IInv, GenLeft
  <2> QED
    BY <2>1, <2>2, <2>3, <2>4, <2>5, <2>6, <2>7 DEF IInv
<1>6. CASE /\ DiskOk
           /\ entry' = MarkRetryWait(e, f)
           /\ caller' = c
           /\ pumpTimer' = Scheduled(timer, MarkRetryWait(e, f))
           /\ UNCHANGED <<client, sentOnGen, replayed, starts, route, routeGen, net, peerHistory>>
  <2> USE <1>2, <1>3, <1>6
  <2>1. ClientTypeOK'
    BY DEF IInv, ClientTypeOK, Entries, EntryRecord, Timer, DiskOk, peerHistory
  <2>2. Awaited' /\ AtRest'
    BY <1>4 DEF Awaited, AtRest, Frame, NoFrame
  <2>3. Waits'
    BY DEF IInv, Waits, Pending
  <2>4. Replays'
    BY DEF IInv, ClientTypeOK, Replays
  <2>5. UnknownKept' /\ AnsweredGone'
    BY DEF IInv, UnknownKept, AnsweredGone
  <2>6. Strangers'
    BY DEF IInv, ClientTypeOK, Strangers, peerHistory
  <2>7. GenLeft'
    BY DEF IInv, GenLeft
  <2> QED
    BY <2>1, <2>2, <2>3, <2>4, <2>5, <2>6, <2>7 DEF IInv
<1>7. ASSUME NEW e2 \in {e, MarkInFlight(e, f)},
             Degrade(e2, [g \in Frame |-> IF c[g] = "waiting" THEN "unavailable_pre" ELSE c[g]])
      PROVE  IInv'
  <2> DEFINE c2 == [g \in Frame |-> IF c[g] = "waiting" THEN "unavailable_pre" ELSE c[g]]
  <2>1. c2 \in [Frame -> CallerState]
    BY DEF CallerState, Told
  <2>2. \A g \in Frame : c2[g] = IF c[g] = "waiting" THEN "unavailable_pre" ELSE c[g]
    OBVIOUS
  <2>3. Degrade(e2, c2)
    BY <1>7
  <2> HIDE DEF c2
  <2>4. e2 \in Entries
    BY <1>1, <1>7
  <2>5. \A g \in Frame : (c2[g] = caller[g] /\ caller[g] # "waiting")
                         \/ c2[g] \in {"unavailable_pre", "dropped"}
    BY <2>2
  <2>6. \A g \in Frame : e2[g].state = entry[g].state
                         \/ c2[g] \in {"unavailable_pre", "dropped"}
                         \/ {e2[g].state, entry[g].state} \subseteq Pending
    BY <2>2, <1>1, <1>7 DEF Pending
  <2> QED
    BY <2>1, <2>3, <2>4, <2>5, <2>6, DegradeInv
<1> QED
  BY <1>5, <1>6, <1>7 DEF Transmit

\* A request that is not admitted leaves no trace but in its caller.
LEMMA NotAdmittedInv == ASSUME IInv, NEW f \in Frame, NotAdmitted(f) PROVE IInv'
<1> USE DEF NotAdmitted, NextNew
<1>1. ClientTypeOK'
  BY DEF IInv, ClientTypeOK, CallerState, Told, DiskOk, DiskFails, peerHistory
<1>2. Awaited' /\ AtRest'
  BY DEF IInv, Awaited, AtRest
<1>3. Waits' /\ Replays'
  BY DEF IInv, ClientTypeOK, Waits, Replays
<1>4. UnknownKept' /\ AnsweredGone'
  BY DEF IInv, ClientTypeOK, UnknownKept, AnsweredGone
<1>5. Strangers'
  BY DEF IInv, ClientTypeOK, Strangers, peerHistory
<1>6. GenLeft'
  BY DEF IInv, GenLeft
<1> QED
  BY <1>1, <1>2, <1>3, <1>4, <1>5, <1>6 DEF IInv

LEMMA RequestsInv == ASSUME IInv, NEW f \in Frame, Requests(f) PROVE IInv'
<1> DEFINE e == [entry EXCEPT ![f] = NewEntry]
           c == [caller EXCEPT ![f] = "waiting"]
<1>1. /\ e \in Entries
      /\ e[f].state = "admitted" /\ e[f].attempts = 0
      /\ \A g \in Frame : g # f => e[g] = entry[g]
  BY NewEntryFacts DEF IInv, ClientTypeOK, Entries, EntryRecord
<1>2. /\ c \in [Frame -> CallerState]
      /\ c[f] = "waiting"
      /\ \A g \in Frame : g # f => c[g] = caller[g]
  BY DEF IInv, ClientTypeOK, CallerState
<1>3. caller[f] = "idle" /\ client = "up"
  BY DEF Requests, NextNew, Admits
<1>4. entry[f].state = "absent" /\ f \notin replayed
  BY <1>3 DEF IInv, Strangers, Replays
<1>5. pumpTimer \in Timer /\ 0 < MaxAttempts
  BY TransportAssumption DEF IInv, ClientTypeOK, Timer
<1> HIDE DEF e, c
<1>6. CASE /\ sentOnGen # NoFrame
           /\ entry' = e
           /\ caller' = c
           /\ UNCHANGED <<sentOnGen, pumpTimer, client, diskBad, replayed, starts,
                          route, routeGen, net, peerHistory>>
  <2> USE <1>1, <1>2, <1>6
  <2>1. ClientTypeOK'
    BY DEF IInv, ClientTypeOK, Entries, EntryRecord, peerHistory
  <2>2. Awaited' /\ AtRest'
    BY <1>4 DEF IInv, Awaited, AtRest
  <2>3. Waits'
    BY <1>3, <1>4 DEF IInv, Waits, Pending
  <2>4. Replays'
    BY <1>4 DEF IInv, ClientTypeOK, Replays
  <2>5. UnknownKept' /\ AnsweredGone'
    BY DEF IInv, UnknownKept, AnsweredGone
  <2>6. Strangers'
    BY DEF IInv, Strangers, peerHistory
  <2>7. GenLeft'
    BY DEF IInv, GenLeft
  <2> QED
    BY <2>1, <2>2, <2>3, <2>4, <2>5, <2>6, <2>7 DEF IInv
<1>7. CASE sentOnGen = NoFrame /\ Transmit(f, e, c, pumpTimer)
  <2>1. e[f].state \in {"admitted", "retry_wait"} /\ e[f].attempts < MaxAttempts
    BY <1>1, <1>5
  <2>2. /\ c[f] \notin {"idle", "not_admitted", "outcome_unknown", "result", "refused"}
        /\ c[f] = "waiting" => f \notin replayed
        /\ c[f] = "waiting" \/ (c[f] = caller[f] /\ entry[f].state \in Pending)
    BY <1>2, <1>4
  <2>3. \A g \in Frame : g # f => e[g] = entry[g] /\ c[g] = caller[g]
    BY <1>1, <1>2
  <2> QED
    BY <1>1, <1>2, <1>3, <1>5, <1>7, <2>1, <2>2, <2>3, TransmitInv
<1> QED
  BY <1>6, <1>7 DEF Requests, e, c

LEMMA ResponseTimeoutInv == ASSUME IInv, NEW f \in Frame, ResponseTimeout(f) PROVE IInv'
<1>1. entry[f].state = "in_flight" /\ entry[f].state \in Pending
  BY DEF ResponseTimeout, Pending
<1>2. pumpTimer \in Timer
  BY DEF IInv, ClientTypeOK, Timer
<1>3. CASE Exhausted(entry, f)
  BY <1>1, <1>2, <1>3, GiveUpInv DEF ResponseTimeout
<1>4. CASE ~Exhausted(entry, f)
  BY <1>1, <1>4, RetryLaterInv DEF ResponseTimeout
<1> QED
  BY <1>3, <1>4

\* What a pump that found nothing to send, a wake-up and a passing of time change of
\* the timer and the entries keeps it as long as every entry keeps its state.
LEMMA TimerInv ==
  ASSUME IInv, entry' \in Entries, pumpTimer' \in Timer,
         \A f \in Frame : entry'[f].state = entry[f].state,
         UNCHANGED <<caller, sentOnGen, client, diskBad, replayed, starts,
                     route, routeGen, net, peerHistory>>
  PROVE  IInv'
<1>1. ClientTypeOK'
  BY DEF IInv, ClientTypeOK, Entries, EntryRecord, Timer, peerHistory
<1>2. Awaited' /\ AtRest'
  BY DEF IInv, Awaited, AtRest
<1>3. Waits' /\ Replays'
  BY DEF IInv, Waits, Replays
<1>4. UnknownKept' /\ AnsweredGone'
  BY DEF IInv, UnknownKept, AnsweredGone
<1>5. Strangers'
  BY DEF IInv, Strangers, peerHistory
<1>6. GenLeft'
  BY DEF IInv, GenLeft
<1> QED
  BY <1>1, <1>2, <1>3, <1>4, <1>5, <1>6 DEF IInv

LEMMA PumpInv == ASSUME IInv, Pump PROVE IInv'
<1>1. entry \in Entries
  BY DEF IInv, ClientTypeOK, Entries, EntryRecord
<1>2. "none" \in Timer
  BY DEF Timer
<1>3. CASE client # "up" \/ ~ready \/ Due(entry) = {} \/ sentOnGen # NoFrame
  BY <1>1, <1>2, <1>3, TimerInv DEF Pump
<1>4. CASE ~(client # "up" \/ ~ready \/ Due(entry) = {} \/ sentOnGen # NoFrame)
  <2>1. PICK f \in Due(entry) : IF Exhausted(entry, f) THEN GiveUp(f, "none")
                                ELSE Transmit(f, entry, caller, "none")
    BY <1>4 DEF Pump
  <2>2. /\ f \in Frame
        /\ entry[f].state \in {"admitted", "retry_wait"}
        /\ entry[f].state \in Pending
    BY DEF Due, Pending
  <2>3. CASE Exhausted(entry, f)
    BY <1>2, <2>1, <2>2, <2>3, GiveUpInv
  <2>4. CASE ~Exhausted(entry, f)
    <3>1. entry[f].attempts < MaxAttempts
      BY <1>1, <2>2, <2>4, TransportAssumption DEF Exhausted, Entries, EntryRecord
    <3>2. caller \in [Frame -> CallerState] /\ client = "up" /\ sentOnGen = NoFrame
      BY <1>4 DEF IInv, ClientTypeOK
    <3>3. /\ caller[f] \notin {"idle", "not_admitted", "outcome_unknown", "result", "refused"}
          /\ caller[f] = "waiting" => f \notin replayed
      BY <2>2 DEF IInv, Strangers, UnknownKept, AnsweredGone, Waits
    <3>4. Transmit(f, entry, caller, "none")
      BY <2>1, <2>4
    <3> QED
      BY <1>1, <1>2, <2>2, <3>1, <3>2, <3>3, <3>4, TransmitInv
  <2> QED
    BY <2>3, <2>4
<1> QED
  BY <1>3, <1>4

LEMMA WakeInv == ASSUME IInv, Wake PROVE IInv'
<1>1. entry \in Entries /\ "none" \in Timer
  BY DEF IInv, ClientTypeOK, Entries, EntryRecord, Timer
<1>2. Scheduled("none", entry) \in Timer
  BY <1>1, ScheduledFacts
<1> QED
  BY <1>1, <1>2, TimerInv DEF Wake

LEMMA NextAttemptComesInv == ASSUME IInv, NEW f \in Frame, NextAttemptComes(f) PROVE IInv'
<1>1. entry \in Entries /\ entry[f] \in EntryRecord /\ pumpTimer \in Timer
  BY DEF IInv, ClientTypeOK, Entries, EntryRecord, Timer
<1>2. [entry[f] EXCEPT !.next = "past"] \in EntryRecord
  BY <1>1 DEF EntryRecord
<1>3. [entry[f] EXCEPT !.next = "past"].state = entry[f].state
  BY <1>1 DEF EntryRecord
<1>4. entry' = [entry EXCEPT ![f] = [entry[f] EXCEPT !.next = "past"]]
  BY DEF NextAttemptComes
<1>5. PICK r \in EntryRecord : entry' = [entry EXCEPT ![f] = r] /\ r.state = entry[f].state
  BY <1>2, <1>3, <1>4
<1>6. entry' \in Entries /\ \A g \in Frame : entry'[g].state = entry[g].state
  BY <1>1, <1>5 DEF Entries
<1> QED
  BY <1>1, <1>6, TimerInv DEF NextAttemptComes

LEMMA LapseInv == ASSUME IInv, NEW f \in Frame, Lapse(f) PROVE IInv'
<1>1. entry \in Entries /\ entry[f] \in EntryRecord /\ pumpTimer \in Timer
  BY DEF IInv, ClientTypeOK, Entries, EntryRecord, Timer
<1>2. [entry[f] EXCEPT !.lapsed = TRUE] \in EntryRecord
  BY <1>1 DEF EntryRecord
<1>3. [entry[f] EXCEPT !.lapsed = TRUE].state = entry[f].state
  BY <1>1 DEF EntryRecord
<1>4. entry' = [entry EXCEPT ![f] = [entry[f] EXCEPT !.lapsed = TRUE]]
  BY DEF Lapse
<1>5. PICK r \in EntryRecord : entry' = [entry EXCEPT ![f] = r] /\ r.state = entry[f].state
  BY <1>2, <1>3, <1>4
<1>6. entry' \in Entries /\ \A g \in Frame : entry'[g].state = entry[g].state
  BY <1>1, <1>5 DEF Entries
<1> QED
  BY <1>1, <1>6, TimerInv DEF Lapse

\* An answer settles the frame that was awaited.
LEMMA HandleMessageInv == ASSUME IInv, NEW m \in net, HandleMessage(m) PROVE IInv'
<1> DEFINE f == m.frame
           e == [entry EXCEPT ![f] = NoEntry]
           c == [TellWaiting("unavailable_pre") EXCEPT
                   ![f] = IF caller[f] = "waiting" THEN "dropped" ELSE @]
<1>1. f \in Frame
  BY DEF IInv, ClientTypeOK
<1>2. client = "up" /\ sentOnGen = f /\ m.kind \in {"result", "refused"}
  BY DEF HandleMessage
<1>3. entry \in Entries /\ entry[f].state = "in_flight"
  BY <1>1, <1>2 DEF IInv, ClientTypeOK, Entries, EntryRecord, Awaited
<1>4. /\ e \in Entries
      /\ e[f].state = "absent"
      /\ \A g \in Frame : g # f => e[g] = entry[g]
  BY <1>1, <1>3, NewEntryFacts DEF Entries
<1>5. /\ TellWaiting("unavailable_pre") \in [Frame -> CallerState]
      /\ \A g \in Frame : TellWaiting("unavailable_pre")[g] =
                            IF caller[g] = "waiting" THEN "unavailable_pre" ELSE caller[g]
  BY TellWaitingFacts
<1>6. /\ c \in [Frame -> CallerState]
      /\ \A g \in Frame : (c[g] = caller[g] /\ caller[g] # "waiting")
                          \/ c[g] \in {"unavailable_pre", "dropped"}
  BY <1>1, <1>5 DEF CallerState
<1>7. CASE Degrade(entry, c)
  <2>1. \A g \in Frame : entry[g].state = entry[g].state
    OBVIOUS
  <2> HIDE DEF c
  <2> QED
    BY <1>3, <1>6, <1>7, <2>1, DegradeInv
<1>8. CASE /\ DiskOk
           /\ entry' = e
           /\ caller' = [caller EXCEPT ![f] = IF @ = "waiting" THEN m.kind ELSE @]
           /\ sentOnGen' = NoFrame
           /\ pumpTimer' = Scheduled(pumpTimer, e)
           /\ net' = net \ {m}
           /\ UNCHANGED <<client, replayed, starts, route, routeGen, peerHistory>>
  <2> HIDE DEF f, e, c
  <2> USE <1>1, <1>4, <1>8
  <2>1. ClientTypeOK'
    <3>1. pumpTimer' \in Timer
      BY ScheduledFacts DEF IInv, ClientTypeOK, Timer
    <3>2. caller' \in [Frame -> CallerState]
      BY <1>2 DEF IInv, ClientTypeOK, CallerState, Told
    <3> QED
      BY <3>1, <3>2 DEF IInv, ClientTypeOK, Entries, EntryRecord, Timer, DiskOk, peerHistory
  <2>2. Awaited' /\ AtRest'
    BY <1>2 DEF IInv, Awaited, AtRest, Frame, NoFrame
  <2>3. Waits' /\ Replays'
    BY <1>2 DEF IInv, ClientTypeOK, Waits, Replays
  <2>4. UnknownKept' /\ AnsweredGone'
    BY <1>2, <1>3 DEF IInv, ClientTypeOK, UnknownKept, AnsweredGone
  <2>5. Strangers'
    BY <1>2, <1>3 DEF IInv, ClientTypeOK, Strangers, peerHistory
  <2>6. GenLeft'
    BY DEF IInv, GenLeft
  <2> QED
    BY <2>1, <2>2, <2>3, <2>4, <2>5, <2>6 DEF IInv
<1> QED
  BY <1>7, <1>8 DEF HandleMessage, f, e, c

\* What the peer makes of a request is on the wire under the frame of the request.
LEMMA BecomesFacts ==
  ASSUME IInv, NEW m \in net, NEW k \in Kind, Becomes(m, k)
  PROVE  /\ net' \subseteq [frame : Frame, gen : 0 .. MaxRouteGen, kind : Kind]
         /\ \A n \in net' : \E o \in net : n.frame = o.frame
<1>1. m \in [frame : Frame, gen : 0 .. MaxRouteGen, kind : Kind]
  BY DEF IInv, ClientTypeOK
<1>2. [m EXCEPT !.kind = k] \in [frame : Frame, gen : 0 .. MaxRouteGen, kind : Kind]
  BY <1>1
<1>3. [m EXCEPT !.kind = k].frame = m.frame
  BY <1>1
<1>4. net' \subseteq net \cup {[m EXCEPT !.kind = k]}
  BY DEF Becomes
<1> QED
  BY <1>2, <1>3, <1>4 DEF IInv, ClientTypeOK

LEMMA PeerInv ==
  ASSUME IInv, NEW m \in net, NEW k \in Kind, Becomes(m, k),
         began' = began \/ began' = began \cup {m.frame},
         UNCHANGED <<entry, caller, sentOnGen, pumpTimer, client, diskBad, replayed, starts,
                     route, routeGen, sends>>
  PROVE  IInv'
<1>1. /\ net' \subseteq [frame : Frame, gen : 0 .. MaxRouteGen, kind : Kind]
      /\ \A n \in net' : \E o \in net : n.frame = o.frame
  BY BecomesFacts
<1>2. m.frame \in Frame
  BY DEF IInv, ClientTypeOK
<1>3. ClientTypeOK'
  BY <1>1, <1>2 DEF IInv, ClientTypeOK
<1>4. Awaited' /\ AtRest'
  BY DEF IInv, Awaited, AtRest
<1>5. Waits' /\ Replays'
  BY DEF IInv, Waits, Replays
<1>6. UnknownKept' /\ AnsweredGone'
  BY DEF IInv, UnknownKept, AnsweredGone
<1>7. Strangers'
  BY <1>1 DEF IInv, Strangers
<1>8. GenLeft'
  BY DEF IInv, GenLeft
<1> QED
  BY <1>3, <1>4, <1>5, <1>6, <1>7, <1>8 DEF IInv

LEMMA PeerTakesInv == ASSUME IInv, NEW m \in net, PeerTakes(m) PROVE IInv'
<1>1. {"handling", "refused"} \subseteq Kind
  BY DEF Kind
<1> QED
  BY <1>1, PeerInv DEF PeerTakes

LEMMA PeerAnswersInv == ASSUME IInv, NEW m \in net, PeerAnswers(m) PROVE IInv'
<1>1. "result" \in Kind
  BY DEF Kind
<1> QED
  BY <1>1, PeerInv DEF PeerAnswers, peerHistory

LEMMA RouteReadyInv == ASSUME IInv, RouteReady PROVE IInv'
<1>1. Armed(pumpTimer, entry) \in Timer /\ pumpTimer \in Timer
  BY ScheduledFacts DEF IInv, ClientTypeOK, Timer
<1>2. ClientTypeOK'
  BY <1>1 DEF IInv, ClientTypeOK, Timer, RouteReady, peerHistory
<1>3. Awaited' /\ AtRest'
  BY DEF IInv, Awaited, AtRest, RouteReady
<1>4. Waits' /\ Replays'
  BY DEF IInv, Waits, Replays, RouteReady
<1>5. UnknownKept' /\ AnsweredGone'
  BY DEF IInv, UnknownKept, AnsweredGone, RouteReady
<1>6. Strangers'
  BY DEF IInv, Strangers, RouteReady, peerHistory
<1>7. GenLeft'
  BY DEF RouteReady, GenLeft
<1> QED
  BY <1>2, <1>3, <1>4, <1>5, <1>6, <1>7 DEF IInv

LEMMA SocketClosesInv == ASSUME IInv, SocketCloses PROVE IInv'
<1>1. ClientTypeOK'
  BY DEF IInv, ClientTypeOK, SocketCloses, peerHistory
<1>2. Awaited' /\ AtRest'
  BY DEF IInv, Awaited, AtRest, SocketCloses
<1>3. Waits' /\ Replays'
  BY DEF IInv, Waits, Replays, SocketCloses
<1>4. UnknownKept' /\ AnsweredGone'
  BY DEF IInv, UnknownKept, AnsweredGone, SocketCloses
<1>5. Strangers'
  BY DEF IInv, Strangers, SocketCloses, peerHistory
<1>6. GenLeft'
  BY DEF IInv, GenLeft, SocketCloses, ready
<1> QED
  BY <1>1, <1>2, <1>3, <1>4, <1>5, <1>6 DEF IInv

\* The frame that was under way goes back to the queue, or is given up.
LEMMA RouteLostInv == ASSUME IInv, RouteLost PROVE IInv'
<1> DEFINE f == sentOnGen
<1>1. entry \in Entries /\ client = "up"
  BY DEF IInv, ClientTypeOK, Entries, EntryRecord, RouteLost
<1>2. ASSUME f # NoFrame PROVE f \in Frame /\ entry[f].state = "in_flight"
  BY <1>1, <1>2 DEF IInv, ClientTypeOK, Awaited
<1>3. CASE DegradeAll(entry)
  BY <1>3, DegradeAllInv
<1>4. CASE /\ DiskOk
           /\ RouteDown
           /\ sentOnGen' = NoFrame
           /\ UNCHANGED <<pumpTimer, client, replayed, starts, peerHistory>>
           /\ IF f = NoFrame THEN UNCHANGED <<entry, caller>>
              ELSE IF Exhausted(entry, f)
              THEN /\ entry' = GivenUp(entry, f)
                   /\ caller' = [caller EXCEPT ![f] =
                                   IF @ = "waiting" THEN "outcome_unknown" ELSE @]
              ELSE entry' = MarkRetryWait(entry, f) /\ UNCHANGED caller
  <2> USE <1>4
  <2>1. /\ entry' \in Entries
        /\ caller' \in [Frame -> CallerState]
        /\ \A g \in Frame : entry'[g].state # "in_flight"
        /\ \A g \in Frame :
             \/ entry'[g] = entry[g] /\ caller'[g] = caller[g]
             \/ /\ entry[g].state = "in_flight"
                /\ \/ entry'[g].state = "retry_wait" /\ caller'[g] = caller[g]
                   \/ /\ entry'[g].state = "terminal_unknown"
                      /\ caller'[g] = IF caller[g] = "waiting" THEN "outcome_unknown"
                                      ELSE caller[g]
    <3>1. \A g \in Frame : g # f => entry[g].state # "in_flight"
      BY <1>1 DEF IInv, Awaited
    <3>2. caller \in [Frame -> CallerState]
      BY DEF IInv, ClientTypeOK
    <3>3. CASE f = NoFrame
      BY <1>1, <3>1, <3>2, <3>3 DEF NoFrame, Frame
    <3>4. CASE f # NoFrame /\ Exhausted(entry, f)
      <4>1. /\ entry' \in Entries
            /\ entry'[f].state = "terminal_unknown"
            /\ \A g \in Frame : g # f => entry'[g] = entry[g]
        BY <1>1, <1>2, <3>4, GivenUpFacts
      <4>2. /\ caller' \in [Frame -> CallerState]
            /\ \A g \in Frame : caller'[g] =
                 IF g = f /\ caller[g] = "waiting" THEN "outcome_unknown" ELSE caller[g]
        BY <1>2, <3>2, <3>4 DEF CallerState, Told
      <4> QED
        BY <1>2, <3>1, <3>4, <4>1, <4>2
    <3>5. CASE f # NoFrame /\ ~Exhausted(entry, f)
      <4>1. entry[f].attempts < MaxAttempts
        BY <1>1, <1>2, <3>5, TransportAssumption DEF Exhausted, Entries, EntryRecord
      <4>2. /\ entry' \in Entries
            /\ entry'[f].state = "retry_wait"
            /\ \A g \in Frame : g # f => entry'[g] = entry[g]
        BY <1>1, <1>2, <3>5, <4>1, MarkRetryWaitFacts
      <4> QED
        BY <1>2, <3>1, <3>2, <3>5, <4>2
    <3> QED
      BY <3>3, <3>4, <3>5
  <2> HIDE <1>4
  <2>2. ClientTypeOK'
    BY <1>4, <2>1, RouteDownFacts
       DEF IInv, ClientTypeOK, Entries, EntryRecord, DiskOk, peerHistory
  <2>3. Awaited' /\ AtRest'
    BY <1>4, <2>1 DEF Awaited, AtRest, Frame, NoFrame
  <2>4. Waits'
    BY <1>1, <1>4, <2>1 DEF IInv, Waits, Pending
  <2>5. Replays'
    BY <1>4, <2>1 DEF IInv, ClientTypeOK, Replays
  <2>6. UnknownKept' /\ AnsweredGone'
    BY <2>1 DEF IInv, UnknownKept, AnsweredGone
  <2>7. Strangers'
    BY <1>4, <2>1, RouteDownFacts DEF IInv, Strangers, peerHistory
  <2>8. GenLeft'
    BY <1>4, RouteDownFacts
  <2> QED
    BY <2>2, <2>3, <2>4, <2>5, <2>6, <2>7, <2>8 DEF IInv
<1> QED
  BY <1>3, <1>4 DEF RouteLost, GivenUp

\* An orderly close and a death: the entries stay, every waiting caller is told or gone.
LEMMA EndInv ==
  ASSUME IInv, NEW what \in {"closed", "gone"}, NEW how \in {"closed", "down"},
         client' = how, caller' = TellWaiting(what), sentOnGen' = NoFrame,
         pumpTimer' = "none", RouteDown,
         UNCHANGED <<entry, diskBad, replayed, starts, peerHistory>>
  PROVE  IInv'
<1>1. /\ caller' \in [Frame -> CallerState]
      /\ \A g \in Frame : caller'[g] = IF caller[g] = "waiting" THEN what ELSE caller[g]
  BY TellWaitingFacts
<1>2. ClientTypeOK'
  BY <1>1, RouteDownFacts DEF IInv, ClientTypeOK, NoFrame, peerHistory
<1>3. Awaited' /\ AtRest'
  BY DEF Awaited, AtRest
<1>4. Waits' /\ Replays'
  BY <1>1 DEF IInv, ClientTypeOK, Waits, Replays
<1>5. UnknownKept' /\ AnsweredGone'
  BY <1>1 DEF IInv, UnknownKept, AnsweredGone
<1>6. Strangers'
  BY <1>1, RouteDownFacts DEF IInv, Strangers, peerHistory
<1>7. GenLeft'
  BY RouteDownFacts
<1> QED
  BY <1>2, <1>3, <1>4, <1>5, <1>6, <1>7 DEF IInv

LEMMA CloseClientInv == ASSUME IInv, CloseClient PROVE IInv'
BY EndInv DEF CloseClient

LEMMA ClientDiesInv == ASSUME IInv, ClientDies PROVE IInv'
BY EndInv DEF ClientDies

\* A new process finds its entries in the file, with no caller for any of them.
LEMMA ClientStartsInv == ASSUME IInv, ClientStarts PROVE IInv'
<1> USE DEF ClientStarts
<1>1. \A f \in Frame :
        /\ entry'[f] \in EntryRecord
        /\ entry'[f].state = IF entry[f].state = "in_flight" THEN "retry_wait"
                             ELSE entry[f].state
  BY ReloadedFacts DEF IInv, ClientTypeOK, EntryRecord
<1>2. entry' \in Entries
  BY <1>1 DEF Entries
<1>3. \A f \in Frame : caller[f] # "waiting"
  BY DEF IInv, Waits
<1>4. ClientTypeOK'
  <2>1. starts' \in 0 .. MaxStarts
    BY TransportAssumption DEF IInv, ClientTypeOK
  <2>2. diskBad' \in BOOLEAN
    BY Zenon DEF ClientStarts
  <2> QED
    BY <1>2, <2>1, <2>2 DEF IInv, ClientTypeOK, Entries, EntryRecord, Occupied, peerHistory
<1>5. Awaited' /\ AtRest'
  BY <1>1 DEF IInv, Awaited, AtRest, Frame, NoFrame
<1>6. Waits'
  BY <1>3 DEF Waits
<1>7. Replays'
  BY <1>3 DEF IInv, Replays, Strangers, Occupied
<1>8. UnknownKept' /\ AnsweredGone'
  BY <1>1 DEF IInv, UnknownKept, AnsweredGone
<1>9. Strangers'
  BY <1>1 DEF IInv, Strangers, peerHistory
<1>10. GenLeft'
  BY DEF IInv, GenLeft
<1> QED
  BY <1>4, <1>5, <1>6, <1>7, <1>8, <1>9, <1>10 DEF IInv

\* The invariant is inductive.
LEMMA NextInv == IInv /\ [ClientNext]_clientVars => IInv'
<1> SUFFICES ASSUME IInv, [ClientNext]_clientVars PROVE IInv'
  OBVIOUS
<1>1. ASSUME NEW f \in Frame, NotAdmitted(f) PROVE IInv'
  BY <1>1, NotAdmittedInv
<1>2. ASSUME NEW f \in Frame, Requests(f) PROVE IInv'
  BY <1>2, RequestsInv
<1>3. ASSUME NEW f \in Frame, ResponseTimeout(f) PROVE IInv'
  BY <1>3, ResponseTimeoutInv
<1>4. ASSUME NEW f \in Frame, NextAttemptComes(f) PROVE IInv'
  BY <1>4, NextAttemptComesInv
<1>5. ASSUME NEW f \in Frame, Lapse(f) PROVE IInv'
  BY <1>5, LapseInv
<1>6. ASSUME NEW m \in net, HandleMessage(m) PROVE IInv'
  BY <1>6, HandleMessageInv
<1>7. ASSUME NEW m \in net, PeerTakes(m) PROVE IInv'
  BY <1>7, PeerTakesInv
<1>8. ASSUME NEW m \in net, PeerAnswers(m) PROVE IInv'
  BY <1>8, PeerAnswersInv
<1>9. CASE Pump
  BY <1>9, PumpInv
<1>10. CASE Wake
  BY <1>10, WakeInv
<1>11. CASE RouteReady
  BY <1>11, RouteReadyInv
<1>12. CASE SocketCloses
  BY <1>12, SocketClosesInv
<1>13. CASE RouteLost
  BY <1>13, RouteLostInv
<1>14. CASE CloseClient
  BY <1>14, CloseClientInv
<1>15. CASE ClientDies
  BY <1>15, ClientDiesInv
<1>16. CASE ClientStarts
  BY <1>16, ClientStartsInv
<1>17. CASE UNCHANGED clientVars
  BY <1>17
     DEF clientVars, IInv, ClientTypeOK, Awaited, AtRest, Waits, Replays, UnknownKept,
         AnsweredGone, Strangers, GenLeft
<1> QED
  BY <1>1, <1>2, <1>3, <1>4, <1>5, <1>6, <1>7, <1>8, <1>9, <1>10, <1>11, <1>12, <1>13,
     <1>14, <1>15, <1>16, <1>17 DEF ClientNext

\* Every state of the client and its wire satisfies the inductive invariant.
THEOREM Invariance == ClientSpec => []IInv
<1>1. ClientInit => IInv
  BY InitInv
<1>2. IInv /\ [ClientNext]_clientVars => IInv'
  BY NextInv
<1> QED
  BY <1>1, <1>2, PTL DEF ClientSpec

\* Every variable of the client keeps its type: no attempt is made beyond the budget,
\* no generation of the route is used that was not opened.
THEOREM TypesHold == ClientSpec => []ClientTypeOK
<1>1. IInv => ClientTypeOK
  BY DEF IInv
<1> QED
  BY <1>1, Invariance, PTL

\* Nothing is stranded: the entry in flight is the one the client awaits, who waits
\* has an entry that is still to be settled, an unknown outcome is on record, and what
\* was refused admission never runs.  However sends, answers, timers, lost routes,
\* failed checkpoints, deaths and restarts interleave.
THEOREM NeverStranded == ClientSpec => []NothingStranded
BY Invariance, InvIsEnough, PTL

-----------------------------------------------------------------------------
(* What is finished stays finished *)

\* markDegraded() sends nothing and finishes or reopens no frame.
LEMMA DegradeFinishes ==
  ASSUME NEW e, NEW c, Degrade(e, c), NEW f \in Frame, Finished(f),
         e[f].state = entry[f].state, caller[f] # "waiting" => c[f] = caller[f]
  PROVE  Finished(f)' /\ sends'[f] = sends[f]
BY DEF Degrade, Finished, peerHistory

LEMMA DegradeAllFinishes ==
  ASSUME IInv, DegradeAll(entry), NEW f \in Frame, Finished(f)
  PROVE  Finished(f)' /\ sends'[f] = sends[f]
<1>1. caller[f] # "waiting" => TellWaiting("unavailable_pre")[f] = caller[f]
  BY TellWaitingFacts
<1> QED
  BY <1>1, DegradeFinishes DEF DegradeAll

\* A frame that is finished has no entry that is still to be sent or answered.
LEMMA FinishedIsSettled ==
  ASSUME IInv, NEW f \in Frame, Finished(f)
  PROVE  entry[f].state \notin Pending /\ caller[f] \notin {"idle", "waiting"}
BY DEF IInv, Finished, UnknownKept, AnsweredGone, Strangers, Waits, Pending

\* A step that settles a pending frame f leaves every finished frame g finished.
LEMMA OtherFinishes ==
  ASSUME IInv, NEW g \in Frame, Finished(g),
         entry'[g] = entry[g], caller'[g] = caller[g], sends'[g] = sends[g]
  PROVE  Finished(g)' /\ sends'[g] = sends[g]
BY DEF Finished

LEMMA GiveUpFinishes ==
  ASSUME IInv, NEW f \in Frame, NEW timer, GiveUp(f, timer), entry[f].state \in Pending,
         NEW g \in Frame, Finished(g)
  PROVE  Finished(g)' /\ sends'[g] = sends[g]
<1>1. g # f
  BY FinishedIsSettled
<1>2. CASE DegradeAll(entry)
  BY <1>2, DegradeAllFinishes
<1>3. CASE /\ entry' = [entry EXCEPT ![f].state = "terminal_unknown"]
           /\ caller' = [caller EXCEPT ![f] = IF @ = "waiting" THEN "outcome_unknown" ELSE @]
           /\ UNCHANGED sends
  BY <1>1, <1>3, OtherFinishes DEF IInv, ClientTypeOK
<1> QED
  BY <1>2, <1>3 DEF GiveUp, peerHistory

LEMMA TransmitFinishes ==
  ASSUME IInv, NEW f \in Frame, NEW e \in Entries, NEW c \in [Frame -> CallerState], NEW timer,
         Transmit(f, e, c, timer), e[f].attempts < MaxAttempts,
         ~Finished(f), \A h \in Frame : h # f => e[h] = entry[h] /\ c[h] = caller[h],
         NEW g \in Frame, Finished(g)
  PROVE  Finished(g)' /\ sends'[g] = sends[g]
<1>1. g # f
  OBVIOUS
<1>2. /\ MarkInFlight(e, f)[g] = entry[g] /\ MarkRetryWait(e, f)[g] = entry[g]
      /\ e[g] = entry[g] /\ c[g] = caller[g]
  BY <1>1, MarkInFlightFacts, MarkRetryWaitFacts
<1>3. CASE /\ entry' = MarkInFlight(e, f)
           /\ caller' = c
           /\ sends' = [sends EXCEPT ![f] = @ + 1]
  BY <1>1, <1>2, <1>3, OtherFinishes DEF IInv, ClientTypeOK
<1>4. CASE entry' = MarkRetryWait(e, f) /\ caller' = c /\ UNCHANGED sends
  BY <1>2, <1>4, OtherFinishes
<1>5. ASSUME NEW e2 \in {e, MarkInFlight(e, f)},
             Degrade(e2, [h \in Frame |-> IF c[h] = "waiting" THEN "unavailable_pre" ELSE c[h]])
      PROVE  Finished(g)' /\ sends'[g] = sends[g]
  BY <1>2, <1>5, DegradeFinishes
<1> QED
  BY <1>3, <1>4, <1>5 DEF Transmit, peerHistory

\* No step sends a finished frame again, and none makes it unfinished.
LEMMA FinishedStays ==
  ASSUME IInv, ClientNext, NEW g \in Frame, Finished(g)
  PROVE  Finished(g)' /\ sends'[g] = sends[g]
<1> DEFINE Goal == Finished(g)' /\ sends'[g] = sends[g]
<1>1. entry \in Entries /\ caller \in [Frame -> CallerState] /\ sends \in [Frame -> Nat]
  BY DEF IInv, ClientTypeOK, Entries, EntryRecord
<1>2. entry[g].state \notin Pending /\ caller[g] \notin {"idle", "waiting"}
  BY FinishedIsSettled
<1>3. ASSUME NEW f \in Frame, NotAdmitted(f) PROVE Goal
  BY <1>1, <1>2, <1>3, OtherFinishes DEF NotAdmitted, NextNew, peerHistory
<1>4. ASSUME NEW f \in Frame, Requests(f) PROVE Goal
  <2> DEFINE e == [entry EXCEPT ![f] = NewEntry]
             c == [caller EXCEPT ![f] = "waiting"]
  <2>1. /\ e \in Entries /\ e[f].attempts < MaxAttempts
        /\ c \in [Frame -> CallerState]
        /\ \A h \in Frame : h # f => e[h] = entry[h] /\ c[h] = caller[h]
    BY <1>1, NewEntryFacts, TransportAssumption DEF Entries, CallerState
  <2>2. caller[f] = "idle" /\ ~Finished(f)
    BY <1>4, FinishedIsSettled DEF Requests, NextNew
  <2> HIDE DEF e, c
  <2>3. CASE entry' = e /\ caller' = c /\ UNCHANGED sends
    BY <1>2, <2>1, <2>2, <2>3, OtherFinishes
  <2>4. CASE Transmit(f, e, c, pumpTimer)
    BY <2>1, <2>2, <2>4, TransmitFinishes
  <2> QED
    BY <1>4, <2>3, <2>4 DEF Requests, e, c, peerHistory
<1>5. ASSUME NEW f \in Frame, ResponseTimeout(f) PROVE Goal
  <2>1. entry[f].state = "in_flight" /\ entry[f].state \in Pending
    BY <1>5 DEF ResponseTimeout, Pending
  <2>2. CASE GiveUp(f, pumpTimer)
    BY <2>1, <2>2, GiveUpFinishes
  <2>3. CASE RetryLater(f)
    <3>1. CASE DegradeAll(entry)
      BY <3>1, DegradeAllFinishes
    <3>2. CASE entry' = MarkRetryWait(entry, f) /\ UNCHANGED <<caller, sends>>
      BY <1>1, <1>2, <2>1, <3>2, OtherFinishes DEF MarkRetryWait, Entries
    <3> QED
      BY <2>3, <3>1, <3>2 DEF RetryLater, peerHistory
  <2> QED
    BY <1>5, <2>2, <2>3 DEF ResponseTimeout
<1>6. ASSUME NEW f \in Frame, NextAttemptComes(f) \/ Lapse(f) PROVE Goal
  BY <1>1, <1>2, <1>6, OtherFinishes DEF NextAttemptComes, Lapse, Entries, peerHistory
<1>7. ASSUME NEW m \in net, HandleMessage(m) PROVE Goal
  <2>1. m.frame \in Frame /\ entry[m.frame].state = "in_flight" /\ g # m.frame
    BY <1>2, <1>7 DEF HandleMessage, IInv, ClientTypeOK, Awaited, Pending
  <2>2. CASE /\ entry' = [entry EXCEPT ![m.frame] = NoEntry]
             /\ caller' = [caller EXCEPT ![m.frame] = IF @ = "waiting" THEN m.kind ELSE @]
             /\ UNCHANGED sends
    BY <1>1, <2>1, <2>2, OtherFinishes DEF Entries
  <2>3. CASE Degrade(entry, [TellWaiting("unavailable_pre") EXCEPT
                               ![m.frame] = IF caller[m.frame] = "waiting" THEN "dropped" ELSE @])
    <3>1. TellWaiting("unavailable_pre")[g] = caller[g]
      BY <1>2, TellWaitingFacts
    <3> QED
      BY <2>1, <2>3, <3>1, TellWaitingFacts, DegradeFinishes
  <2> QED
    BY <1>7, <2>2, <2>3 DEF HandleMessage, peerHistory
<1>8. ASSUME NEW m \in net, PeerTakes(m) \/ PeerAnswers(m) PROVE Goal
  BY <1>8, OtherFinishes DEF PeerTakes, PeerAnswers, peerHistory
<1>9. CASE Pump
  <2>1. CASE UNCHANGED <<entry, caller, peerHistory>>
    BY <2>1, OtherFinishes DEF peerHistory
  <2>2. ASSUME NEW f \in Due(entry), GiveUp(f, "none") PROVE Goal
    BY <2>2, GiveUpFinishes DEF Due, Pending
  <2>3. ASSUME NEW f \in Due(entry), ~Exhausted(entry, f), Transmit(f, entry, caller, "none")
        PROVE  Goal
    <3>1. f \in Frame /\ ~Finished(f)
      BY FinishedIsSettled DEF Due, Pending
    <3>2. entry[f].attempts < MaxAttempts
      BY <1>1, <2>3, <3>1, TransportAssumption DEF Exhausted, Entries, EntryRecord
    <3> QED
      BY <1>1, <2>3, <3>1, <3>2, TransmitFinishes
  <2> QED
    BY <1>9, <2>1, <2>2, <2>3 DEF Pump
<1>10. CASE Wake \/ RouteReady \/ SocketCloses
  BY <1>10, OtherFinishes DEF Wake, RouteReady, SocketCloses, peerHistory
<1>11. CASE RouteLost
  <2>1. CASE DegradeAll(entry)
    BY <2>1, DegradeAllFinishes
  <2>2. CASE sentOnGen = NoFrame /\ UNCHANGED <<entry, caller, sends>>
    BY <2>2, OtherFinishes
  <2>3. CASE /\ sentOnGen # NoFrame
             /\ \/ /\ entry' = [entry EXCEPT ![sentOnGen].state = "terminal_unknown"]
                   /\ caller' = [caller EXCEPT ![sentOnGen] =
                                   IF @ = "waiting" THEN "outcome_unknown" ELSE @]
                \/ entry' = MarkRetryWait(entry, sentOnGen) /\ UNCHANGED caller
             /\ UNCHANGED sends
    <3>1. sentOnGen \in Frame /\ g # sentOnGen
      BY <1>2, <1>11, <2>3 DEF RouteLost, IInv, ClientTypeOK, Awaited, Pending
    <3>2. entry'[g] = entry[g] /\ caller'[g] = caller[g]
      BY <1>1, <2>3, <3>1 DEF MarkRetryWait, Entries
    <3> QED
      BY <2>3, <3>2, OtherFinishes
  <2> QED
    BY <1>11, <2>1, <2>2, <2>3 DEF RouteLost, peerHistory
<1>12. CASE CloseClient \/ ClientDies
  <2>1. caller'[g] = caller[g]
    BY <1>2, <1>12, TellWaitingFacts DEF CloseClient, ClientDies
  <2> QED
    BY <1>12, <2>1, OtherFinishes DEF CloseClient, ClientDies, peerHistory
<1>13. CASE ClientStarts
  <2>1. entry'[g].state = entry[g].state
    BY <1>1, <1>2, <1>13, ReloadedFacts DEF ClientStarts, Entries, Pending
  <2> QED
    BY <1>13, <2>1 DEF ClientStarts, Finished, peerHistory
<1> QED
  BY <1>3, <1>4, <1>5, <1>6, <1>7, <1>8, <1>9, <1>10, <1>11, <1>12, <1>13 DEF ClientNext

\* What was answered, or given up with its outcome unknown, is never put on the wire
\* again, by this process or by one that loads its file.
THEOREM NeverResent == ClientSpec => FinishedNeverResent
<1>1. IInv /\ [ClientNext]_clientVars =>
        [\A f \in Frame : Finished(f) => Finished(f)' /\ sends'[f] = sends[f]]_clientVars
  BY FinishedStays
<1> QED
  BY <1>1, Invariance, PTL DEF ClientSpec, FinishedNeverResent

-----------------------------------------------------------------------------
(* What the proofs assume of the clocks                                      *)

\* A nonce claimed as early as its frame can be there outlives the last instant in
\* which the frame is timely.  NONCE_TTL_MS is twice WSS_TIMESTAMP_WINDOW_SEC, which
\* is enough for a signer whose clock is less than the window ahead: 60000 is at
\* least (30 + 29 + 1) * 1000 - 1, and the seconds are cut.
RemembersAssumption == (StampWindow + Skew + 1) * Second - 1 <= Ttl

-----------------------------------------------------------------------------
(* The inductive invariant                                                   *)

\* A frame that was dispatched was recorded, and its nonce stays until the frame is
\* no longer timely.
Remembered ==
  \A f \in WssFrame : dispatched[f] # 0 =>
    /\ dispatched[f] = 1 /\ f \in decided
    /\ now < Lapses(f) => nonces[f] >= Lapses(f) - 1

EInv == EndpointTypeOK /\ Remembered

-----------------------------------------------------------------------------
(* What the clocks and the nonce table do *)

\* The last instant of a frame is a number, and a nonce claimed while its frame is
\* there lasts until then.
LEMMA TimesOfFrame ==
  ASSUME RemembersAssumption, EndpointTypeOK, NEW f \in WssFrame
  PROVE  /\ Lapses(f) \in Int
         /\ Signed(f) => Expiry >= Lapses(f) - 1
<1> DEFINE a == SignedAt[f]
<1>1. a \in Int /\ StampWindow \in Int /\ Skew \in Int /\ Second \in Int /\ Ttl \in Int /\ now \in Int
  BY EndpointAssumption DEF EndpointTypeOK
<1>2. Lapses(f) = (a + StampWindow + 1) * Second
  BY DEF Lapses
<1>3. Signed(f) => (a - Skew) * Second <= now
  BY DEF Signed
<1>4. Expiry = now + Ttl
  BY DEF Expiry
<1> HIDE DEF a
<1>5. Lapses(f) = (a - Skew) * Second + (StampWindow + Skew + 1) * Second
  BY <1>1, <1>2
<1>6. (a - Skew) * Second \in Int /\ (StampWindow + Skew + 1) * Second \in Int
  BY <1>1
<1> QED
  BY <1>1, <1>3, <1>4, <1>5, <1>6 DEF RemembersAssumption

\* Time does not come back: what is forgotten of a dispatched frame is out of time,
\* and a frame in time that was dispatched has a nonce that is taken.
LEMMA TakenNonce ==
  ASSUME RemembersAssumption, EInv, NEW f \in WssFrame, dispatched[f] # 0
  PROVE  /\ Timely(f) => ~Fresh(f)
         /\ Expired(f) => ~(now < Lapses(f))
<1>1. Lapses(f) \in Int /\ now \in Nat /\ nonces[f] \in Int
  BY TimesOfFrame DEF EInv, EndpointTypeOK
<1>2. now < Lapses(f) => nonces[f] >= Lapses(f) - 1
  BY DEF EInv, Remembered
<1>3. now < Lapses(f) => nonces[f] # Never /\ ~(nonces[f] < now)
  BY <1>1, <1>2 DEF Never
<1> QED
  BY <1>3 DEF Timely, Fresh, Expired

\* A claim, or what a store that fails has deleted.
Swept(n) ==
  /\ n \in [WssFrame -> Int]
  /\ \A g \in WssFrame : n[g] = nonces[g] \/ Expired(g)

LEMMA ClaimSweeps ==
  ASSUME RemembersAssumption, EInv, NEW f \in WssFrame
  PROVE  /\ Claimed(f) \in [WssFrame -> Int]
         /\ \A g \in WssFrame : Claimed(f)[g] = nonces[g] \/ Expired(g) \/ (g = f /\ Fresh(f))
         /\ Fresh(f) => Claimed(f)[f] = Expiry
         /\ ~Fresh(f) => Swept(Claimed(f))
<1>1. Expiry \in Int /\ Never \in Int /\ nonces \in [WssFrame -> Int]
  BY EndpointAssumption DEF EInv, EndpointTypeOK, Expiry, Never
<1>2. \A g \in WssFrame :
        Claimed(f)[g] = IF g = f /\ Fresh(f) THEN Expiry ELSE IF Expired(g) THEN Never ELSE nonces[g]
  BY DEF Claimed
<1>3. Claimed(f) \in [WssFrame -> Int]
  BY <1>1 DEF Claimed
<1> QED
  BY <1>2, <1>3 DEF Swept

\* Steps that dispatch nothing keep what is remembered.
LEMMA NothingDispatched ==
  ASSUME RemembersAssumption, EInv, now' \in Nat, now' >= now, UNCHANGED dispatched,
         decided \subseteq decided',
         \A g \in WssFrame : dispatched[g] # 0 => nonces'[g] = nonces[g] \/ Expired(g)
  PROVE  Remembered'
<1> SUFFICES ASSUME NEW f \in WssFrame, dispatched[f] # 0
             PROVE  /\ dispatched[f] = 1 /\ f \in decided'
                    /\ now' < Lapses(f) => nonces'[f] >= Lapses(f) - 1
  BY DEF Remembered, Lapses
<1>1. Lapses(f) \in Int /\ now \in Nat
  BY TimesOfFrame DEF EInv, EndpointTypeOK
<1>2. now' < Lapses(f) => now < Lapses(f)
  BY <1>1
<1>3. now < Lapses(f) => nonces'[f] = nonces[f]
  BY TakenNonce
<1> QED
  BY <1>2, <1>3 DEF EInv, Remembered

-----------------------------------------------------------------------------
(* Every step keeps the invariant *)

LEMMA EndpointInitInv == EndpointInit => EInv
<1> SUFFICES ASSUME EndpointInit PROVE EInv
  OBVIOUS
<1>1. now \in 0 .. MaxTime /\ boots \in 1 .. MaxBoot
  BY EndpointAssumption DEF EndpointInit
<1>2. /\ nonces \in [WssFrame -> Int] /\ dispatched \in [WssFrame -> Nat]
      /\ \A f \in WssFrame : dispatched[f] = 0
  BY DEF EndpointInit, Never
<1>3. EndpointTypeOK
  BY <1>1, <1>2 DEF EndpointInit, EndpointTypeOK
<1> QED
  BY <1>2, <1>3 DEF EInv, Remembered

LEMMA TickInv == ASSUME RemembersAssumption, EInv, EndpointTick PROVE EInv'
<1>1. now \in Nat /\ now' \in 0 .. MaxTime /\ now' >= now
  BY EndpointAssumption DEF EndpointTick, EInv, EndpointTypeOK
<1>2. Remembered'
  BY <1>1, NothingDispatched DEF EndpointTick
<1> QED
  BY <1>1, <1>2 DEF EndpointTick, EInv, EndpointTypeOK

\* Sockets, the shutdown and a restart leave the stores alone.
LEMMA StoresStand ==
  ASSUME RemembersAssumption, EInv, UNCHANGED <<now, nonces, decided, dispatched>>
  PROVE  Remembered'
<1>1. now \in Nat
  BY DEF EInv, EndpointTypeOK
<1> QED
  BY <1>1, NothingDispatched

LEMMA SocketInv ==
  ASSUME RemembersAssumption, EInv, NEW s \in Socket, Connect(s) \/ Hello(s) \/ Hangup(s)
  PROVE  EInv'
<1>1. UNCHANGED <<now, nonces, decided, dispatched>>
  BY DEF Connect, Hello, Hangup
<1>2. EndpointTypeOK'
  BY DEF EInv, EndpointTypeOK, Connect, Hello, Hangup
<1> QED
  BY <1>1, <1>2, StoresStand DEF EInv

LEMMA ShutdownInv ==
  ASSUME RemembersAssumption, EInv, CloseService \/ Quiesce \/ Stop \/ Restart
  PROVE  EInv'
<1>1. UNCHANGED <<now, nonces, decided, dispatched>>
  BY DEF CloseService, Quiesce, Stop, Restart
<1>2. boots' \in 1 .. MaxBoot
  BY EndpointAssumption DEF EInv, EndpointTypeOK, CloseService, Quiesce, Stop, Restart
<1>3. EndpointTypeOK'
  BY <1>2 DEF EInv, EndpointTypeOK, CloseService, Quiesce, Stop, Restart
<1> QED
  BY <1>1, <1>3, StoresStand DEF EInv

LEMMA FinishInv == ASSUME RemembersAssumption, EInv, NEW d \in under, Finish(d) PROVE EInv'
<1>1. UNCHANGED <<now, nonces, decided, dispatched>>
  BY DEF Finish
<1>2. EndpointTypeOK'
  BY DEF EInv, EndpointTypeOK, Finish
<1> QED
  BY <1>1, <1>2, StoresStand DEF EInv

\* A frame whose nonce is not claimed.
LEMMA NotClaimedInv ==
  ASSUME RemembersAssumption, EInv, NEW s \in Socket, NEW f \in WssFrame, NotClaimed(s, f)
  PROVE  EInv'
<1>1. nonces \in [WssFrame -> Int] /\ now \in Nat /\ Never \in Int
  BY DEF EInv, EndpointTypeOK, Never
<1>2. Swept(nonces')
  <2>1. Swept(nonces) /\ Swept([g \in WssFrame |-> IF Expired(g) THEN Never ELSE nonces[g]])
    BY <1>1 DEF Swept
  <2> QED
    BY <2>1, ClaimSweeps DEF NotClaimed
<1>3. Remembered'
  BY <1>1, <1>2, NothingDispatched DEF NotClaimed, Swept
<1>4. EndpointTypeOK'
  BY <1>2 DEF EInv, EndpointTypeOK, NotClaimed, Swept
<1> QED
  BY <1>3, <1>4 DEF EInv

\* A frame that was dispatched claims no nonce again.
LEMMA ClaimsOnce ==
  ASSUME RemembersAssumption, EInv, NEW s \in Socket, NEW f \in WssFrame, Claims(s, f)
  PROVE  /\ dispatched[f] = 0 /\ Signed(f)
         /\ nonces' \in [WssFrame -> Int] /\ nonces'[f] = Expiry
         /\ \A g \in WssFrame \ {f} : nonces'[g] = nonces[g] \/ Expired(g)
<1>1. Signed(f) /\ Timely(f) /\ Fresh(f) /\ nonces' = Claimed(f)
  BY DEF Claims, Heard
<1> QED
  BY <1>1, TakenNonce, ClaimSweeps

\* A request that is refused after its nonce is claimed.
LEMMA RefusedInv ==
  ASSUME RemembersAssumption, EInv, NEW s \in Socket, NEW f \in WssFrame,
         Unauthorized(s, f) \/ Duplicate(s, f) \/ AuditFails(s, f)
  PROVE  EInv'
<1>1. /\ Claims(s, f) /\ UNCHANGED <<now, decided, dispatched, socket, under, stage, boots>>
      /\ degraded' \in BOOLEAN
  BY DEF EInv, EndpointTypeOK, Unauthorized, Duplicate, AuditFails
<1>2. now \in Nat
  BY DEF EInv, EndpointTypeOK
<1>3. Remembered'
  BY <1>1, <1>2, ClaimsOnce, NothingDispatched
<1>4. EndpointTypeOK'
  BY <1>1, ClaimsOnce DEF EInv, EndpointTypeOK
<1> QED
  BY <1>3, <1>4 DEF EInv

LEMMA DispatchInv ==
  ASSUME RemembersAssumption, EInv, NEW s \in Socket, NEW f \in WssFrame, Dispatch(s, f)
  PROVE  EInv'
<1>1. /\ Claims(s, f) /\ decided' = decided \cup {f} /\ now' = now
      /\ dispatched' = [dispatched EXCEPT ![f] = @ + 1]
      /\ under' = under \cup {<<s, f>>} /\ UNCHANGED <<degraded, socket, stage, boots>>
  BY DEF Dispatch, Recorded
<1>2. /\ dispatched \in [WssFrame -> Nat] /\ dispatched[f] = 0
      /\ dispatched'[f] = 1 /\ \A g \in WssFrame \ {f} : dispatched'[g] = dispatched[g]
  BY <1>1, ClaimsOnce DEF EInv, EndpointTypeOK
<1>3. EndpointTypeOK'
  BY <1>1, ClaimsOnce DEF EInv, EndpointTypeOK
<1>4. ASSUME NEW g \in WssFrame, dispatched'[g] # 0
      PROVE  /\ dispatched'[g] = 1 /\ g \in decided'
             /\ now < Lapses(g) => nonces'[g] >= Lapses(g) - 1
  <2>1. CASE g = f
    BY <1>1, <1>2, <2>1, ClaimsOnce, TimesOfFrame DEF EInv
  <2>2. CASE g # f
    <3>1. dispatched[g] # 0 /\ (nonces'[g] = nonces[g] \/ Expired(g))
      BY <1>1, <1>2, <1>4, <2>2, ClaimsOnce
    <3>2. now < Lapses(g) => nonces'[g] = nonces[g]
      BY <3>1, TakenNonce
    <3> QED
      BY <1>1, <1>2, <2>2, <3>1, <3>2 DEF EInv, Remembered
  <2> QED
    BY <2>1, <2>2
<1>5. Remembered'
  BY <1>1, <1>4 DEF Remembered, Lapses
<1> QED
  BY <1>3, <1>5 DEF EInv

LEMMA EndpointStepInv ==
  ASSUME RemembersAssumption, EInv, [EndpointNext]_endpointVars
  PROVE  EInv'
<1>1. CASE UNCHANGED endpointVars
  BY <1>1 DEF endpointVars, EInv, EndpointTypeOK, Remembered, Lapses
<1>2. CASE EndpointNext
  BY <1>2, TickInv, SocketInv, ShutdownInv, FinishInv, NotClaimedInv, RefusedInv, DispatchInv
     DEF EndpointNext
<1> QED
  BY <1>1, <1>2

LEMMA EndpointInvariant == ASSUME RemembersAssumption PROVE EndpointSpec => []EInv
<1>1. EInv /\ [EndpointNext]_endpointVars => EInv'
  BY EndpointStepInv
<1> QED
  BY <1>1, EndpointInitInv, PTL DEF EndpointSpec

-----------------------------------------------------------------------------
(* A signed frame is dispatched once *)

\* For every number of frames, sockets, ticks and restarts: a frame is dispatched once
\* however often and wherever it arrives, and not before the audit holds the decision
\* (claim(), verifyRequestSignature(), record()), if the nonce table remembers for as
\* long as a signature is accepted.
THEOREM FrameDispatchedOnce == ASSUME RemembersAssumption PROVE EndpointSpec => []DispatchedOnce
<1>1. EInv => DispatchedOnce
  <2> SUFFICES ASSUME EInv PROVE DispatchedOnce
    OBVIOUS
  <2>1. dispatched \in [WssFrame -> Nat]
    BY DEF EInv, EndpointTypeOK
  <2> QED
    BY <2>1 DEF EInv, Remembered, DispatchedOnce
<1> QED
  BY <1>1, EndpointInvariant, PTL

================================================================================
