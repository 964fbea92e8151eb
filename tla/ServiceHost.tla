---------------------------- MODULE ServiceHost ----------------------------
(***************************************************************************)
(* The life of a service host: abmind-service-host.ts, the cleanup of      *)
(* cli/abmind-daemon.ts with its one deadline (daemon-shutdown-contract),  *)
(* and what quiesce() and stop() of the endpoints do to accepted requests. *)
(*                                                                         *)
(* Hosts compete for one lease, which is atomic here: OwnerLease has the   *)
(* file system calls.  A host that is embedded may be stopped while it     *)
(* starts; a daemon only asks for the shutdown once its start has settled. *)
(***************************************************************************)
EXTENDS Integers

CONSTANTS
  Host,
  Daemon,     \* the hosts that runDaemon() runs
  Request,
  NoHost,
  DrainLimit, \* SERVICE_DRAIN_TIMEOUT_MS, from the start of the cleanup
  ReleaseBy,  \* DAEMON_SHUTDOWN_BUDGET_MS less LEASE_RELEASE_RESERVE_MS
  Crashes     \* may a process die?

ASSUME HostAssumption ==
  /\ Daemon \subseteq Host /\ NoHost \notin Host
  /\ DrainLimit \in Nat /\ ReleaseBy \in Nat /\ DrainLimit <= ReleaseBy
  /\ Crashes \in BOOLEAN

VARIABLES
  state,         \* state_
  boot,          \* where startOnce() is, or rollbackStartup()
  stopRequested,
  teardown,      \* where the shutdown is
  spent,         \* time since the cleanup began
  open,          \* is the database open?
  service,       \* admission of the service
  holder,        \* who holds the lease
  request,       \* how far each request got
  at             \* and at which host

hostVars == <<state, boot, stopRequested, teardown, spent, open, service, holder>>
vars == <<hostVars, request, at>>

State == {"idle", "starting", "started", "stopping", "stopped", "dead"}
Boot == {"none", "acquire", "initialize", "releasing", "closing"}
Teardown == {"none", "drain", "flush", "await", "close", "release", "done"}
Progress == {"new", "accepted", "answered", "delivered", "refused", "lost"}

TypeOK ==
  /\ state \in [Host -> State]
  /\ boot \in [Host -> Boot]
  /\ stopRequested \in [Host -> BOOLEAN]
  /\ teardown \in [Host -> Teardown]
  /\ spent \in [Host -> 0..ReleaseBy]
  /\ open \in [Host -> BOOLEAN]
  /\ service \in [Host -> {"none", "open", "closed"}]
  /\ holder \in Host \cup {NoHost}
  /\ request \in [Request -> Progress]
  /\ at \in [Request -> Host \cup {NoHost}]

Init ==
  /\ state = [h \in Host |-> "idle"]
  /\ boot = [h \in Host |-> "none"]
  /\ stopRequested = [h \in Host |-> FALSE]
  /\ teardown = [h \in Host |-> "none"]
  /\ spent = [h \in Host |-> 0]
  /\ open = [h \in Host |-> FALSE]
  /\ service = [h \in Host |-> "none"]
  /\ holder = NoHost
  /\ request = [r \in Request |-> "new"]
  /\ at = [r \in Request |-> NoHost]

Free == holder = NoHost \/ state[holder] = "dead"
Drop(h) == holder' = IF holder = h THEN NoHost ELSE holder
Boots(h, b) == boot' = [boot EXCEPT ![h] = b]
Tears(h, t) == teardown' = [teardown EXCEPT ![h] = t]

-----------------------------------------------------------------------------
(* start() *)

Start(h) ==
  /\ state[h] = "idle" /\ ~stopRequested[h]
  /\ state' = [state EXCEPT ![h] = "starting"]
  /\ Boots(h, "acquire")
  /\ UNCHANGED <<stopRequested, teardown, spent, open, service, holder, request, at>>

\* A host that was stopped meanwhile, or refused, rolls back.
Acquire(h) ==
  /\ boot[h] = "acquire"
  /\ holder' = IF Free THEN h ELSE holder
  /\ open' = [open EXCEPT ![h] = Free /\ ~stopRequested[h]]
  /\ Boots(h, IF Free /\ ~stopRequested[h] THEN "initialize" ELSE "releasing")
  /\ UNCHANGED <<state, stopRequested, teardown, spent, service, request, at>>

\* Seeded fault: a stop that came while the manager initialized is not seen.
FaultInitialized(h) ==
  /\ boot[h] = "initialize"
  /\ state' = [state EXCEPT ![h] = "started"]
  /\ service' = [service EXCEPT ![h] = "open"]
  /\ Boots(h, "none")
  /\ UNCHANGED <<stopRequested, teardown, spent, open, holder, request, at>>

Initialized(h) ==
  /\ boot[h] = "initialize"
  /\ IF stopRequested[h]
     THEN Boots(h, "releasing") /\ UNCHANGED <<state, service>>
     ELSE /\ state' = [state EXCEPT ![h] = "started"]
          /\ service' = [service EXCEPT ![h] = "open"]
          /\ Boots(h, "none")
  /\ UNCHANGED <<stopRequested, teardown, spent, open, holder, request, at>>

\* initialize() closes what it opened; what follows it leaves that to the rollback.
StartFails(h) ==
  /\ boot[h] = "initialize"
  /\ Boots(h, "releasing")
  /\ open' \in {open, [open EXCEPT ![h] = FALSE]}
  /\ UNCHANGED <<state, stopRequested, teardown, spent, service, holder, request, at>>

RollbackRelease(h) ==
  /\ boot[h] = "releasing"
  /\ Drop(h)
  /\ Boots(h, "closing")
  /\ UNCHANGED <<state, stopRequested, teardown, spent, open, service, request, at>>

RollbackClose(h) ==
  /\ boot[h] = "closing"
  /\ open' = [open EXCEPT ![h] = FALSE]
  /\ state' = [state EXCEPT ![h] = IF @ = "starting" THEN "idle" ELSE @]
  /\ Boots(h, "none")
  /\ UNCHANGED <<stopRequested, teardown, spent, service, holder, request, at>>

-----------------------------------------------------------------------------
(* Requests.  A connection outlives the closing of admission; it goes with *)
(* stop() of its endpoint.                                                 *)

Connected(h) == service[h] # "none" /\ teardown[h] \in {"none", "drain"}

Send(r, h) ==
  /\ request[r] = "new" /\ Connected(h)
  /\ at' = [at EXCEPT ![r] = h]
  /\ request' = [request EXCEPT ![r] = IF service[h] = "open" THEN "accepted" ELSE "refused"]
  /\ UNCHANGED hostVars

\* The handler settles.  Its response is queued unless the socket is gone or its
\* endpoint has ended it already; an embedded caller has no socket.
Answer(r) ==
  LET t == teardown[at[r]] IN
  /\ request[r] = "accepted"
  /\ \E p \in {"answered", "delivered", "lost"} :
       /\ p = "delivered" <=> at[r] \notin Daemon
       /\ p = "answered" => t \in {"none", "drain", "flush"}
       /\ p = "lost" => t \notin {"none", "drain"}
       /\ request' = [request EXCEPT ![r] = p]
  /\ UNCHANGED <<hostVars, at>>

Deliver(r) ==
  /\ request[r] = "answered"
  /\ request' = [request EXCEPT ![r] = "delivered"]
  /\ UNCHANGED <<hostVars, at>>

InFlight(h) == {r \in Request : at[r] = h /\ request[r] = "accepted"}
Queued(h) == {r \in Request : at[r] = h /\ request[r] = "answered"}

-----------------------------------------------------------------------------
(* Shutdown *)

\* beginShutdown(), and quiesce() of the endpoints.
BeginShutdown(h) ==
  /\ teardown[h] = "none"
  /\ h \in Daemon => boot[h] = "none"
  /\ stopRequested' = [stopRequested EXCEPT ![h] = TRUE]
  /\ state' = [state EXCEPT ![h] = IF @ \in {"starting", "started"} THEN "stopping" ELSE @]
  /\ service' = [service EXCEPT ![h] = IF @ = "open" THEN "closed" ELSE @]
  /\ Tears(h, "drain")
  /\ UNCHANGED <<boot, spent, open, holder, request, at>>

\* Seeded fault: accepted work is not waited for.
FaultDrained(h) ==
  /\ teardown[h] = "drain"
  /\ Tears(h, IF h \in Daemon THEN "flush" ELSE "await")
  /\ UNCHANGED <<state, boot, stopRequested, spent, open, service, holder, request, at>>

\* Seeded fault: the drain has no limit.
FaultPatientDrained(h) ==
  /\ teardown[h] = "drain"
  /\ InFlight(h) = {}
  /\ Tears(h, IF h \in Daemon THEN "flush" ELSE "await")
  /\ UNCHANGED <<state, boot, stopRequested, spent, open, service, holder, request, at>>

Drained(h) ==
  /\ teardown[h] = "drain"
  /\ InFlight(h) = {} \/ spent[h] >= DrainLimit
  /\ Tears(h, IF h \in Daemon THEN "flush" ELSE "await")
  /\ UNCHANGED <<state, boot, stopRequested, spent, open, service, holder, request, at>>

\* stop() of the endpoints: what is still queued at the end goes with its socket.
Flushed(h) ==
  /\ teardown[h] = "flush"
  /\ Queued(h) = {} \/ spent[h] >= ReleaseBy
  /\ request' = [r \in Request |-> IF r \in Queued(h) THEN "lost" ELSE request[r]]
  /\ Tears(h, "await")
  /\ UNCHANGED <<state, boot, stopRequested, spent, open, service, holder, at>>

\* Seeded fault: the teardown does not wait for a start in progress.
FaultAwaitStart(h) ==
  /\ teardown[h] = "await"
  /\ Tears(h, "close")
  /\ UNCHANGED <<state, boot, stopRequested, spent, open, service, holder, request, at>>

AwaitStart(h) ==
  /\ teardown[h] = "await" /\ boot[h] = "none"
  /\ Tears(h, "close")
  /\ UNCHANGED <<state, boot, stopRequested, spent, open, service, holder, request, at>>

CloseManager(h) ==
  /\ teardown[h] = "close"
  /\ open' = [open EXCEPT ![h] = FALSE]
  /\ service' = [service EXCEPT ![h] = "none"]
  /\ Tears(h, "release")
  /\ UNCHANGED <<state, boot, stopRequested, spent, holder, request, at>>

ReleaseLease(h) ==
  /\ teardown[h] = "release"
  /\ Drop(h)
  /\ state' = [state EXCEPT ![h] = "stopped"]
  /\ Tears(h, "done")
  /\ UNCHANGED <<boot, stopRequested, spent, open, service, request, at>>

\* remainingMs(): when the phase that is running has to end.
PhaseEnd(h) == IF teardown[h] = "drain" THEN DrainLimit ELSE ReleaseBy

\* Time passes for a cleanup; the phases look at it as soon as they may.
Tick(h) ==
  /\ teardown[h] \in {"drain", "flush"}
  /\ spent[h] < PhaseEnd(h)
  /\ spent' = [spent EXCEPT ![h] = @ + 1]
  /\ UNCHANGED <<state, boot, stopRequested, teardown, open, service, holder, request, at>>

Crash(h) ==
  /\ Crashes /\ state[h] \notin {"idle", "stopped", "dead"}
  /\ state' = [state EXCEPT ![h] = "dead"]
  /\ boot' = [boot EXCEPT ![h] = "none"]
  /\ teardown' = [teardown EXCEPT ![h] = "done"]
  /\ open' = [open EXCEPT ![h] = FALSE]
  /\ service' = [service EXCEPT ![h] = "none"]
  /\ request' = [r \in Request |-> IF r \in InFlight(h) \cup Queued(h) THEN "lost" ELSE request[r]]
  /\ UNCHANGED <<stopRequested, spent, holder, at>>

-----------------------------------------------------------------------------
Starting(h) == Acquire(h) \/ Initialized(h) \/ StartFails(h) \/ RollbackRelease(h) \/ RollbackClose(h)

Stopping(h) ==
  \/ Drained(h) \/ Flushed(h) \/ AwaitStart(h) \/ CloseManager(h) \/ ReleaseLease(h)

Next ==
  \/ \E h \in Host : Start(h) \/ Starting(h) \/ BeginShutdown(h) \/ Stopping(h) \/ Tick(h) \/ Crash(h)
  \/ \E r \in Request : Answer(r) \/ Deliver(r) \/ \E h \in Host : Send(r, h)

Spec == Init /\ [][Next]_vars

\* A start and a shutdown go on, and time passes; no handler has to settle.
Fairness == \A h \in Host : WF_vars(Starting(h)) /\ WF_vars(Stopping(h)) /\ WF_vars(Tick(h))

FairSpec == Spec /\ Fairness

-----------------------------------------------------------------------------
(* Properties *)

\* A host admits requests only with the lease and the database in its hands, and
\* never once a stop was asked for, however that raced with its start.
ServesUnderLease ==
  \A h \in Host :
    service[h] = "open" =>
      state[h] = "started" /\ holder = h /\ open[h] /\ ~stopRequested[h]

\* "accepted work keeps its resources until finishStop()", which comes only when
\* it is done or the drain has expired; and a daemon gives a response up only when
\* its time is over, or with the process.
AcceptedKeepsResources ==
  \A r \in Request :
    LET late == spent[at[r]] >= DrainLimit IN
    /\ request[r] = "accepted" => open[at[r]] \/ late
    /\ request[r] = "lost" /\ at[r] \in Daemon => state[at[r]] = "dead" \/ late

\* A stopped host holds nothing: no start in progress takes the lease, or leaves
\* the database open, behind the back of the teardown that already returned.
StoppedHoldsNothing ==
  \A h \in Host : state[h] = "stopped" => holder # h /\ ~open[h] /\ boot[h] = "none"

\* A shutdown ends, however long handlers run: since a host stops once, every
\* stop that was asked for is over again and again.
Stops == []<>(\A h \in Host : stopRequested[h] => state[h] \in {"stopped", "dead"})

=============================================================================
