-------------------------------- MODULE McpHost --------------------------------
(* The MCP adapter in remote mode: startMcpServer() of mcp-server.ts with the   *)
(* connection it owns (McpConnectionOwner, mcp-connection.ts), for the          *)
(* processes of one host configuration, which share the lease of one outbox     *)
(* namespace.  A start that hangs is given up while it runs on, calls time out  *)
(* while their dispatch runs on, a shutdown drains for a bounded time, and a    *)
(* process may be killed.  Schemas, payloads and envelopes are left out.        *)
EXTENDS Integers, FiniteSets

CONSTANTS
  Adapter,
  ToolCall,       \* the tool calls of a process, each made at most once
  MaxConcurrent,  \* MAX_CONCURRENT_CALLS
  MaxLaunch       \* bound: launches of a process

ASSUME McpAssumption ==
  /\ Adapter # {} /\ Adapter \cap {"none", "stale"} = {}
  /\ MaxConcurrent \in Nat \ {0} /\ MaxLaunch \in Nat

VARIABLES
  server,         \* the server: what startMcpServer() or doShutdown() is at
  start,          \* owner.start()
  shut,           \* closed_
  client,         \* client_ is published
  held,           \* lease_ is set
  open,           \* the transport is open
  taken,          \* what the one cleanup took to close
  boxLease,       \* whose lease of the namespace there is, "stale" if it died
  route,          \* the owner's route is ready
  tool,           \* the tool's dependencies are negotiated
  calling,        \* where each call is
  launches

mcpVars == <<server, start, shut, client, held, open, taken, boxLease, route, tool, calling, launches>>
startVars == <<start, client, held, open, boxLease>>
callVars == <<route, tool, calling>>

ServerPlace == {"down", "starting", "serving", "draining", "closing", "releasing", "gone"}
ToolState == {"idle", "negotiating", "waiting", "late", "answered"}
Nothing == [client |-> FALSE, lease |-> FALSE]

McpTypeOK ==
  /\ server \in [Adapter -> ServerPlace]
  /\ start \in [Adapter -> {"none", "lease", "negotiate", "unwind", "done", "failed"}]
  /\ {shut, client, held, open, route, tool} \subseteq [Adapter -> BOOLEAN]
  /\ taken \in [Adapter -> [client : BOOLEAN, lease : BOOLEAN]]
  /\ boxLease \in Adapter \cup {"none", "stale"} /\ calling \in [Adapter -> [ToolCall -> ToolState]]
  /\ launches \in [Adapter -> 0..MaxLaunch]

All(x) == [p \in Adapter |-> x]

McpInit ==
  /\ server = All("down") /\ start = All("none") /\ shut = All(FALSE) /\ client = All(FALSE)
  /\ held = All(FALSE) /\ open = All(FALSE) /\ taken = All(Nothing) /\ boxLease = "none"
  /\ route = All(FALSE) /\ tool = All(FALSE) /\ calling = All([c \in ToolCall |-> "idle"])
  /\ launches = All(0)

Set(f, p, x) == [f EXCEPT ![p] = x]

\* activeCalls: a slot is taken until the dispatch settles.
Slots(p) == {c \in ToolCall : calling[p][c] \in {"waiting", "late"}}

Alive(p) == server[p] \notin {"down", "gone"}

-----------------------------------------------------------------------------
(* The start *)

Launch(p) ==
  /\ server[p] \in {"down", "gone"} /\ launches[p] < MaxLaunch
  /\ launches' = Set(launches, p, launches[p] + 1)
  /\ server' = Set(server, p, "starting") /\ start' = Set(start, p, "lease")
  /\ calling' = Set(calling, p, [c \in ToolCall |-> "idle"])
  /\ UNCHANGED <<shut, client, held, open, taken, boxLease, route, tool>>

\* A live owner refuses; the lease of a dead one is recovered.
Acquire(p) ==
  /\ Alive(p) /\ start[p] = "lease"
  /\ IF boxLease \in {"none", "stale"}
       THEN /\ boxLease' = p /\ held' = Set(held, p, TRUE) /\ open' = Set(open, p, TRUE)
            /\ start' = Set(start, p, "negotiate")
       ELSE /\ start' = Set(start, p, "failed") /\ UNCHANGED <<boxLease, held, open>>
  /\ UNCHANGED <<server, shut, client, taken, callVars, launches>>

\* Seeded fault: a start that was given up publishes its client.
FaultNegotiated(p) ==
  /\ Alive(p) /\ start[p] = "negotiate"
  /\ \E answered \in BOOLEAN :
       IF answered
         THEN /\ client' = Set(client, p, TRUE) /\ start' = Set(start, p, "done")
              /\ route' = Set(route, p, TRUE) /\ tool' = Set(tool, p, TRUE) /\ UNCHANGED open
         ELSE /\ open' = Set(open, p, FALSE) /\ start' = Set(start, p, "unwind")
              /\ UNCHANGED <<client, route, tool>>
  /\ UNCHANGED <<server, shut, held, taken, boxLease, calling, launches>>

\* negotiate() answers, or fails at the latest at its timeout; a close that came
\* meanwhile never lets the client be published.
Negotiated(p) ==
  /\ Alive(p) /\ start[p] = "negotiate"
  /\ \E answered \in BOOLEAN :
       IF answered /\ ~shut[p]
         THEN /\ client' = Set(client, p, TRUE) /\ start' = Set(start, p, "done")
              /\ route' = Set(route, p, TRUE) /\ tool' = Set(tool, p, TRUE) /\ UNCHANGED open
         ELSE /\ open' = Set(open, p, FALSE) /\ start' = Set(start, p, "unwind")
              /\ UNCHANGED <<client, route, tool>>
  /\ UNCHANGED <<server, shut, held, taken, boxLease, calling, launches>>

\* A release is of one's own lease only.
Released(p) == IF boxLease = p THEN "none" ELSE boxLease

Unwind(p) ==
  /\ Alive(p) /\ start[p] = "unwind"
  /\ boxLease' = Released(p) /\ held' = Set(held, p, FALSE) /\ start' = Set(start, p, "failed")
  /\ UNCHANGED <<server, shut, client, open, taken, callVars, launches>>

\* close(): the one cleanup takes what is there when it begins.
BeginClose(p) ==
  /\ server' = Set(server, p, "closing") /\ shut' = Set(shut, p, TRUE)
  /\ taken' = Set(taken, p, [client |-> client[p], lease |-> held[p]])

Started(p) ==
  /\ server[p] = "starting" /\ start[p] = "done" /\ server' = Set(server, p, "serving")
  /\ UNCHANGED <<startVars, shut, taken, callVars, launches>>

\* The start failed, or withMcpTimeout() gave it up while it goes on.
StartFails(p) ==
  /\ server[p] = "starting" /\ start[p] # "done" /\ BeginClose(p)
  /\ UNCHANGED <<startVars, callVars, launches>>

-----------------------------------------------------------------------------
(* Calls: runGuarded() *)

AnswerCall(p, c, state) == calling' = [calling EXCEPT ![p][c] = state]

\* A call that is refused is answered; a route that is not ready is negotiated.
Ask(p, c) ==
  /\ server[p] \in {"serving", "draining"} /\ calling[p][c] = "idle"
  /\ AnswerCall(p, c, IF server[p] = "draining" THEN "answered" ELSE "negotiating")
  /\ UNCHANGED <<server, startVars, shut, taken, route, tool, launches>>

\* ensureNegotiated(): all who wait share one attempt, which ends at its timeout.
Renegotiate(p) ==
  /\ server[p] \in {"serving", "draining"} /\ ~route[p]
  /\ \E c \in ToolCall : calling[p][c] = "negotiating"
  /\ \/ /\ route' = Set(route, p, TRUE) /\ \E b \in BOOLEAN : tool' = Set(tool, p, b)
        /\ UNCHANGED calling
     \/ /\ calling' = [calling EXCEPT ![p] = [c \in ToolCall |-> IF @[c] = "negotiating" THEN "answered" ELSE @[c]]]
        /\ UNCHANGED <<route, tool>>
  /\ UNCHANGED <<server, startVars, shut, taken, launches>>

\* What was negotiated is looked at again, and then the slots.
DispatchCall(p, c) ==
  /\ Alive(p) /\ calling[p][c] = "negotiating" /\ route[p]
  /\ AnswerCall(p, c, IF tool[p] /\ Cardinality(Slots(p)) < MaxConcurrent THEN "waiting" ELSE "answered")
  /\ UNCHANGED <<server, startVars, shut, taken, route, tool, launches>>

\* The owner answers, or the transport ends the request: the slot is free, and
\* what comes late is dropped.
SettleCall(p, c) ==
  /\ Alive(p) /\ calling[p][c] \in {"waiting", "late"} /\ AnswerCall(p, c, "answered")
  /\ UNCHANGED <<server, startVars, shut, taken, route, tool, launches>>

\* The caller is told, the slot stays taken.
TimesOut(p, c) ==
  /\ Alive(p) /\ calling[p][c] = "waiting" /\ AnswerCall(p, c, "late")
  /\ UNCHANGED <<server, startVars, shut, taken, route, tool, launches>>

LoseRoute(p) ==
  /\ server[p] \in {"serving", "draining"} /\ route[p] /\ route' = Set(route, p, FALSE)
  /\ UNCHANGED <<server, startVars, shut, taken, tool, calling, launches>>

-----------------------------------------------------------------------------
(* The end *)

\* doShutdown(): from here on no call is accepted.
Shutdown(p) ==
  /\ server[p] = "serving" /\ server' = Set(server, p, "draining")
  /\ UNCHANGED <<startVars, shut, taken, callVars, launches>>

\* They have settled, or the time is up.
Drained(p) ==
  /\ server[p] = "draining" /\ BeginClose(p)
  /\ UNCHANGED <<startVars, callVars, launches>>

EndClient(p) ==
  /\ server[p] = "closing" /\ server' = Set(server, p, "releasing")
  /\ open' = (IF taken[p].client THEN Set(open, p, FALSE) ELSE open)
  /\ UNCHANGED <<start, shut, client, held, taken, boxLease, callVars, launches>>

\* The lease goes after the transport, and the process ends when all of it did.
ReleaseLease(p) ==
  /\ server[p] = "releasing" /\ taken[p].lease
  /\ boxLease' = Released(p) /\ taken' = [taken EXCEPT ![p].lease = FALSE]
  /\ UNCHANGED <<server, start, shut, client, held, open, callVars, launches>>

Ends(p) ==
  /\ boxLease' = (IF boxLease = p THEN "stale" ELSE boxLease)
  /\ server' = Set(server, p, "gone") /\ start' = Set(start, p, "none") /\ open' = Set(open, p, FALSE)
  /\ shut' = Set(shut, p, FALSE) /\ client' = Set(client, p, FALSE)
  /\ held' = Set(held, p, FALSE) /\ taken' = Set(taken, p, Nothing)
  /\ route' = Set(route, p, FALSE) /\ tool' = Set(tool, p, FALSE)
  /\ calling' = Set(calling, p, [c \in ToolCall |-> "idle"])

Exit(p) ==
  /\ server[p] = "releasing" /\ ~taken[p].lease /\ Ends(p) /\ UNCHANGED launches

Kill(p) ==
  /\ Alive(p) /\ Ends(p) /\ UNCHANGED launches

McpStep(p) ==
  \/ Acquire(p) \/ Negotiated(p) \/ Unwind(p) \/ Started(p) \/ StartFails(p)
  \/ Drained(p) \/ EndClient(p) \/ ReleaseLease(p) \/ Exit(p)
  \/ Renegotiate(p)

McpNext ==
  \E p \in Adapter :
    \/ McpStep(p) \/ Launch(p) \/ Shutdown(p) \/ Kill(p) \/ LoseRoute(p)
    \/ \E c \in ToolCall : Ask(p, c) \/ DispatchCall(p, c) \/ SettleCall(p, c) \/ TimesOut(p, c)

McpSpec == McpInit /\ [][McpNext]_mcpVars

-----------------------------------------------------------------------------

\* "never publish a transport or hold a lease whose cleanup already ran"
\* (mcp-connection.ts:278): a process serves only with the lease of its outbox
\* and an open transport, so of two processes one serves; and when a start and
\* the cleanup that raced it have both ended, nothing is open and no lease is
\* left, whichever came first.
OutboxIsOwned ==
  \A p \in Adapter :
    /\ server[p] \in {"serving", "draining"} => boxLease = p /\ open[p]
    /\ server[p] = "releasing" /\ ~taken[p].lease /\ start[p] \in {"done", "failed"} =>
         ~open[p] /\ boxLease # p

=============================================================================
