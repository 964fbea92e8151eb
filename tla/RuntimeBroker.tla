--------------------------- MODULE RuntimeBroker ---------------------------
(***************************************************************************)
(* The runtime broker of the sleep service: runtime-broker.ts, with its    *)
(* caller in abmind-service-host.ts, which queues a completion and awaits  *)
(* it in one uninterrupted stretch.                                        *)
(*                                                                         *)
(* One provider at a time holds a lease; it polls for work (next), and     *)
(* completes or fails what it was given.  One completion is pending at a   *)
(* time; it is undelivered until a poll of the lease takes it.             *)
(*                                                                         *)
(* Clocks count down: each holds the time that is left, and Tick lets one  *)
(* unit pass.  A timer may fire late, but not when Prompt.  A clock stops  *)
(* where the code no longer tells its values apart, so time itself has no  *)
(* bound.                                                                  *)
(***************************************************************************)
EXTENDS Integers, Sequences, FiniteSets

CONSTANTS
  Poll,          \* calls of next(), one each
  MaxLease,      \* bound: leases opened
  MaxCompletion, \* bound: completions queued
  IdleLease,     \* PROVIDER_IDLE_LEASE_MS
  Grace,         \* COMPLETION_SETTLEMENT_GRACE_MS
  Windows,       \* deadlines a caller may give its completion
  PollWaits,     \* waitMs of a poll
  Prompt         \* do timers fire in the instant they are due?

ASSUME BrokerAssumption ==
  /\ MaxLease \in Nat /\ MaxCompletion \in Nat
  /\ IdleLease \in Nat \ {0} /\ Grace \in Nat \ {0}
  /\ Windows \subseteq Nat \ {0} /\ PollWaits \subseteq Nat
  /\ Prompt \in BOOLEAN

Lease == 1..MaxLease
Completion == 1..MaxCompletion
None == 0

VARIABLES
  lease,       \* the lease in force, or None
  left,        \* until leaseExpiresAt; the lease timer is due when it is 0 or less
  leases,      \* how many were opened
  capable,     \* the leases whose holder declared proposal-only enforcement
  pending,     \* the pending completion, or [id |-> None]
  queue,       \* nextWaiters
  runTerminal,
  answer,      \* of each poll the lease it named and what it got
  outcome,     \* how each completion ended for its caller
  admitted     \* the lease and the kind of each completion queued

brokerVars == <<lease, left, leases, capable, pending, queue, runTerminal, answer, outcome, admitted>>

Status == {"unused", "waiting", "ok", "lease_expired", "closed", "no_request"}
Outcome == {"none", "queued", "completed", "provider_failed", "completion_deadline",
            "lease_expired", "run_terminal", "cancelled"}

\* A reply of next(), with the completion it delivers or None.
Work(c) == [status |-> "ok", work |-> c]
Reply(s) == [status |-> s, work |-> None]
NoCompletion == [id |-> None, left |-> 0, delivered |-> FALSE]

\* A deadline passed for longer than the grace is passed for good.
Floor == -(Grace + 1)
Down(t, bottom) == IF t > bottom THEN t - 1 ELSE t

HasProvider == lease # None /\ left > 0

Undelivered(p) == p.id # None /\ ~p.delivered

BrokerTypeOK ==
  /\ lease \in Lease \cup {None}
  /\ left \in Int
  /\ leases \in 0..MaxLease
  /\ capable \subseteq Lease
  /\ pending \in [id : Completion \cup {None}, left : Int, delivered : BOOLEAN]
  /\ queue \in Seq([poll : Poll, lease : Lease, left : Nat])
  /\ runTerminal \in BOOLEAN
  /\ answer \in [Poll -> [lease : Lease \cup {None}, status : Status, work : Completion \cup {None}]]
  /\ outcome \in [Completion -> Outcome]
  /\ admitted \in [Completion -> [lease : Lease \cup {None}, proposalOnly : BOOLEAN]]

BrokerInit ==
  /\ lease = None /\ left = 0 /\ leases = 0 /\ capable = {}
  /\ pending = NoCompletion
  /\ queue = <<>>
  /\ runTerminal = FALSE
  /\ answer = [p \in Poll |-> [lease |-> None, status |-> "unused", work |-> None]]
  /\ outcome = [c \in Completion |-> "none"]
  /\ admitted = [c \in Completion |-> [lease |-> None, proposalOnly |-> FALSE]]

-----------------------------------------------------------------------------
(* wakeNext() answers every waiter in order.  The first of the lease takes *)
(* an undelivered completion; those behind it get a heartbeat.             *)

\* heartbeatFor(l), when the lease is c with x left.
Heartbeat(l, c, x, terminal) ==
  Reply(IF l # c \/ x <= 0 THEN "lease_expired" ELSE IF terminal THEN "closed" ELSE "no_request")

Got(p, reply) == [answer[p] EXCEPT !.status = reply.status, !.work = reply.work]
Has(p, c) == answer[p].work = c /\ answer[p].status = "ok"

\* Seeded fault: a completion handed to a waiter stays undelivered.
FaultWakeNext(c, x, p, terminal) ==
  LET mine  == {i \in DOMAIN queue : Undelivered(p) /\ queue[i].lease = c}
      reply == [i \in DOMAIN queue |->
                  IF i \in mine THEN Work(p.id)
                  ELSE Heartbeat(queue[i].lease, c, x, terminal)]
  IN /\ lease' = c /\ pending' = p /\ runTerminal' = terminal
     /\ left' = IF mine # {} THEN p.left + Grace ELSE x
     /\ queue' = <<>>
     /\ answer' = [q \in Poll |->
                     IF \E i \in DOMAIN queue : queue[i].poll = q
                     THEN Got(q, reply[CHOOSE i \in DOMAIN queue : queue[i].poll = q])
                     ELSE answer[q]]

\* The lease becomes c with x left and p pending, and the waiters learn of it.
WakeNext(c, x, p, terminal) ==
  LET mine  == {i \in DOMAIN queue : Undelivered(p) /\ queue[i].lease = c}
      taker == IF mine = {} THEN Len(queue) + 1 ELSE CHOOSE i \in mine : \A j \in mine : i <= j
      served == mine # {}
      \* The expiry that the waiters behind the taker see.
      after == IF served THEN p.left + Grace ELSE x
      reply == [i \in DOMAIN queue |->
                  IF i = taker THEN Work(p.id)
                  ELSE IF Undelivered(p) /\ i < taker THEN Reply("lease_expired")
                  ELSE Heartbeat(queue[i].lease, c, after, terminal)]
  IN /\ lease' = c /\ runTerminal' = terminal
     /\ pending' = IF served THEN [p EXCEPT !.delivered = TRUE] ELSE p
     /\ left' = IF \E i \in DOMAIN queue : reply[i].status = "no_request" THEN IdleLease ELSE after
     /\ queue' = <<>>
     /\ answer' = [q \in Poll |->
                     IF \E i \in DOMAIN queue : queue[i].poll = q
                     THEN Got(q, reply[CHOOSE i \in DOMAIN queue : queue[i].poll = q])
                     ELSE answer[q]]

\* What the caller of the pending completion gets.
Ended(o) ==
  outcome' = IF pending.id = None THEN outcome ELSE [outcome EXCEPT ![pending.id] = o]

\* Seeded fault: the lease goes and the caller of its completion is not told.
FaultExpireLease(o, terminal) ==
  /\ WakeNext(None, 0, NoCompletion, terminal)
  /\ UNCHANGED outcome

\* The lease goes, and the completion that was pending under it.
ExpireLease(o, terminal) ==
  /\ Ended(o)
  /\ WakeNext(None, 0, NoCompletion, terminal)

\* Seeded fault: a settled completion leaves the lease on its deadline.
FaultSettlePending(o) ==
  /\ Ended(o)
  /\ WakeNext(lease, left, NoCompletion, runTerminal)

\* A completion ends and its lease survives, back in its idle window.
SettlePending(o) ==
  /\ Ended(o)
  /\ WakeNext(lease, IF lease = None THEN left ELSE IdleLease, NoCompletion, runTerminal)

-----------------------------------------------------------------------------
(* The provider *)

\* With a lease in force the answer is already_open, and nothing changes.
Open(enforces) ==
  /\ leases < MaxLease
  /\ lease = None \/ left <= 0
  /\ lease' = leases + 1 /\ left' = IdleLease /\ leases' = leases + 1
  /\ capable' = IF enforces THEN capable \cup {leases + 1} ELSE capable
  /\ runTerminal' = FALSE
  /\ pending' = NoCompletion /\ Ended("lease_expired")
  /\ queue' = <<>>
  /\ answer' = [p \in Poll |-> IF answer[p].status = "waiting" THEN Got(p, Reply("lease_expired")) ELSE answer[p]]
  /\ UNCHANGED admitted

CloseLease(l) ==
  /\ lease = l /\ lease # None
  /\ ExpireLease("lease_expired", runTerminal)
  /\ UNCHANGED <<leases, capable, admitted>>

\* A poll that need not wait.
NextAtOnce(p, l, wait) ==
  LET serves == lease = l /\ left > 0 /\ Undelivered(pending)
      reply  == IF serves THEN Work(pending.id) ELSE Heartbeat(l, lease, left, runTerminal)
  IN /\ answer[p].status = "unused" /\ l \in 1..leases
     /\ reply.status = "no_request" => wait = 0
     /\ answer' = [answer EXCEPT ![p] = [Got(p, reply) EXCEPT !.lease = l]]
     /\ pending' = [pending EXCEPT !.delivered = @ \/ serves]
     /\ left' = IF serves THEN pending.left + Grace
                ELSE IF reply.status = "no_request" THEN IdleLease ELSE left
     /\ UNCHANGED <<lease, queue, runTerminal, outcome, leases, capable, admitted>>

\* A long poll: its timer is bounded by what is left of the lease.
NextWaits(p, l, wait) ==
  /\ answer[p].status = "unused"
  /\ HasProvider /\ lease = l /\ ~Undelivered(pending) /\ ~runTerminal
  /\ wait > 0
  /\ queue' = Append(queue, [poll |-> p, lease |-> l, left |-> IF wait < left THEN wait ELSE left])
  /\ answer' = [answer EXCEPT ![p] = [lease |-> l, status |-> "waiting", work |-> None]]
  /\ UNCHANGED <<lease, left, pending, runTerminal, outcome, leases, capable, admitted>>

\* A provider answers what it was given, under the lease it was given it.
Given(l, c) == \E p \in Poll : Has(p, c) /\ answer[p].lease = l

\* The checks of complete() and fail(); their refusals change nothing.
Settles(l, c) == HasProvider /\ lease = l /\ ~runTerminal /\ pending.id = c

CompletePending(l, c) ==
  /\ Given(l, c)
  /\ Settles(l, c)
  /\ SettlePending(IF pending.left < 0 THEN "completion_deadline" ELSE "completed")
  /\ UNCHANGED <<leases, capable, admitted>>

FailPending(l, c) ==
  /\ Given(l, c)
  /\ Settles(l, c)
  /\ SettlePending(IF pending.left < 0 THEN "completion_deadline" ELSE "provider_failed")
  /\ UNCHANGED <<leases, capable, admitted>>

-----------------------------------------------------------------------------
(* The sleep run *)

Queued == {c \in Completion : outcome[c] # "none"}
NextCompletion == Cardinality(Queued) + 1

\* provider_unavailable, capability_mismatch and completion_pending change nothing.
Admits(proposalOnly) ==
  HasProvider /\ (proposalOnly => lease \in capable) /\ pending.id = None

\* queueCompletion() and, in the same stretch, waitForCompletion().
QueueCompletion(proposalOnly, window) ==
  LET c == NextCompletion IN
  /\ c \in Completion
  /\ Admits(proposalOnly)
  /\ admitted' = [admitted EXCEPT ![c] = [lease |-> lease, proposalOnly |-> proposalOnly]]
  /\ outcome' = [outcome EXCEPT ![c] = "queued"]
  /\ WakeNext(lease, left, [id |-> c, left |-> window, delivered |-> FALSE], runTerminal)
  /\ UNCHANGED <<leases, capable>>

\* The signal of the run aborts, or had aborted before the wait.
Cancel ==
  /\ pending.id # None
  /\ SettlePending("cancelled")
  /\ UNCHANGED <<leases, capable, admitted>>

\* The run is over, or the service shuts down.
SetRunTerminal ==
  /\ ~runTerminal
  /\ ExpireLease("run_terminal", TRUE)
  /\ UNCHANGED <<leases, capable, admitted>>

-----------------------------------------------------------------------------
(* Timers *)

LeaseTimer ==
  /\ lease # None /\ left <= 0
  /\ ExpireLease("lease_expired", runTerminal)
  /\ UNCHANGED <<leases, capable, admitted>>

DeadlineTimer ==
  /\ pending.id # None /\ pending.left <= 0
  /\ SettlePending("completion_deadline")
  /\ UNCHANGED <<leases, capable, admitted>>

WaiterTimer(i) ==
  LET w == queue[i]
      reply == Heartbeat(w.lease, lease, left, runTerminal)
  IN /\ w.left = 0
     /\ queue' = SubSeq(queue, 1, i - 1) \o SubSeq(queue, i + 1, Len(queue))
     /\ answer' = [answer EXCEPT ![w.poll] = Got(w.poll, reply)]
     /\ left' = IF reply.status = "no_request" THEN IdleLease ELSE left
     /\ UNCHANGED <<lease, pending, runTerminal, outcome, leases, capable, admitted>>

Due ==
  \/ lease # None /\ left <= 0
  \/ pending.id # None /\ pending.left <= 0
  \/ \E i \in DOMAIN queue : queue[i].left = 0

Tick ==
  /\ Prompt => ~Due
  /\ left' = Down(left, IF left < 0 THEN left ELSE 0)
  /\ pending' = [pending EXCEPT !.left = IF pending.id = None THEN @ ELSE Down(@, Floor)]
  /\ queue' = [i \in DOMAIN queue |-> [queue[i] EXCEPT !.left = Down(@, 0)]]
  /\ UNCHANGED <<lease, runTerminal, outcome, answer, leases, capable, admitted>>

-----------------------------------------------------------------------------
NextPoll(p) == \E l \in 1..leases, wait \in PollWaits : NextAtOnce(p, l, wait) \/ NextWaits(p, l, wait)

Timers == LeaseTimer \/ DeadlineTimer \/ \E i \in DOMAIN queue : WaiterTimer(i)

Provider ==
  \/ \E enforces \in BOOLEAN : Open(enforces)
  \/ \E l \in Lease : CloseLease(l)
  \/ \E l \in Lease, c \in Completion : CompletePending(l, c) \/ FailPending(l, c)

Run ==
  \/ \E proposalOnly \in BOOLEAN, window \in Windows : QueueCompletion(proposalOnly, window)
  \/ Cancel \/ SetRunTerminal

BrokerNext == Provider \/ Run \/ Timers \/ Tick \/ \E p \in Poll : NextPoll(p)

BrokerSpec == BrokerInit /\ [][BrokerNext]_brokerVars

\* Time passes and timers fire; nobody has to poll, to complete or to open.
BrokerFairness ==
  /\ WF_brokerVars(Tick) /\ WF_brokerVars(LeaseTimer) /\ WF_brokerVars(DeadlineTimer)
  /\ WF_brokerVars(\E i \in DOMAIN queue : WaiterTimer(i))

BrokerFairSpec == BrokerSpec /\ BrokerFairness

\* A provider that polls as a host's pump does: one poll at a time, none while
\* it works, and the next as soon as it does not.
Working == pending.id # None /\ pending.delivered

PumpNext ==
  \/ Provider \/ Run \/ Timers
  \/ queue = <<>> /\ ~Working /\ \E p \in Poll : NextPoll(p)
  \/ (lease # None => queue # <<>> \/ Working) /\ Tick

PumpSpec == BrokerInit /\ [][PumpNext]_brokerVars

-----------------------------------------------------------------------------
(* Properties *)

\* Nobody who waits is forgotten: a completion without an outcome is the pending
\* one, under the lease that admitted it, and a long poll without an answer is a
\* waiter of the lease in force ("a timed-out waiter must never linger and consume a
\* later completion").
NobodyForgotten ==
  /\ \A c \in Completion :
       outcome[c] = "queued" <=> (pending.id = c /\ lease # None /\ lease = admitted[c].lease)
  /\ \A i \in DOMAIN queue : queue[i].lease = lease /\ answer[queue[i].poll].status = "waiting"
  /\ \A p \in Poll : answer[p].status = "waiting" => \E i \in DOMAIN queue : queue[i].poll = p

\* A completion goes to one poll, of the lease that admitted it, and a fenced one
\* only to a holder that declared it enforces the fence; and only what was handed
\* out is answered: a late answer to another completion never settles this one.
DeliveredOnce ==
  /\ \A p \in Poll, c \in Completion :
       Has(p, c) => /\ answer[p].lease = admitted[c].lease
                    /\ admitted[c].proposalOnly => answer[p].lease \in capable
                    /\ \A q \in Poll : Has(q, c) => q = p
  /\ \A c \in Completion :
       outcome[c] \in {"completed", "provider_failed"} => \E p \in Poll : Has(p, c)

\* Both: whoever waits is known to the broker, and a completion has one taker.
PairedOnce == NobodyForgotten /\ DeliveredOnce

\* A completion that was admitted ends, whatever the provider does: it is queued
\* once, and again and again none is.
CompletionsEnd == []<>(\A c \in Completion : outcome[c] # "queued")

\* Every long poll is answered: it waits once, and again and again none does.
PollsAnswered == []<>(\A p \in Poll : answer[p].status # "waiting")

\* "an actively polling provider stays live across more than PROVIDER_IDLE_LEASE_MS
\* without model work", and during it.
PumpKeepsLease == lease # None => left > 0
=============================================================================
