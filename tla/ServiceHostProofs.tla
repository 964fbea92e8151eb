------------------------ MODULE ServiceHostProofs ------------------------
(* Machine-checked proofs about ServiceHost, for every set of hosts and    *)
(* requests and every limit.                                               *)
EXTENDS ServiceHost, TLAPS

-----------------------------------------------------------------------------
(* The inductive invariant *)

\* How far a start and a shutdown are, what the host says of itself, and what it
\* holds fit each other: only a host that lives and is not started starts, with
\* lease and database once it initializes; a teardown that went past its wait for
\* the start finds none, and one that went past the close finds nothing open.
Phases ==
  \A h \in Host :
    /\ boot[h] # "none" => state[h] \in {"starting", "stopping"} /\ service[h] = "none"
    /\ boot[h] = "initialize" => holder = h /\ open[h]
    /\ service[h] # "none" => state[h] \in {"started", "stopping"}
    /\ state[h] \in {"starting", "started"} => teardown[h] = "none"
    /\ state[h] # "dead" => (stopRequested[h] <=> teardown[h] # "none")
    /\ teardown[h] \in {"close", "release", "done"} => boot[h] = "none"
    /\ teardown[h] \in {"release", "done"} => ~open[h] /\ service[h] = "none"
    /\ teardown[h] = "done" <=> state[h] \in {"stopped", "dead"}

\* A request that runs does so at a host whose database is open and which still
\* waits for it, unless the drain has expired.
AcceptedRuns ==
  \A r \in Request :
    /\ request[r] # "new" => at[r] \in Host
    /\ request[r] = "accepted" =>
         \/ spent[at[r]] >= DrainLimit
         \/ /\ open[at[r]] /\ service[at[r]] # "none"
            /\ teardown[at[r]] \in {"none", "drain"}

Accepting == AcceptedRuns /\ AcceptedKeepsResources

IInv == TypeOK /\ Phases /\ ServesUnderLease /\ StoppedHoldsNothing /\ Accepting

-----------------------------------------------------------------------------
(* The initial states satisfy it *)

LEMMA InitInv == Init => IInv
<1> SUFFICES ASSUME Init PROVE IInv
  OBVIOUS
<1>1. TypeOK
  BY HostAssumption DEF Init, TypeOK, State, Boot, Teardown, Progress
<1>2. Phases
  BY DEF Init, Phases
<1>3. ServesUnderLease /\ StoppedHoldsNothing
  BY DEF Init, ServesUnderLease, StoppedHoldsNothing
<1>4. Accepting
  BY DEF Init, Accepting, AcceptedRuns, AcceptedKeepsResources
<1> QED
  BY <1>1, <1>2, <1>3, <1>4 DEF IInv

-----------------------------------------------------------------------------
(* Every step keeps it *)

LEMMA StartInv == ASSUME IInv, NEW h \in Host, Start(h) PROVE IInv'
<1>1. TypeOK'
  BY DEF IInv, TypeOK, State, Boot, Teardown, Progress, Start, Boots
<1>2. Phases'
  BY DEF IInv, TypeOK, Phases, Start, Boots
<1>3. ServesUnderLease'
  BY DEF IInv, ServesUnderLease, Start, Boots
<1>4. StoppedHoldsNothing'
  BY DEF IInv, StoppedHoldsNothing, Start, Boots
<1>5. Accepting'
  BY DEF IInv, Accepting, AcceptedRuns, AcceptedKeepsResources, Start, Boots
<1> QED
  BY <1>1, <1>2, <1>3, <1>4, <1>5 DEF IInv

LEMMA AcquireInv == ASSUME IInv, NEW h \in Host, Acquire(h) PROVE IInv'
<1>1. TypeOK'
  BY DEF IInv, TypeOK, State, Boot, Teardown, Progress, Acquire, Boots, Free
<1>2. Phases'
  BY HostAssumption DEF IInv, TypeOK, Phases, Acquire, Boots, Free
<1>3. ServesUnderLease'
  BY HostAssumption DEF IInv, Phases, ServesUnderLease, Acquire, Boots, Free
<1>4. StoppedHoldsNothing'
  BY DEF IInv, StoppedHoldsNothing, Acquire, Boots, Free
<1>5. Accepting'
  BY DEF IInv, Phases, Accepting, AcceptedRuns, AcceptedKeepsResources, Acquire, Boots, Free
<1> QED
  BY <1>1, <1>2, <1>3, <1>4, <1>5 DEF IInv

LEMMA InitializedInv == ASSUME IInv, NEW h \in Host, Initialized(h) PROVE IInv'
<1>1. TypeOK'
  BY DEF IInv, TypeOK, State, Boot, Teardown, Progress, Initialized, Boots
<1>2. Phases'
  BY DEF IInv, TypeOK, Phases, Initialized, Boots
<1>3. ServesUnderLease'
  BY DEF IInv, TypeOK, Phases, ServesUnderLease, Initialized, Boots
<1>4. StoppedHoldsNothing'
  BY DEF IInv, TypeOK, StoppedHoldsNothing, Initialized, Boots
<1>5. Accepting'
  BY DEF IInv, TypeOK, Phases, Accepting, AcceptedRuns, AcceptedKeepsResources,
         Initialized, Boots
<1> QED
  BY <1>1, <1>2, <1>3, <1>4, <1>5 DEF IInv

LEMMA StartFailsInv == ASSUME IInv, NEW h \in Host, StartFails(h) PROVE IInv'
<1>1. TypeOK'
  BY DEF IInv, TypeOK, State, Boot, Teardown, Progress, StartFails, Boots
<1>2. Phases'
  BY DEF IInv, TypeOK, Phases, StartFails, Boots
<1>3. ServesUnderLease'
  BY DEF IInv, Phases, ServesUnderLease, StartFails, Boots
<1>4. StoppedHoldsNothing'
  BY DEF IInv, TypeOK, StoppedHoldsNothing, StartFails, Boots
<1>5. Accepting'
  BY DEF IInv, TypeOK, Phases, Accepting, AcceptedRuns, AcceptedKeepsResources,
         StartFails, Boots
<1> QED
  BY <1>1, <1>2, <1>3, <1>4, <1>5 DEF IInv

LEMMA RollbackReleaseInv == ASSUME IInv, NEW h \in Host, RollbackRelease(h) PROVE IInv'
<1>1. TypeOK'
  BY DEF IInv, TypeOK, State, Boot, Teardown, Progress, RollbackRelease, Boots, Drop
<1>2. Phases'
  BY DEF IInv, Phases, RollbackRelease, Boots, Drop
<1>3. ServesUnderLease'
  BY DEF IInv, Phases, ServesUnderLease, RollbackRelease, Boots, Drop
<1>4. StoppedHoldsNothing'
  BY HostAssumption DEF IInv, StoppedHoldsNothing, RollbackRelease, Boots, Drop
<1>5. Accepting'
  BY DEF IInv, Accepting, AcceptedRuns, AcceptedKeepsResources, RollbackRelease, Boots, Drop
<1> QED
  BY <1>1, <1>2, <1>3, <1>4, <1>5 DEF IInv

LEMMA RollbackCloseInv == ASSUME IInv, NEW h \in Host, RollbackClose(h) PROVE IInv'
<1>1. TypeOK'
  BY DEF IInv, TypeOK, State, Boot, Teardown, Progress, RollbackClose, Boots
<1>2. Phases'
  BY DEF IInv, TypeOK, Phases, RollbackClose, Boots
<1>3. ServesUnderLease'
  BY DEF IInv, Phases, ServesUnderLease, RollbackClose, Boots
<1>4. StoppedHoldsNothing'
  BY DEF IInv, StoppedHoldsNothing, RollbackClose, Boots
<1>5. Accepting'
  BY DEF IInv, Phases, Accepting, AcceptedRuns, AcceptedKeepsResources, RollbackClose, Boots
<1> QED
  BY <1>1, <1>2, <1>3, <1>4, <1>5 DEF IInv

LEMMA SendInv == ASSUME IInv, NEW r \in Request, NEW h \in Host, Send(r, h) PROVE IInv'
<1>1. TypeOK'
  BY DEF IInv, TypeOK, State, Boot, Teardown, Progress, Send, Connected, hostVars
<1>2. Phases'
  BY DEF IInv, Phases, Send, Connected, hostVars
<1>3. ServesUnderLease'
  BY DEF IInv, ServesUnderLease, Send, Connected, hostVars
<1>4. StoppedHoldsNothing'
  BY DEF IInv, StoppedHoldsNothing, Send, Connected, hostVars
<1>5. Accepting'
  BY DEF IInv, TypeOK, ServesUnderLease, Accepting, AcceptedRuns,
         AcceptedKeepsResources, Send, Connected, hostVars
<1> QED
  BY <1>1, <1>2, <1>3, <1>4, <1>5 DEF IInv

LEMMA AnswerInv == ASSUME IInv, NEW r \in Request, Answer(r) PROVE IInv'
<1>1. TypeOK'
  BY DEF IInv, TypeOK, State, Boot, Teardown, Progress, Answer, hostVars
<1>2. Phases'
  BY DEF IInv, Phases, Answer, hostVars
<1>3. ServesUnderLease'
  BY DEF IInv, ServesUnderLease, Answer, hostVars
<1>4. StoppedHoldsNothing'
  BY DEF IInv, StoppedHoldsNothing, Answer, hostVars
<1>5. Accepting'
  BY DEF IInv, Accepting, AcceptedRuns, AcceptedKeepsResources, Answer, hostVars
<1> QED
  BY <1>1, <1>2, <1>3, <1>4, <1>5 DEF IInv

LEMMA DeliverInv == ASSUME IInv, NEW r \in Request, Deliver(r) PROVE IInv'
<1>1. TypeOK'
  BY DEF IInv, TypeOK, State, Boot, Teardown, Progress, Deliver, hostVars
<1>2. Phases'
  BY DEF IInv, Phases, Deliver, hostVars
<1>3. ServesUnderLease'
  BY DEF IInv, ServesUnderLease, Deliver, hostVars
<1>4. StoppedHoldsNothing'
  BY DEF IInv, StoppedHoldsNothing, Deliver, hostVars
<1>5. Accepting'
  BY DEF IInv, Accepting, AcceptedRuns, AcceptedKeepsResources, Deliver, hostVars
<1> QED
  BY <1>1, <1>2, <1>3, <1>4, <1>5 DEF IInv

LEMMA BeginShutdownInv == ASSUME IInv, NEW h \in Host, BeginShutdown(h) PROVE IInv'
<1>1. TypeOK'
  BY DEF IInv, TypeOK, State, Boot, Teardown, Progress, BeginShutdown, Tears
<1>2. Phases'
  BY DEF IInv, TypeOK, Phases, BeginShutdown, Tears
<1>3. ServesUnderLease'
  BY DEF IInv, TypeOK, ServesUnderLease, BeginShutdown, Tears
<1>4. StoppedHoldsNothing'
  BY DEF IInv, StoppedHoldsNothing, BeginShutdown, Tears
<1>5. Accepting'
  BY DEF IInv, Accepting, AcceptedRuns, AcceptedKeepsResources, BeginShutdown, Tears
<1> QED
  BY <1>1, <1>2, <1>3, <1>4, <1>5 DEF IInv

LEMMA DrainedInv == ASSUME IInv, NEW h \in Host, Drained(h) PROVE IInv'
<1>1. TypeOK'
  BY DEF IInv, TypeOK, State, Boot, Teardown, Progress, Drained, Tears, InFlight
<1>2. Phases'
  BY DEF IInv, Phases, Drained, Tears, InFlight
<1>3. ServesUnderLease'
  BY DEF IInv, ServesUnderLease, Drained, Tears, InFlight
<1>4. StoppedHoldsNothing'
  BY DEF IInv, StoppedHoldsNothing, Drained, Tears, InFlight
<1>5. Accepting'
  BY DEF IInv, Accepting, AcceptedRuns, AcceptedKeepsResources, Drained, Tears, InFlight
<1> QED
  BY <1>1, <1>2, <1>3, <1>4, <1>5 DEF IInv

LEMMA FlushedInv == ASSUME IInv, NEW h \in Host, Flushed(h) PROVE IInv'
<1>1. TypeOK'
  BY DEF IInv, TypeOK, State, Boot, Teardown, Progress, Flushed, Tears, Queued
<1>2. Phases'
  BY DEF IInv, Phases, Flushed, Tears, Queued
<1>3. ServesUnderLease'
  BY DEF IInv, ServesUnderLease, Flushed, Tears, Queued
<1>4. StoppedHoldsNothing'
  BY DEF IInv, StoppedHoldsNothing, Flushed, Tears, Queued
<1>5. Accepting'
  BY HostAssumption DEF IInv, TypeOK, Accepting, AcceptedRuns, AcceptedKeepsResources,
                        Flushed, Tears, Queued
<1> QED
  BY <1>1, <1>2, <1>3, <1>4, <1>5 DEF IInv

LEMMA AwaitStartInv == ASSUME IInv, NEW h \in Host, AwaitStart(h) PROVE IInv'
<1>1. TypeOK'
  BY DEF IInv, TypeOK, State, Boot, Teardown, Progress, AwaitStart, Tears
<1>2. Phases'
  BY DEF IInv, Phases, AwaitStart, Tears
<1>3. ServesUnderLease'
  BY DEF IInv, ServesUnderLease, AwaitStart, Tears
<1>4. StoppedHoldsNothing'
  BY DEF IInv, StoppedHoldsNothing, AwaitStart, Tears
<1>5. Accepting'
  BY DEF IInv, Accepting, AcceptedRuns, AcceptedKeepsResources, AwaitStart, Tears
<1> QED
  BY <1>1, <1>2, <1>3, <1>4, <1>5 DEF IInv

LEMMA CloseManagerInv == ASSUME IInv, NEW h \in Host, CloseManager(h) PROVE IInv'
<1>1. TypeOK'
  BY DEF IInv, TypeOK, State, Boot, Teardown, Progress, CloseManager, Tears
<1>2. Phases'
  BY DEF IInv, TypeOK, Phases, CloseManager, Tears
<1>3. ServesUnderLease'
  BY DEF IInv, TypeOK, ServesUnderLease, CloseManager, Tears
<1>4. StoppedHoldsNothing'
  BY DEF IInv, StoppedHoldsNothing, CloseManager, Tears
<1>5. Accepting'
  BY DEF IInv, Accepting, AcceptedRuns, AcceptedKeepsResources, CloseManager, Tears
<1> QED
  BY <1>1, <1>2, <1>3, <1>4, <1>5 DEF IInv

LEMMA ReleaseLeaseInv == ASSUME IInv, NEW h \in Host, ReleaseLease(h) PROVE IInv'
<1>1. TypeOK'
  BY DEF IInv, TypeOK, State, Boot, Teardown, Progress, ReleaseLease, Tears, Drop
<1>2. Phases'
  BY DEF IInv, TypeOK, Phases, ReleaseLease, Tears, Drop
<1>3. ServesUnderLease'
  BY DEF IInv, Phases, ServesUnderLease, ReleaseLease, Tears, Drop
<1>4. StoppedHoldsNothing'
  BY HostAssumption DEF IInv, Phases, StoppedHoldsNothing, ReleaseLease, Tears, Drop
<1>5. Accepting'
  BY DEF IInv, Phases, Accepting, AcceptedRuns, AcceptedKeepsResources, ReleaseLease,
         Tears, Drop
<1> QED
  BY <1>1, <1>2, <1>3, <1>4, <1>5 DEF IInv

LEMMA TickInv == ASSUME IInv, NEW h \in Host, Tick(h) PROVE IInv'
<1>1. TypeOK'
  BY HostAssumption DEF IInv, TypeOK, State, Boot, Teardown, Progress, Tick, PhaseEnd
<1>2. Phases'
  BY DEF IInv, Phases, Tick, PhaseEnd
<1>3. ServesUnderLease'
  BY DEF IInv, ServesUnderLease, Tick, PhaseEnd
<1>4. StoppedHoldsNothing'
  BY DEF IInv, StoppedHoldsNothing, Tick, PhaseEnd
<1>5. Accepting'
  BY HostAssumption DEF IInv, TypeOK, Accepting, AcceptedRuns, AcceptedKeepsResources,
                        Tick, PhaseEnd
<1> QED
  BY <1>1, <1>2, <1>3, <1>4, <1>5 DEF IInv

LEMMA CrashInv == ASSUME IInv, NEW h \in Host, Crash(h) PROVE IInv'
<1>1. TypeOK'
  BY DEF IInv, TypeOK, State, Boot, Teardown, Progress, Crash, InFlight, Queued
<1>2. Phases'
  BY DEF IInv, TypeOK, Phases, Crash, InFlight, Queued
<1>3. ServesUnderLease'
  BY DEF IInv, TypeOK, ServesUnderLease, Crash, InFlight, Queued
<1>4. StoppedHoldsNothing'
  BY DEF IInv, StoppedHoldsNothing, Crash, InFlight, Queued
<1>5. Accepting'
  BY DEF IInv, TypeOK, Accepting, AcceptedRuns, AcceptedKeepsResources, Crash, InFlight,
         Queued
<1> QED
  BY <1>1, <1>2, <1>3, <1>4, <1>5 DEF IInv

LEMMA StepInv == IInv /\ [Next]_vars => IInv'
<1> SUFFICES ASSUME IInv, [Next]_vars PROVE IInv'
  OBVIOUS
<1>1. CASE UNCHANGED vars
  BY <1>1 DEF IInv, TypeOK, Phases, ServesUnderLease, StoppedHoldsNothing, Accepting,
              AcceptedRuns, AcceptedKeepsResources, vars, hostVars
<1>2. ASSUME NEW h \in Host, Start(h) \/ Starting(h) \/ BeginShutdown(h) PROVE IInv'
  BY <1>2, StartInv, AcquireInv, InitializedInv, StartFailsInv, RollbackReleaseInv,
     RollbackCloseInv, BeginShutdownInv DEF Starting
<1>3. ASSUME NEW h \in Host, Stopping(h) \/ Tick(h) \/ Crash(h) PROVE IInv'
  BY <1>3, DrainedInv, FlushedInv, AwaitStartInv, CloseManagerInv, ReleaseLeaseInv, TickInv,
     CrashInv DEF Stopping
<1>4. ASSUME NEW r \in Request, Answer(r) \/ Deliver(r) \/ \E h \in Host : Send(r, h)
      PROVE IInv'
  BY <1>4, AnswerInv, DeliverInv, SendInv
<1> QED
  BY <1>1, <1>2, <1>3, <1>4 DEF Next

LEMMA Invariant == Spec => []IInv
  BY InitInv, StepInv, PTL DEF Spec

-----------------------------------------------------------------------------
(* The results *)

\* The type invariant: every variable stays in its type, and no phase of a cleanup
\* outlives the budget of the whole (daemon-shutdown-contract.ts).
THEOREM HostTypeCorrect == Spec => []TypeOK
<1>1. IInv => TypeOK
  BY DEF IInv
<1> QED
  BY <1>1, Invariant, PTL

\* A host admits requests only with the lease and the database in its hands, and
\* never once a stop was asked for (startOnce, beginShutdown).
THEOREM AdmitsOnlyAsOwner == Spec => []ServesUnderLease
<1>1. IInv => ServesUnderLease
  BY DEF IInv
<1> QED
  BY <1>1, Invariant, PTL

\* So two hosts never admit requests to one memory at a time.
THEOREM OneHostServes ==
  Spec => [](\A g, h \in Host : service[g] = "open" /\ service[h] = "open" => g = h)
<1>1. IInv => \A g, h \in Host : service[g] = "open" /\ service[h] = "open" => g = h
  BY DEF IInv, ServesUnderLease
<1> QED
  BY <1>1, Invariant, PTL

\* Accepted work keeps the database until it is done or the drain has expired, and a
\* daemon gives a response up only when its time is over (drainAcceptedWork, runDaemon).
THEOREM WorkKeepsResources == Spec => []AcceptedKeepsResources
<1>1. IInv => AcceptedKeepsResources
  BY DEF IInv, Accepting
<1> QED
  BY <1>1, Invariant, PTL

\* A host that stopped holds neither lease nor database, and no start of it is under
\* way that could take them (finishStop).
THEOREM StoppedIsEmpty == Spec => []StoppedHoldsNothing
<1>1. IInv => StoppedHoldsNothing
  BY DEF IInv
<1> QED
  BY <1>1, Invariant, PTL

-----------------------------------------------------------------------------
(* The lease a host takes: OwnerLease, for every number of processes, wherever *)
(* they die, and with processes that cannot be inspected.                      *)

CONSTANTS Proc, Absent, Empty, CrashAt, Unverifiable
VARIABLES pc, target, tomb, seen, todo

Lease == INSTANCE OwnerLease

\* A process that became the owner stays one until it leaves, and ends as gone.
Claimed(p) == pc[p] \in {"owner", "releasing", "unlink", "rmdir", "leaving", "gone"}

\* A record is of a process that became the owner: one that has failed, and may come
\* back, has left none.
Recorded ==
  \A q \in Proc :
    target = q \/ (\E p \in Proc : tomb[p] = q \/ seen[p] = q) => Claimed(q)

\* A process that evicts saw the record of one that is gone, for good.
SeenGone ==
  \A p \in Proc :
    /\ pc[p] \in {"inspect", "evict", "verify"} => seen[p] \in Proc
    /\ pc[p] \in {"evict", "verify"} => pc[seen[p]] = "gone"

\* A process that has cleaned up has no tombstone of its own left.
Swept == \A p \in Proc : pc[p] = "clean" /\ p \notin todo[p] => tomb[p] = Absent

TakenGone == \A p \in Proc : pc[p] = "claim" /\ tomb[p] \in Proc => pc[tomb[p]] = "gone"

LeaseInv == Lease!TypeOK /\ Recorded /\ SeenGone /\ Swept /\ TakenGone

LEMMA LeaseInit == ASSUME Lease!LeaseAssumption, Lease!Init PROVE LeaseInv
BY DEF LeaseInv, Lease!LeaseAssumption, Lease!Init, Lease!TypeOK, Lease!Step, Lease!Dir,
       Recorded, SeenGone, Swept, TakenGone

\* The steps of an attempt that clean up and look.
LEMMA LooksInv ==
  ASSUME Lease!LeaseAssumption, LeaseInv, NEW p \in Proc,
         Lease!Begin(p) \/ Lease!LeaseExists(p) \/ Lease!ReadRecord(p) \/ Lease!Inspect(p)
  PROVE  LeaseInv'
<1> USE DEF LeaseInv, Lease!LeaseAssumption, Lease!TypeOK, Lease!Goto, Claimed
<1>1. CASE Lease!Begin(p)
  <2>1. Lease!TypeOK'
    BY <1>1 DEF Lease!Begin, Lease!Step, Lease!Dir
  <2>2. Recorded' /\ SeenGone' /\ Swept' /\ TakenGone'
    BY <1>1 DEF Lease!Begin, Lease!Step, Lease!Dir, Recorded, SeenGone, Swept, TakenGone
  <2> QED
    BY <2>1, <2>2
<1>2. CASE Lease!LeaseExists(p)
  <2>1. Lease!TypeOK'
    BY <1>2 DEF Lease!LeaseExists, Lease!Step, Lease!Dir
  <2>2. Recorded' /\ SeenGone' /\ Swept'
    BY <1>2 DEF Lease!LeaseExists, Lease!Step, Lease!Dir, Recorded, SeenGone, Swept
  <2>3. TakenGone'
    BY <1>2 DEF Lease!LeaseExists, Lease!Step, Lease!Dir, Swept, TakenGone
  <2> QED
    BY <2>1, <2>2, <2>3
<1>3. CASE Lease!ReadRecord(p)
  <2>1. Lease!TypeOK'
    BY <1>3 DEF Lease!ReadRecord, Lease!Step, Lease!Dir
  <2>2. Recorded' /\ SeenGone' /\ Swept' /\ TakenGone'
    BY <1>3 DEF Lease!ReadRecord, Lease!Step, Lease!Dir, Recorded, SeenGone, Swept, TakenGone
  <2> QED
    BY <2>1, <2>2
<1>4. CASE Lease!Inspect(p)
  <2>1. Lease!TypeOK'
    BY <1>4 DEF Lease!Inspect, Lease!Step, Lease!Dir
  <2>2. Recorded' /\ Swept' /\ TakenGone'
    BY <1>4 DEF Lease!Inspect, Lease!Step, Lease!Dir, Recorded, Swept, TakenGone
  <2>3. SeenGone'
    BY <1>4 DEF Lease!Inspect, Lease!Alive, Lease!Step, Recorded, SeenGone
  <2> QED
    BY <2>1, <2>2, <2>3
<1> QED
  BY <1>1, <1>2, <1>3, <1>4

\* The sweep of the tombstones, by any process.
LEMMA CleanInv ==
  ASSUME Lease!LeaseAssumption, LeaseInv, NEW p \in Proc, NEW q \in Proc,
         Lease!CleanFile(p, q) \/ Lease!CleanDirectory(p, q)
  PROVE  LeaseInv'
<1> USE DEF LeaseInv, Lease!LeaseAssumption, Lease!TypeOK, Claimed
<1>1. CASE Lease!CleanFile(p, q)
  <2>1. Lease!TypeOK'
    BY <1>1 DEF Lease!CleanFile, Lease!Dir
  <2>2. Recorded' /\ SeenGone' /\ TakenGone'
    BY <1>1 DEF Lease!CleanFile, Lease!Dir, Recorded, SeenGone, TakenGone
  <2>3. Swept'
    BY <1>1 DEF Lease!CleanFile, Swept
  <2> QED
    BY <2>1, <2>2, <2>3
<1>2. CASE Lease!CleanDirectory(p, q)
  <2>1. Lease!TypeOK'
    BY <1>2 DEF Lease!CleanDirectory, Lease!Unlisted, Lease!Dir
  <2>2. Recorded' /\ SeenGone' /\ Swept' /\ TakenGone'
    BY <1>2
       DEF Lease!CleanDirectory, Lease!Unlisted, Lease!Dir, Recorded, SeenGone, Swept, TakenGone
  <2> QED
    BY <2>1, <2>2
<1> QED
  BY <1>1, <1>2

\* A takeover: the rename, the comparison, and the way back.
LEMMA TakeoverInv ==
  ASSUME Lease!LeaseAssumption, LeaseInv, NEW p \in Proc,
         Lease!Evict(p) \/ Lease!Verify(p) \/ Lease!Restore(p) \/ Lease!Unreadable(p)
           \/ Lease!Claim(p)
  PROVE  LeaseInv'
<1> USE DEF LeaseInv, Lease!LeaseAssumption, Lease!TypeOK, Lease!Goto, Claimed
<1>1. CASE Lease!Evict(p)
  <2>1. Lease!TypeOK'
    BY <1>1 DEF Lease!Evict, Lease!Step, Lease!Dir
  <2>2. Recorded' /\ SeenGone'
    BY <1>1 DEF Lease!Evict, Lease!Step, Lease!Dir, Recorded, SeenGone
  <2>3. Swept' /\ TakenGone'
    BY <1>1 DEF Lease!Evict, Lease!Step, Lease!Dir, Recorded, SeenGone, Swept, TakenGone
  <2> QED
    BY <2>1, <2>2, <2>3
<1>2. CASE Lease!Verify(p)
  <2>1. Lease!TypeOK'
    BY <1>2 DEF Lease!Verify, Lease!Step, Lease!Dir
  <2>2. Recorded' /\ SeenGone' /\ Swept' /\ TakenGone'
    BY <1>2 DEF Lease!Verify, Lease!Step, Lease!Dir, Recorded, SeenGone, Swept, TakenGone
  <2> QED
    BY <2>1, <2>2
<1>3. CASE Lease!Restore(p)
  <2>1. Lease!TypeOK'
    BY <1>3
       DEF Lease!Restore, Lease!CanPutBack, Lease!PutBack, Lease!Unlisted, Lease!Step, Lease!Dir
  <2>2. Recorded' /\ SeenGone' /\ Swept' /\ TakenGone'
    BY <1>3
       DEF Lease!Restore, Lease!CanPutBack, Lease!PutBack, Lease!Unlisted, Lease!Step, Lease!Dir,
           Recorded, SeenGone, Swept, TakenGone
  <2> QED
    BY <2>1, <2>2
<1>4. CASE Lease!Unreadable(p)
  <2>1. Lease!TypeOK'
    BY <1>4
       DEF Lease!Unreadable, Lease!CanPutBack, Lease!PutBack, Lease!Unlisted, Lease!Step, Lease!Dir
  <2>2. Recorded' /\ SeenGone' /\ Swept' /\ TakenGone'
    BY <1>4
       DEF Lease!Unreadable, Lease!CanPutBack, Lease!PutBack, Lease!Unlisted, Lease!Step, Lease!Dir,
           Recorded, SeenGone, Swept, TakenGone
  <2> QED
    BY <2>1, <2>2
<1>5. CASE Lease!Claim(p)
  <2>1. Lease!TypeOK'
    BY <1>5 DEF Lease!Claim, Lease!Step, Lease!Dir
  <2>2. Recorded' /\ SeenGone' /\ Swept' /\ TakenGone'
    BY <1>5 DEF Lease!Claim, Lease!Step, Lease!Dir, Recorded, SeenGone, Swept, TakenGone
  <2> QED
    BY <2>1, <2>2
<1> QED
  BY <1>1, <1>2, <1>3, <1>4, <1>5

\* A release, a death and a restart: nobody's record comes about by them.
LEMMA LeavesInv ==
  ASSUME Lease!LeaseAssumption, LeaseInv, NEW p \in Proc,
         Lease!BeginRelease(p) \/ Lease!Release(p) \/ Lease!Crash(p) \/ Lease!Restart(p)
  PROVE  LeaseInv'
<1> USE DEF LeaseInv, Lease!LeaseAssumption, Lease!TypeOK, Lease!Goto, Claimed
<1>1. CASE Lease!RemoveFile(p)
  BY <1>1 DEF Lease!RemoveFile, Lease!Step, Lease!Dir, Recorded, SeenGone, Swept, TakenGone
<1>2. CASE Lease!RemoveDirectory(p)
  BY <1>2 DEF Lease!RemoveDirectory, Lease!Step, Lease!Dir, Recorded, SeenGone, Swept, TakenGone
<1>3. CASE Lease!BeginRelease(p) \/ Lease!ReadOwn(p) \/ Lease!Exit(p)
  BY <1>3
     DEF Lease!BeginRelease, Lease!ReadOwn, Lease!Exit, Lease!Step, Lease!Dir, Recorded, SeenGone,
         Swept, TakenGone
<1>4. CASE Lease!Crash(p) \/ Lease!Restart(p)
  BY <1>4
     DEF Lease!Crash, Lease!Restart, Lease!Step, Lease!Dir, Recorded, SeenGone, Swept, TakenGone
<1> QED
  BY <1>1, <1>2, <1>3, <1>4 DEF Lease!Release

LEMMA LeaseNext ==
  ASSUME Lease!LeaseAssumption, LeaseInv, [Lease!Next]_(Lease!vars) PROVE LeaseInv'
<1>1. CASE UNCHANGED Lease!vars
  BY <1>1
     DEF Lease!vars, LeaseInv, Lease!TypeOK, Lease!Dir, Recorded, Claimed, SeenGone, Swept, TakenGone
<1>2. ASSUME NEW p \in Proc,
             Lease!Attempt(p) \/ Lease!Release(p) \/ Lease!BeginRelease(p) \/ Lease!Crash(p)
      PROVE  LeaseInv'
  BY <1>2, LooksInv, CleanInv, TakeoverInv, LeavesInv DEF Lease!Attempt
<1> QED
  BY <1>1, <1>2 DEF Lease!Next

\* Nobody takes over from the living: the lease a process moved away on its way to
\* the claim is that of a dead one, for every number of contenders (doAcquire).
THEOREM TakesOnlyFromDead ==
  ASSUME Lease!LeaseAssumption PROVE Lease!Spec => []Lease!TakesFromDead
<1>1. Lease!Init => LeaseInv
  BY LeaseInit
<1>2. LeaseInv /\ [Lease!Next]_(Lease!vars) => LeaseInv'
  BY LeaseNext
<1>3. LeaseInv => Lease!TakesFromDead
  BY DEF LeaseInv, TakenGone, Lease!TakesFromDead, Lease!Alive
<1> QED
  BY <1>1, <1>2, <1>3, PTL DEF Lease!Spec
=============================================================================
