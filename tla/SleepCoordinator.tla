-------------------------- MODULE SleepCoordinator --------------------------
(***************************************************************************)
(* The coordinator of sleep runs in a service (sleep-coordinator.ts) and   *)
(* its event ring (sleep-events.ts): one run at a time, the results of     *)
(* runs that a shutdown or a newer run replaced, the sidecar that outlives *)
(* the process, and the readers of the ring.  What a run does is SleepNight *)
(* and how it reaches a model is RuntimeBroker.                            *)
(*                                                                         *)
(* A run is a number, an event is the number the ring gave it, and a       *)
(* reader asks for what follows the last event it was given.               *)
(***************************************************************************)
EXTENDS Integers, FiniteSets

CONSTANTS
  Reader,      \* who polls sleep.events
  Capacity,    \* MAX_EVENTS
  EventLimit,  \* the limit a reader asks with
  MaxSleepRun, \* bound: runs begun
  MaxPush,     \* bound: events after which runs are silent and nobody cancels
  MaxCoordinatorBoot \* bound: starts of the process

CoordinatorAssumption ==
  /\ {Capacity, EventLimit} \subseteq Nat \ {0}
  /\ {MaxSleepRun, MaxPush, MaxCoordinatorBoot} \subseteq Nat

NoRun == 0
SleepRun == 1..MaxSleepRun
RunEnded == {"completed", "failed", "cancelled"}

VARIABLES
  active,   \* activeRun
  last,     \* lastRun
  sidecar,  \* the persisted record
  result,   \* what the promise of each run came to: none, running or how it ended
  ring,     \* the event ring of the newest run
  polls,    \* each reader: its poll, and what it was given of which ring
  coordinatorBoots, \* how often the process started
  unwritten \* history: the runs whose record could not be written

coordinatorVars == <<active, last, sidecar, result, ring, polls, coordinatorBoots, unwritten>>

NoRecord == [run |-> NoRun, status |-> "none", resumable |-> FALSE, version |-> 2]
\* What a version before formatVersion wrote of a run of its own.
Legacy == [run |-> NoRun, status |-> "failed", resumable |-> FALSE, version |-> 1]

FreshRing(n) == [id |-> n, items |-> {}, next |-> 1, terminal |-> FALSE]
NewReader == [waits |-> FALSE, ring |-> 0, cursor |-> 0, got |-> {}, gap |-> FALSE]

RunRecord ==
  [run : SleepRun \cup {NoRun}, status : RunEnded \cup {"none", "interrupted"},
   resumable : BOOLEAN, version : {1, 2}]

CoordinatorTypeOK ==
  /\ active \in SleepRun \cup {NoRun} /\ last \in RunRecord /\ sidecar \in RunRecord
  /\ result \in [SleepRun -> RunEnded \cup {"none", "running", "lost"}]
  /\ Cardinality(ring.items) <= Capacity /\ ring.next \in 1..MaxPush + 4
  /\ ring.terminal \in BOOLEAN
  /\ polls \in [Reader -> [waits : BOOLEAN, ring : Nat, cursor : 0..MaxPush + 3,
                           got : SUBSET (1..MaxPush + 3), gap : BOOLEAN]]
  /\ coordinatorBoots \in 1..MaxCoordinatorBoot /\ unwritten \subseteq SleepRun

CoordinatorInit ==
  /\ active = NoRun /\ result = [r \in SleepRun |-> "none"]
  /\ sidecar \in {NoRecord, Legacy} /\ last = sidecar
  /\ ring = FreshRing(0) /\ polls = [q \in Reader |-> NewReader]
  /\ coordinatorBoots = 1 /\ unwritten = {}

-----------------------------------------------------------------------------
(* The ring.                                                               *)

\* One more event; a full ring drops its oldest.
Pushed(R) ==
  IF R.terminal THEN R
  ELSE LET more == R.items \cup {R.next}
       IN [id |-> R.id, next |-> R.next + 1, terminal |-> FALSE,
           items |-> IF Cardinality(more) > Capacity
                     THEN {e \in more : \E f \in more : f < e} ELSE more]

\* A reader is given events, and asks for what follows the last of them.
\* One that sees another run than before starts over.
Newest(events) == CHOOSE e \in events : \A f \in events : f <= e
GivenEvents(q, R, events, gap) ==
  LET same == q.ring = R.id IN
  [waits |-> FALSE, ring |-> R.id,
   cursor |-> IF events # {} THEN Newest(events) ELSE IF same THEN q.cursor ELSE 0,
   got |-> IF same THEN q.got \cup events ELSE events,
   gap |-> gap \/ (same /\ q.gap)]

\* The oldest of some events, as many as the limit, and those after the n-th.
FirstOf(events) == {e \in events : Cardinality({f \in events : f < e}) < EventLimit}
EventsAfter(R, n) == {e \in R.items : e > n}

\* Seeded fault: the ring forgets what it dropped.
FaultGapAfter(R, n) == FALSE

GapAfter(R, n) == EventsAfter(R, n) # {} /\ \A e \in EventsAfter(R, n) : e > n + 1

\* wakeWaiters(): whoever waits on the ring gets the oldest events it keeps.
Woken(R) == [q \in Reader |->
  IF polls[q].waits /\ polls[q].ring = R.id
  THEN GivenEvents(polls[q], R, FirstOf(R.items), FALSE) ELSE polls[q]]

\* readAfter() answers at once, or the reader waits on the ring it asked.
ReadEvents(q) ==
  LET after == IF polls[q].ring = ring.id THEN polls[q].cursor ELSE 0
      events == EventsAfter(ring, after)
  IN /\ ~polls[q].waits
     /\ polls' = [polls EXCEPT ![q] =
          IF events # {} \/ ring.terminal
          THEN GivenEvents(@, ring, FirstOf(events),
                           GapAfter(ring, after) \/ (after > 0 /\ events = {}))
          ELSE [GivenEvents(@, ring, {}, FALSE) EXCEPT !.waits = TRUE]]
     /\ UNCHANGED <<active, last, sidecar, result, ring, coordinatorBoots, unwritten>>

\* A waiter's own timer: nothing came on the ring it asked.
PollEnds(q) ==
  /\ polls[q].waits
  /\ polls' = [polls EXCEPT ![q].waits = FALSE]
  /\ UNCHANGED <<active, last, sidecar, result, ring, coordinatorBoots, unwritten>>

-----------------------------------------------------------------------------
(* Runs.                                                                   *)

\* persistLastRun_(): the write may fail, and the failure is swallowed.
Persist(record) ==
  /\ last' = record
  /\ \/ sidecar' = record /\ UNCHANGED unwritten
     \/ UNCHANGED sidecar /\ unwritten' = unwritten \cup ({record.run} \cap SleepRun)

\* start(): the readers of the ring before are left where they wait.
BeginRun ==
  /\ active = NoRun
  /\ \E r \in SleepRun :
       /\ result[r] = "none" /\ \A s \in SleepRun : s < r => result[s] # "none"
       /\ active' = r /\ result' = [result EXCEPT ![r] = "running"]
  /\ ring' = Pushed(FreshRing(ring.id + 1))
  /\ UNCHANGED <<polls, coordinatorBoots>>

Start == BeginRun /\ UNCHANGED <<last, sidecar, unwritten>>

Healthy == {"completed"}

\* resume(): a record of the old format is repaired if a checkpoint is valid.
ResumeRun ==
  /\ last.status # "none" /\ last.status \notin Healthy
  /\ \/ /\ last.version = 2 /\ last.resumable /\ last.run # NoRun
        /\ UNCHANGED <<last, sidecar, unwritten>>
     \/ /\ last.version = 1 /\ ~last.resumable
        /\ Persist([last EXCEPT !.resumable = TRUE, !.version = 2])
  /\ BeginRun

\* cancel(): the run's own result still ends it.
CancelRun ==
  /\ active # NoRun /\ ring.next <= MaxPush
  /\ ring' = Pushed(ring) /\ polls' = Woken(ring')
  /\ UNCHANGED <<active, last, sidecar, result, coordinatorBoots, unwritten>>

\* A run that still goes on, replaced or not, reports its progress.
Progress(r) ==
  /\ result[r] = "running" /\ ring.next <= MaxPush
  /\ ring' = Pushed(ring) /\ polls' = Woken(ring')
  /\ UNCHANGED <<active, last, sidecar, result, coordinatorBoots, unwritten>>

\* The guard of finishRun().
Concerns(r) == active = r

\* finishRun(): what a run came to counts only while it is the active one; the ring
\* it leaves is terminal, and the first thing it is told wakes whoever waits.
SettleRun(r, status, resumable, told, left) ==
  /\ result[r] = "running" /\ result' = [result EXCEPT ![r] = status]
  /\ IF Concerns(r)
     THEN /\ ring' = [left EXCEPT !.terminal = TRUE] /\ polls' = Woken(told)
          /\ active' = NoRun
          /\ Persist([run |-> active, status |-> status, resumable |-> resumable, version |-> 2])
     ELSE UNCHANGED <<ring, polls, active, last, sidecar, unwritten>>
  /\ UNCHANGED coordinatorBoots

Resolve(r) ==
  \E status \in RunEnded, resumable \in BOOLEAN : SettleRun(r, status, resumable, ring, ring)

\* A thrown error is told as two events, and the checkpoint says if it may be resumed.
Reject(r) ==
  \E resumable \in BOOLEAN : SettleRun(r, "failed", resumable, Pushed(ring), Pushed(Pushed(ring)))

Interrupt(record) == Persist(record)

\* shutdown(): the run is interrupted, and every poll of the ring ends.
CoordinatorShutdown ==
  /\ IF active # NoRun
     THEN /\ ring' = [Pushed(ring) EXCEPT !.terminal = TRUE]
          /\ active' = NoRun
          /\ Interrupt([run |-> active, status |-> "interrupted", resumable |-> TRUE,
                        version |-> 2])
     ELSE /\ ring' = [ring EXCEPT !.terminal = TRUE]
          /\ UNCHANGED <<active, last, sidecar, unwritten>>
  /\ polls' = Woken(ring')
  /\ UNCHANGED <<result, coordinatorBoots>>

\* The process ends, at any moment, and the next one reads the sidecar.
CoordinatorRestarts ==
  /\ coordinatorBoots < MaxCoordinatorBoot /\ coordinatorBoots' = coordinatorBoots + 1
  /\ active' = NoRun /\ last' = sidecar
  /\ result' = [r \in SleepRun |-> IF result[r] = "running" THEN "lost" ELSE result[r]]
  /\ ring' = FreshRing(ring.id + 1) /\ polls' = [q \in Reader |-> NewReader]
  /\ UNCHANGED <<sidecar, unwritten>>

CoordinatorNext ==
  \/ Start \/ ResumeRun \/ CancelRun \/ CoordinatorShutdown \/ CoordinatorRestarts
  \/ \E r \in SleepRun : Progress(r) \/ Resolve(r) \/ Reject(r)
  \/ \E q \in Reader : ReadEvents(q) \/ PollEnds(q)

CoordinatorSpec == CoordinatorInit /\ [][CoordinatorNext]_coordinatorVars

-----------------------------------------------------------------------------
(* What must hold.                                                         *)

\* The record of a run says how that run ended, or that it was interrupted:
\* the late result of a run that a shutdown or a newer run replaced reaches
\* neither its own record nor another's (finishRun(), shutdown()).
Truthful ==
  /\ last.run # NoRun => last.status \in {"interrupted", result[last.run]}
  /\ active # NoRun => result[active] = "running"

\* After a restart the sidecar names the newest run that ended or was shut
\* down, unless its record could not be written; a run that died with its
\* process leaves the record of the run before (persistLastRun_()).
RecordsSurvive ==
  \A r \in SleepRun : result[r] \in RunEnded /\ r \notin unwritten => sidecar.run >= r

\* Over shutdowns, newer runs and restarts, the record there is tells the truth and
\* the one there should be is there.
RecordsHold == Truthful /\ RecordsSurvive

\* A reader that asks for what follows the last event it got, and was told of
\* no gap, has got every event up to there, though the ring drops its oldest
\* and answers are cut to a limit (readAfter(), wakeWaiters()); and it does not
\* wait on the ring of the day for what that already has, or after its end
\* (push(), setTerminal()).
NothingSkipped ==
  \A q \in Reader :
    /\ ~polls[q].gap => 1..polls[q].cursor \subseteq polls[q].got
    /\ polls[q].waits /\ polls[q].ring = ring.id
         => ~ring.terminal /\ EventsAfter(ring, polls[q].cursor) = {}

\* What the record of a run says and what is left of it, and what a reader of its
\* events is given.
RunsAccounted == RecordsHold /\ NothingSkipped
=============================================================================
