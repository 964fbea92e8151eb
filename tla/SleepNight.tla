----------------------------- MODULE SleepNight -----------------------------
(***************************************************************************)
(* A night of sleep: runSleepCycle() of sleep/orchestrator.ts with the     *)
(* units it dispatches (step-units.ts, sleep-daily-summary.ts,             *)
(* shared-execution.ts), the final review (step13.ts) and the settlement   *)
(* (settlement.ts), over the nights and the deaths of one process.         *)
(*                                                                         *)
(* Messages are numbered as they arrive, and the number is their           *)
(* timestamp.  A step reads, asks the model and publishes in one action:   *)
(* nothing else writes what it reads but arrivals, which it may as well    *)
(* have missed.  What the model answers is a choice.                       *)
(***************************************************************************)
EXTENDS SleepRules

CONSTANTS
  MaxMessage, \* bound: messages that arrive
  MaxRun,     \* bound: runs begun
  Rounds,     \* bound: rounds of a review (MAX_DOMAIN_RETRIES)
  Retried,    \* bound: the steps a review dispatches again
  MaxFault    \* bound: deaths and thrown errors

ASSUME NightAssumption ==
  MaxMessage \in Nat /\ MaxRun \in Nat /\ Rounds \in Nat \ {0} /\ Retried \subseteq Ordinary /\ MaxFault \in Nat

Message == 1..MaxMessage

VARIABLES
  now,       \* the messages 1..now have arrived
  watermark, \* the extraction watermark
  marks,     \* garbage.json
  grouped,   \* the messages an episode holds
  gone,      \* the messages deleted
  lock,      \* the sleep lock of today, on disk
  pidAlive,  \* does the process whose pid the lock holds live?
  mem,       \* the run's copy of the lock
  run,       \* the run under way
  faults,    \* how many deaths and thrown errors there were
  runs,      \* how many runs were begun
  holes      \* history: the messages reported unclaimed and not read since

disk == <<watermark, marks, grouped, gone>>
vars == <<now, disk, lock, pidAlive, mem, run, faults, runs, holes>>

NoLock == [status |-> "none", step |-> [s \in Step |-> "none"], covered |-> {}, hole |-> {},
           usable |-> FALSE, acceptance |-> "none"]

Idle == [pc |-> "idle", resume |-> FALSE, target |-> 0, at |-> 1, redo |-> Review,
         round |-> 0, daily |-> FALSE, gc |-> {}, extracted |-> FALSE, terminal |-> "none",
         aborted |-> FALSE, accepted |-> FALSE, covered |-> NoCeiling]

Here == 1..now \ gone
Working == run.pc \in {"step", "redo"}
\* The step that is dispatched.
Current == IF run.pc = "redo" THEN run.redo ELSE Order[run.at]

LockType ==
  [status : {"none", "ongoing", "suspended", "failed", "completed"}, step : [Step -> StepStatus],
   covered : SUBSET Message, hole : SUBSET Message, usable : BOOLEAN, acceptance : {"none", "held", "accepted"}]

RunType ==
  [pc : {"idle", "loop", "step", "review", "redo", "verdict", "judge", "advance", "flush"},
   resume : BOOLEAN, target : 0..MaxMessage, at : 1..Len(Order) + 1, redo : Step,
   round : 0..Rounds, daily : BOOLEAN, gc : SUBSET Message, extracted : BOOLEAN,
   terminal : {"none", "provider", "other"}, aborted : BOOLEAN,
   accepted : BOOLEAN, covered : {NoCeiling} \cup 0..MaxMessage]

TypeOK ==
  /\ now \in 0..MaxMessage /\ watermark \in 0..MaxMessage
  /\ marks \subseteq Message /\ grouped \subseteq Message /\ gone \subseteq Message
  /\ lock \in LockType /\ mem \in LockType /\ run \in RunType
  /\ pidAlive \in BOOLEAN /\ faults \in 0..MaxFault
  /\ runs \in 0..MaxRun /\ holes \subseteq Message

Init ==
  /\ now = 0 /\ watermark = 0
  /\ marks = {} /\ grouped = {} /\ gone = {}
  /\ lock = NoLock /\ pidAlive = FALSE /\ mem = NoLock /\ run = Idle
  /\ faults = 0 /\ runs = 0 /\ holes = {}

\* writeStateFile().
Write(m) == mem' = m /\ lock' = m /\ pidAlive' = TRUE

-----------------------------------------------------------------------------
(* The start: the lock of the day, what is resumed, garbage past its age.  *)

Begin(fresh) ==
  LET resume == ~fresh /\ Resumable(lock, pidAlive)
  IN /\ run.pc = "idle" /\ runs < MaxRun
     /\ runs' = runs + 1
     /\ ~(lock.status = "ongoing" /\ pidAlive)
     /\ \E old \in {{}, marks} :
          /\ marks' = marks \ old
          /\ gone' = gone \cup old
     /\ mem' = [lock EXCEPT !.status = "ongoing"]
     /\ run' = [Idle EXCEPT !.pc = "loop", !.resume = resume, !.target = now,
                            !.daily = resume /\ lock.step[Daily] = "ok" /\ lock.usable]
     /\ UNCHANGED <<now, watermark, grouped, lock, pidAlive, faults, holes>>

-----------------------------------------------------------------------------
(* The step loop.                                                          *)

ToReview == [run EXCEPT !.pc = "review"]
NextStep == [run EXCEPT !.pc = "loop", !.at = @ + 1]

\* persistCancelled(): the run ends here, and may be resumed.
Suspended ==
  /\ lock' = [mem EXCEPT !.status = "suspended"] /\ pidAlive' = TRUE
  /\ run' = Idle /\ mem' = NoLock

Cancel ==
  /\ run.pc = "loop" /\ run.aborted
  /\ Suspended
  /\ UNCHANGED <<now, disk, faults, runs, holes>>

StepsDone ==
  /\ run.pc = "loop" /\ ~run.aborted /\ run.at > Len(Order)
  /\ run' = ToReview
  /\ UNCHANGED <<now, disk, lock, pidAlive, mem, faults, runs, holes>>

Ready == run.pc = "loop" /\ ~run.aborted /\ run.at <= Len(Order)

\* The calls left are reserved for the review, or there are none.
BudgetSuspend ==
  /\ Ready
  /\ Write([mem EXCEPT !.status = "suspended"])
  /\ run' = ToReview
  /\ UNCHANGED <<now, disk, faults, runs, holes>>

Settled == run.resume /\ mem.step[Current] \in {"ok", "skipped"}

SkipSettled ==
  /\ Ready /\ Settled
  /\ run' = NextStep
  /\ UNCHANGED <<now, disk, lock, pidAlive, mem, faults, runs, holes>>

\* A step that is not eligible tonight: which ones depends on the level and the data.
SkipIneligible ==
  /\ Ready /\ ~Settled /\ Current \notin Essential
  /\ Write([mem EXCEPT !.step[Current] = "skipped"])
  /\ run' = NextStep
  /\ UNCHANGED <<now, disk, faults, runs, holes>>

Dispatch ==
  /\ Ready /\ ~Settled
  /\ Write([mem EXCEPT !.step[Current] = "pending"])
  /\ run' = [run EXCEPT !.pc = "step"]
  /\ UNCHANGED <<now, disk, faults, runs, holes>>

-----------------------------------------------------------------------------
(* What a dispatched step comes to.  The review may dispatch one again.    *)

\* The step ends with a status; one that stops ends the loop if it is essential.
EndStep(status, stops, m, r) ==
  /\ Write([m EXCEPT !.step[Current] = status])
  /\ run' = IF run.pc = "redo" THEN [r EXCEPT !.pc = IF status = "ok" THEN "review" ELSE "verdict"]
            ELSE IF status = "failed" /\ stops /\ Current \in Essential THEN [r EXCEPT !.pc = "review"]
            ELSE [r EXCEPT !.pc = "loop", !.at = @ + 1]

\* sendToRuntime() returns null: no budget, no time left in the cycle, or an abort.
NoResponse ==
  /\ Working
  /\ EndStep("failed", FALSE, mem, run)
  /\ UNCHANGED <<now, disk, faults, runs, holes>>

\* recordTerminalFailure(): the provider is lost, or a deadline or an answer was.
\* A step dispatched by the review takes the review with it.
ModelFailure ==
  /\ Working
  /\ \E why \in {"provider", "other"} :
       LET m == [mem EXCEPT !.step[Current] = "failed"]
           r == [run EXCEPT !.terminal = why]
       IN IF run.pc = "redo"
          THEN /\ Write([m EXCEPT !.step[Review] = "ok", !.acceptance = "held"])
               /\ run' = [r EXCEPT !.pc = "judge"]
          ELSE Write(m) /\ run' = [r EXCEPT !.pc = "review"]
  /\ UNCHANGED <<now, disk, faults, runs, holes>>

\* The answer came after the abort: the step stays pending.
AbortedStep ==
  /\ run.pc = "step" /\ run.aborted /\ Current \notin {Daily, Extract}
  /\ Suspended
  /\ UNCHANGED <<now, disk, faults, runs, holes>>

\* buildDailySummary() reads what is above the watermark and not garbage.
Unread == {m \in Here : m > watermark} \ marks

\* The batches that failed after the first stay unclaimed.
DailyDone ==
  /\ Working /\ Current = Daily /\ Unread # {}
  /\ \E hole \in SUBSET (Unread \ {Min(Unread)}) :
       /\ EndStep("ok", FALSE, [mem EXCEPT !.covered = Unread \ hole, !.hole = hole, !.usable = TRUE], [run EXCEPT !.daily = TRUE])
       /\ holes' = hole
  /\ UNCHANGED <<now, disk, faults, runs>>

DailyNothing ==
  /\ Working /\ Current = Daily /\ Unread = {}
  /\ EndStep("skipped", FALSE, mem, run)
  /\ UNCHANGED <<now, disk, faults, runs, holes>>

\* persistGcSelection(): the model chooses among the messages since the last audit.
GcDone ==
  /\ Working /\ Current = Gc /\ ~run.aborted
  /\ \E chosen \in {{}} \cup {{m} : m \in Here} :
       /\ marks' = marks \cup chosen
       /\ EndStep("ok", FALSE, mem, [run EXCEPT !.gc = chosen])
  /\ UNCHANGED <<now, watermark, grouped, gone, faults, runs, holes>>

\* What extraction is offered: the window from the watermark to the target.
Offered == {m \in Here : watermark < m /\ m <= run.target}

ExtractBlocked ==
  /\ Working /\ Current = Extract /\ Blocked(mem.step)
  /\ EndStep("failed", TRUE, mem, run)
  /\ UNCHANGED <<now, disk, faults, runs, holes>>

ExtractNothing ==
  /\ Working /\ Current = Extract /\ ~Blocked(mem.step)
  /\ ~run.daily \/ Offered = {}
  /\ EndStep("skipped", FALSE, mem, run)
  /\ UNCHANGED <<now, disk, faults, runs, holes>>

ExtractDone ==
  /\ Working /\ Current = Extract /\ ~Blocked(mem.step)
  /\ run.daily /\ Offered # {}
  /\ EndStep("ok", FALSE, mem, [run EXCEPT !.extracted = TRUE])
  /\ UNCHANGED <<now, disk, faults, runs, holes>>

\* dispatchPromptStep(): the completion check passes.
PromptDone ==
  /\ Working /\ Current \in Prompted /\ ~run.aborted
  /\ EndStep("ok", FALSE, mem, run)
  /\ UNCHANGED <<now, disk, faults, runs, holes>>

PromptNothing ==
  /\ Working /\ Current \in Prompted
  /\ EndStep("skipped", FALSE, mem, run)
  /\ UNCHANGED <<now, disk, faults, runs, holes>>

\* The completion check gives up, messages are left over, or a write fails.
StepFails ==
  /\ Working
  /\ Current # Daily
  /\ EndStep("failed", TRUE, mem, run)
  /\ UNCHANGED <<now, disk, faults, runs, holes>>

-----------------------------------------------------------------------------
(* The final review, which may repair and then look again.                 *)

\* runReviewRepairStep() ends: what it concludes goes into the lock.
Conclude(acceptance, status, m, r) ==
  /\ Write([m EXCEPT !.step[Review] = status, !.acceptance = acceptance])
  /\ run' = [r EXCEPT !.pc = "judge", !.accepted = acceptance = "accepted"]

\* An aborted run is not reviewed; one without a provider cannot be.
NoReview ==
  /\ run.pc = "review" /\ (run.aborted \/ run.terminal = "provider")
  /\ IF run.aborted
     THEN run' = [run EXCEPT !.pc = "judge"] /\ UNCHANGED <<lock, pidAlive, mem>>
     ELSE /\ Write([mem EXCEPT !.acceptance = "held"])
          /\ run' = [run EXCEPT !.pc = "judge"]
  /\ UNCHANGED <<now, disk, faults, runs, holes>>

Reviewing == run.pc = "review" /\ ~run.aborted /\ run.terminal # "provider"

\* The call returns nothing, the rounds are spent, or no answer can be read.
ReviewUnheard ==
  /\ Reviewing
  /\ Conclude("held", "ok", mem, run)
  /\ UNCHANGED <<now, disk, faults, runs, holes>>

ReviewFails ==
  /\ Reviewing
  /\ \E why \in {run.terminal, "provider", "other"} :
       Conclude("held", "failed", mem, [run EXCEPT !.terminal = why])
  /\ UNCHANGED <<now, disk, faults, runs, holes>>

Heard == Reviewing /\ run.round < Rounds

\* A review that repairs nothing is final.  Its footer may fail to be written.
ReviewAccepts ==
  /\ Heard
  /\ \E downgraded, footer \in BOOLEAN :
       Conclude(IF Accepted(mem.step, downgraded) /\ footer THEN "accepted" ELSE "held", "ok", mem, run)
  /\ UNCHANGED <<now, disk, faults, runs, holes>>

\* recomputeDispositionsAfterRepair(): repaired work turns a failed step ok.
ReviewRepairs ==
  /\ Heard
  /\ \E flipped \in SUBSET {s \in Prompted : mem.step[s] = "failed"} :
       Write([mem EXCEPT !.step = [s \in Step |-> IF s \in flipped THEN "ok" ELSE @[s]]])
  /\ run' = [run EXCEPT !.round = @ + 1]
  /\ UNCHANGED <<now, disk, faults, runs, holes>>

\* RETRY_STEP: the review dispatches a step again.
ReviewRetries ==
  /\ Heard
  /\ \E s \in Retried : run' = [run EXCEPT !.pc = "redo", !.redo = s, !.round = @ + 1]
  /\ UNCHANGED <<now, disk, lock, pidAlive, mem, faults, runs, holes>>

\* The step dispatched again wrote nothing: the round stands as it was.
RetryFailed ==
  /\ run.pc = "verdict"
  /\ \E downgraded, footer \in BOOLEAN :
       Conclude(IF Accepted(mem.step, downgraded) /\ footer THEN "accepted" ELSE "held", "ok", mem, run)
  /\ UNCHANGED <<now, disk, faults, runs, holes>>

-----------------------------------------------------------------------------
(* settleSleepRun(): the review's deterministic half, the watermark, and   *)
(* what may be deleted.                                                    *)

EssentialsOk == FailedEssentials(mem.step) = {}

\* A settled step without what it should have left is failed after all.
Judge ==
  /\ run.pc = "judge"
  /\ \E worthless \in SUBSET {s \in {Daily, Extract} : mem.step[s] = "ok"} :
       LET step == [s \in Step |-> IF s \in worthless THEN "failed" ELSE mem.step[s]]
           fails == run.terminal # "none" \/ FailedEssentials(step) # {}
       IN /\ Daily \in worthless <=> (mem.step[Daily] = "ok" /\ ~mem.usable)
          /\ Extract \in worthless => run.extracted
          /\ Write([mem EXCEPT !.step = step,
                               !.status = IF @ # "ongoing" THEN @ ELSE IF fails THEN "failed" ELSE "completed"])
  /\ run' = [run EXCEPT !.pc = "advance"]
  /\ UNCHANGED <<now, disk, faults, runs, holes>>

\* Seeded fault: an acceptance need not be of this run, nor the run whole.
FaultMayAdvance == EssentialsOk /\ run.terminal = "none" /\ ~run.aborted

MayAdvance ==
  EssentialsOk /\ run.terminal = "none" /\ ~run.aborted /\ mem.acceptance = "accepted"

\* Complete exchanges below the ceiling go into episodes, one group at a time;
\* then the watermark follows.  A systemic failure of the grouping holds it.
Advance ==
  /\ run.pc = "advance"
  /\ LET ceiling == Ceiling(mem, run.target)
     IN \/ /\ MayAdvance /\ ceiling # NoCeiling
           /\ \E G \in SUBSET {m \in Here : m <= ceiling} : grouped' = grouped \cup G
           /\ watermark' = Max({watermark, ceiling})
           /\ run' = [run EXCEPT !.pc = "flush", !.covered = ceiling]
        \/ /\ run' = [run EXCEPT !.pc = "flush"]
           /\ UNCHANGED <<watermark, grouped>>
  /\ UNCHANGED <<now, marks, gone, lock, pidAlive, mem, faults, runs, holes>>

\* Seeded fault: whatever is below the watermark may go.
FaultPrunable == {m \in Here : m <= run.covered}

\* selectPrunableMessageIds(): settled by this run and kept in an episode.
Prunable == {m \in Here \cap grouped : m <= run.covered /\ m <= watermark}

\* The garbage this run chose goes, and old messages that are prunable.
Flush ==
  /\ run.pc = "flush"
  /\ IF EssentialsOk /\ run.terminal = "none" /\ mem.acceptance = "accepted"
     THEN \E old \in SUBSET Prunable :
            /\ gone' = gone \cup (run.gc \cap marks) \cup old
            /\ marks' = marks \ run.gc
     ELSE UNCHANGED <<gone, marks>>
  /\ run' = Idle /\ mem' = NoLock
  /\ UNCHANGED <<now, watermark, grouped, lock, pidAlive, faults, runs, holes>>

-----------------------------------------------------------------------------
(* What happens around a run.                                              *)

Arrive ==
  /\ run.pc \in {"idle", "loop"}
  /\ now < MaxMessage /\ now' = now + 1
  /\ UNCHANGED <<disk, lock, pidAlive, mem, run, faults, runs, holes>>

\* A cancellation or the cycle's timeout, which nobody listens to after the loop.
Abort ==
  /\ run.pc \in {"loop", "step"} /\ ~run.aborted
  /\ run' = [run EXCEPT !.aborted = TRUE]
  /\ UNCHANGED <<now, disk, lock, pidAlive, mem, faults, runs, holes>>

\* A new date has a lock file of its own.
NewDay ==
  /\ run.pc = "idle" /\ lock.status # "none"
  /\ lock' = NoLock /\ pidAlive' = FALSE
  /\ UNCHANGED <<now, disk, mem, run, faults, runs, holes>>

\* Somebody removes the daily artifact the lock names.
LoseArtifact ==
  /\ run.pc = "idle" /\ lock.usable
  /\ lock' = [lock EXCEPT !.usable = FALSE]
  /\ UNCHANGED <<now, disk, pidAlive, mem, run, faults, runs, holes>>

\* The process dies; what it did last is on disk.
Crash ==
  /\ run.pc # "idle" /\ faults < MaxFault
  /\ faults' = faults + 1
  /\ run' = Idle /\ mem' = NoLock /\ pidAlive' = FALSE
  /\ UNCHANGED <<now, disk, lock, runs, holes>>

\* A write of the lock throws out of the cycle, and the process lives on.
Throw ==
  /\ run.pc \notin {"idle", "review", "verdict", "redo"} /\ faults < MaxFault
  /\ faults' = faults + 1
  /\ run' = Idle /\ mem' = NoLock
  /\ UNCHANGED <<now, disk, lock, pidAlive, runs, holes>>

Loop == StepsDone \/ BudgetSuspend \/ SkipSettled \/ SkipIneligible \/ Dispatch \/ Cancel
Unit == NoResponse \/ ModelFailure \/ AbortedStep \/ DailyDone \/ DailyNothing \/ GcDone
          \/ ExtractBlocked \/ ExtractNothing \/ ExtractDone \/ PromptDone \/ PromptNothing \/ StepFails
FinalReview == NoReview \/ ReviewUnheard \/ ReviewFails \/ ReviewAccepts \/ ReviewRepairs
                 \/ ReviewRetries \/ RetryFailed
Settlement == Judge \/ Advance \/ Flush
Proceed == Loop \/ Unit \/ FinalReview \/ Settlement

Next ==
  \/ Proceed
  \/ \E fresh \in BOOLEAN : Begin(fresh)
  \/ Arrive \/ Abort \/ NewDay \/ LoseArtifact \/ Crash \/ Throw

Spec == Init /\ [][Next]_vars

-----------------------------------------------------------------------------
(* What must hold.                                                         *)

\* A message reported unclaimed stays above the watermark, so the next run
\* reads it again, until it is read or marked as garbage: over resumed runs,
\* runs that keep the claims of an earlier one, and deaths
\* (coverageCeilingTs() and settleSleepRun()).
HolesHeld == \A m \in holes \ (gone \cup marks) : m > watermark

\* What is deleted was chosen as garbage, or an episode keeps it and the
\* watermark had passed it (flushOldMessages(), runPreSleepTasks()).
PrunedWasKept ==
  [][\A m \in gone' \ gone : m \in marks \/ (m \in grouped /\ m <= watermark)]_vars

\* Only a run that its own review accepted, and that nobody aborted, moves the
\* watermark or deletes messages: an acceptance that an earlier run of the day
\* left in the lock never serves another run (settleSleepRun()).
SettledByItsReview ==
  [][(watermark' # watermark \/ (gone' # gone /\ run.pc = "flush")) => run.accepted /\ ~run.aborted]_vars

\* "The greatest timestamp T such that every consumed-scope message at or below
\* T is claimed" (coverage.ts): the watermark passes no message that no summary
\* covers, garbage apart.
ConsumedWasRead ==
  [][\A m \in Here : watermark < m /\ m <= watermark' => m \in mem.covered \cup marks]_vars
=============================================================================
