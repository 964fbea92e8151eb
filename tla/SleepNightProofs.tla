-------------------------- MODULE SleepNightProofs --------------------------
(* Machine-checked proofs about SleepNight, for every manifest, any number *)
(* of messages, runs and rounds, and any number of deaths.                 *)
EXTENDS SleepNight, WellFoundedInduction, TLAPS

-----------------------------------------------------------------------------
(* The inductive invariant *)

\* A run that executes a step of the manifest is at one.
InStep == run.pc = "step" => run.at \in 1..Len(Order)

\* The holes that still wait are those of the daily step that last succeeded:
\* a lock that vouches for a daily summary, on disk or in the run, names them.
HolesClaimed ==
  \A l \in {lock, mem} : l.step[Daily] = "ok" => holes \ (gone \cup marks) \subseteq l.hole

\* An aborted run leaves the loop only for the end of the night, and only after
\* an essential step or the provider failed it.
AbortedIsUnwell ==
  run.aborted =>
    \/ run.pc \in {"loop", "step"}
    \/ /\ run.pc \in {"review", "judge", "advance", "flush"}
       /\ run.terminal # "none" \/ ~EssentialsOk

\* After the review the acceptance in the lock is this run's own.
Concluded ==
  run.pc \in {"judge", "advance", "flush"} /\ mem.acceptance = "accepted" =>
    run.accepted \/ run.aborted

IInv == TypeOK /\ InStep /\ HolesClaimed /\ AbortedIsUnwell /\ Concluded /\ HolesHeld

-----------------------------------------------------------------------------
(* The rules *)

\* The least and the greatest of a set of numbers are members that bound it.
LEMMA MinIsLeast ==
  ASSUME NEW S \in SUBSET Nat, S # {}
  PROVE  Min(S) \in S /\ \A n \in S : Min(S) <= n
<1> DEFINE R == {p \in Nat \X Nat : p[1] < p[2]}
<1>1. IsWellFoundedOn(R, Nat)
  BY NatLessThanWellFounded, Zenon DEF OpToRel
<1>2. \A a, b \in Nat : a < b => <<a, b>> \in R
  OBVIOUS
<1> HIDE DEF R
<1>3. PICK x \in S : \A y \in S : <<y, x>> \notin R
  BY <1>1, WFMin
<1>4. \A y \in S : x <= y
  <2> SUFFICES ASSUME NEW y \in S PROVE x <= y
    OBVIOUS
  <2>1. ~(y < x)
    BY <1>2, <1>3
  <2> QED
    BY <2>1
<1> QED
  BY <1>4 DEF Min

LEMMA MaxOfTwo ==
  ASSUME NEW a \in Nat, NEW b \in Nat
  PROVE  Max({a, b}) = IF a >= b THEN a ELSE b
<1>1. PICK x \in {a, b} : \A y \in {a, b} : x >= y
  <2>1. CASE a >= b
    BY <2>1
  <2>2. CASE ~ a >= b
    BY <2>2
  <2> QED
    BY <2>1, <2>2
<1>2. Max({a, b}) \in {a, b} /\ \A y \in {a, b} : Max({a, b}) >= y
  BY <1>1 DEF Max
<1> QED
  BY <1>2

\* The ceiling is at most the target and stays below every hole.
LEMMA CeilingBelowHoles ==
  ASSUME NEW l \in LockType, NEW t \in 0..MaxMessage
  PROVE  /\ Ceiling(l, t) \in {NoCeiling} \cup 0..MaxMessage
         /\ Ceiling(l, t) # NoCeiling =>
              /\ l.step[Daily] = "ok"
              /\ Ceiling(l, t) \in 0..t
              /\ \A h \in l.hole : Ceiling(l, t) < h
<1>1. CASE l.step[Daily] # "ok"
  BY <1>1 DEF Ceiling, NoCeiling
<1>2. CASE l.step[Daily] = "ok"
  <2> DEFINE S == {t} \cup {m - 1 : m \in {h \in l.hole : h <= t}}
  <2>1. l.hole \subseteq 1..MaxMessage
    BY DEF LockType, Message
  <2>2. S \in SUBSET Nat /\ t \in S
    BY <2>1, NightAssumption
  <2>3. Min(S) \in S /\ \A n \in S : Min(S) <= n
    BY <2>2, MinIsLeast
  <2>4. Min(S) \in Nat /\ Min(S) <= t
    BY <2>2, <2>3
  <2>5. \A h \in l.hole : Min(S) < h
    <3> SUFFICES ASSUME NEW h \in l.hole PROVE Min(S) < h
      OBVIOUS
    <3>1. h \in Nat
      BY <2>1, NightAssumption
    <3>2. CASE h <= t
      <4>1. h - 1 \in S
        BY <3>2
      <4>2. Min(S) <= h - 1
        BY <4>1, <2>3
      <4> QED
        BY <4>2, <3>1, <2>4
    <3>3. CASE ~ h <= t
      BY <3>3, <3>1, <2>4, NightAssumption
    <3> QED
      BY <3>2, <3>3
  <2>6. Ceiling(l, t) = Min(S)
    BY <1>2 DEF Ceiling
  <2> HIDE DEF S
  <2>7. Min(S) \in 0..t /\ Min(S) \in 0..MaxMessage
    BY <2>4, NightAssumption
  <2> QED
    BY <2>5, <2>6, <2>7, <1>2 DEF NoCeiling
<1> QED
  BY <1>1, <1>2

\* The steps a run may be at are steps of the manifest.
LEMMA StepsNamed ==
  /\ Daily \in Step /\ Extract \in Step /\ Gc \in Step /\ Review \in Step
  /\ Daily # Review /\ Daily # Extract /\ Daily # Gc
  /\ Len(Order) \in Nat
  /\ \A i \in 1..Len(Order) : Order[i] \in Step
  /\ Prompted \subseteq Step /\ Daily \notin Prompted
<1> QED
  BY RulesAssumption DEF Step, Ordinary, Review, Daily, Extract, Gc

LEMMA CurrentIsStep == ASSUME TypeOK, InStep, Working PROVE Current \in Step
<1> QED
  BY StepsNamed DEF TypeOK, RunType, InStep, Working, Current

\* A lock stays one when a step of it takes another status.
LEMMA SetStep ==
  ASSUME NEW l \in LockType, NEW s \in Step, NEW v \in StepStatus
  PROVE  /\ [l EXCEPT !.step[s] = v] \in LockType
         /\ [l EXCEPT !.step[s] = v].step = [l.step EXCEPT ![s] = v]
         /\ [l EXCEPT !.step[s] = v].hole = l.hole
         /\ [l EXCEPT !.step[s] = v].acceptance = l.acceptance
<1> QED
  BY DEF LockType

LEMMA TypeParts ==
  ASSUME TypeOK
  PROVE  /\ run \in RunType /\ lock \in LockType /\ mem \in LockType
         /\ MaxMessage \in Nat /\ MaxFault \in Nat /\ MaxRun \in Nat /\ Rounds \in Nat \ {0}
         /\ Len(Order) \in Nat
<1> QED
  BY NightAssumption, StepsNamed DEF TypeOK

LEMMA BlankTypes == NoLock \in LockType /\ Idle \in RunType
<1>1. NoLock \in LockType
  BY DEF NoLock, LockType, StepStatus
<1>2. Idle \in RunType
  BY NightAssumption, StepsNamed DEF Idle, RunType, NoCeiling
<1> QED
  BY <1>1, <1>2

\* How a step that ends leaves the lock and the run.
LEMMA StepEnds ==
  ASSUME IInv, Working, NEW status \in StepStatus, NEW stops \in BOOLEAN,
         NEW m \in LockType, NEW r \in RunType, EndStep(status, stops, m, r),
         r.pc = run.pc, r.at = run.at, r.aborted = run.aborted
  PROVE  /\ lock' \in LockType /\ mem' = lock' /\ pidAlive' \in BOOLEAN /\ run' \in RunType
         /\ InStep' /\ AbortedIsUnwell' /\ Concluded'
         /\ lock'.hole = m.hole
         /\ lock'.step[Daily] = "ok" => m.step[Daily] = "ok" \/ (Current = Daily /\ status = "ok")
<1> DEFINE l == [m EXCEPT !.step[Current] = status]
<1>1. TypeOK /\ InStep /\ AbortedIsUnwell
  BY DEF IInv
<1>2. Current \in Step
  BY <1>1, CurrentIsStep
<1>3. /\ l \in LockType /\ l.hole = m.hole
      /\ l.step = [m.step EXCEPT ![Current] = status] /\ m.step \in [Step -> StepStatus]
  BY <1>2, SetStep DEF LockType
<1>4. lock' = l /\ mem' = l /\ pidAlive' = TRUE
  BY DEF EndStep, Write
<1> HIDE DEF l
<1>8. /\ lock' \in LockType /\ mem' = lock' /\ pidAlive' \in BOOLEAN /\ lock'.hole = m.hole
      /\ lock'.step[Daily] = "ok" => m.step[Daily] = "ok" \/ (Current = Daily /\ status = "ok")
  BY <1>2, <1>3, <1>4, StepsNamed
<1>5. CASE run.pc = "redo"
  <2>1. run' = [r EXCEPT !.pc = IF status = "ok" THEN "review" ELSE "verdict"]
    BY <1>5 DEF EndStep
  <2>2. run' \in RunType /\ run'.pc \in {"review", "verdict"} /\ run'.aborted = run.aborted
    BY <2>1 DEF RunType
  <2>3. ~run.aborted
    BY <1>1, <1>5 DEF AbortedIsUnwell
  <2> QED
    BY <1>8, <2>2, <2>3 DEF InStep, AbortedIsUnwell, Concluded
<1>6. CASE run.pc = "step" /\ status = "failed" /\ stops /\ Current \in Essential
  <2>1. run' = [r EXCEPT !.pc = "review"]
    BY <1>6 DEF EndStep
  <2>2. run' \in RunType /\ run'.pc = "review" /\ run'.aborted = run.aborted
    BY <2>1 DEF RunType
  <2>3. ~EssentialsOk'
    BY <1>2, <1>3, <1>4, <1>6 DEF EssentialsOk, FailedEssentials
  <2> QED
    BY <1>8, <2>2, <2>3 DEF InStep, AbortedIsUnwell, Concluded
<1>7. CASE run.pc = "step" /\ ~(status = "failed" /\ stops /\ Current \in Essential)
  <2>1. run' = [r EXCEPT !.pc = "loop", !.at = @ + 1]
    BY <1>7 DEF EndStep
  <2>2. r.at \in 1..Len(Order) /\ Len(Order) \in Nat
    BY <1>1, <1>7, StepsNamed DEF InStep
  <2>3. r.at + 1 \in 1..Len(Order) + 1
    BY <2>2
  <2>4. run' \in RunType /\ run'.pc = "loop" /\ run'.aborted = run.aborted
    BY <2>1, <2>3 DEF RunType
  <2> QED
    BY <1>8, <2>4 DEF InStep, AbortedIsUnwell, Concluded
<1> QED
  BY <1>5, <1>6, <1>7 DEF Working

\* A lock written from an earlier one claims no more than it.
From(l, old) == /\ l \in LockType
                /\ l.step[Daily] = "ok" => old.step[Daily] = "ok" /\ l.hole = old.hole

\* What a step that reads no message has to show: that the garbage only moves to
\* what is gone, that the locks come from those before, and what it leaves of the run.
LEMMA NoReadInv ==
  ASSUME IInv, UNCHANGED <<watermark, grouped, holes>>,
         now' \in 0..MaxMessage, runs' \in 0..MaxRun, faults' \in 0..MaxFault,
         marks' \subseteq Message, gone' \subseteq Message, gone \cup marks \subseteq gone' \cup marks',
         From(lock', lock) \/ From(lock', mem) \/ lock' = NoLock,
         From(mem', lock) \/ From(mem', mem) \/ mem' = NoLock,
         pidAlive' \in BOOLEAN, run' \in RunType, InStep', AbortedIsUnwell', Concluded'
  PROVE  IInv'
<1>1. TypeOK'
  BY BlankTypes DEF IInv, TypeOK, From
<1>2. HolesHeld'
  BY DEF IInv, HolesHeld
<1>3. HolesClaimed'
  BY StepsNamed DEF IInv, HolesClaimed, From, NoLock
<1> QED
  BY <1>1, <1>2, <1>3 DEF IInv

\* A step that ends without having read the messages.
LEMMA UnitInv ==
  ASSUME IInv, Working, NEW status \in StepStatus, NEW stops \in BOOLEAN,
         NEW r \in RunType, EndStep(status, stops, mem, r),
         r.pc = run.pc, r.at = run.at, r.aborted = run.aborted,
         ~(Current = Daily /\ status = "ok"),
         UNCHANGED <<now, disk, faults, runs, holes>>
  PROVE  IInv'
<1>1. /\ lock' \in LockType /\ mem' = lock' /\ pidAlive' \in BOOLEAN /\ run' \in RunType
      /\ InStep' /\ AbortedIsUnwell' /\ Concluded'
      /\ lock'.hole = mem.hole
      /\ lock'.step[Daily] = "ok" => mem.step[Daily] = "ok"
  BY StepEnds, TypeParts DEF IInv
<1>2. From(lock', mem) /\ From(mem', mem)
  BY <1>1 DEF From
<1> QED
  BY <1>1, <1>2, NoReadInv DEF IInv, TypeOK, disk

-----------------------------------------------------------------------------
(* The initial states satisfy it *)

LEMMA InitInv == Init => IInv
<1> SUFFICES ASSUME Init PROVE IInv
  OBVIOUS
<1>1. TypeOK
  <2>1. lock \in LockType /\ mem \in LockType /\ run \in RunType
    BY BlankTypes DEF Init
  <2>2. pidAlive \in BOOLEAN
    BY DEF Init
  <2>3. /\ now \in 0..MaxMessage /\ watermark \in 0..MaxMessage
        /\ faults \in 0..MaxFault /\ runs \in 0..MaxRun
    BY NightAssumption DEF Init
  <2>4. marks \subseteq Message /\ grouped \subseteq Message /\ gone \subseteq Message /\ holes \subseteq Message
    BY DEF Init
  <2> QED
    BY <2>1, <2>2, <2>3, <2>4 DEF TypeOK
<1>2. InStep /\ AbortedIsUnwell /\ Concluded /\ HolesHeld
  BY DEF Init, InStep, AbortedIsUnwell, Concluded, HolesHeld, Idle
<1>3. HolesClaimed
  BY DEF Init, HolesClaimed
<1> QED
  BY <1>1, <1>2, <1>3 DEF IInv

-----------------------------------------------------------------------------
(* Every step keeps it: the start and the loop *)

LEMMA BeginInv == ASSUME IInv, NEW fresh \in BOOLEAN, Begin(fresh) PROVE IInv'
<1> DEFINE resume == ~fresh /\ Resumable(lock, pidAlive)
           loaded == [lock EXCEPT !.status = "ongoing"]
           begun == [Idle EXCEPT !.pc = "loop", !.resume = resume, !.target = now,
                                 !.daily = resume /\ lock.step[Daily] = "ok" /\ lock.usable]
<1>1. mem' = loaded /\ run' = begun /\ lock' = lock
  BY DEF Begin
<1>2. From(loaded, lock)
  BY DEF IInv, TypeOK, From, LockType
<1>3. resume \in BOOLEAN /\ (resume /\ lock.step[Daily] = "ok" /\ lock.usable) \in BOOLEAN
  BY DEF Resumable
<1>4. begun \in RunType /\ begun.pc = "loop" /\ ~begun.aborted
  <2> HIDE DEF resume
  <2>1. now \in 0..MaxMessage
    BY DEF IInv, TypeOK
  <2> QED
    BY <1>3, <2>1, BlankTypes DEF RunType, Idle
<1>5. InStep' /\ AbortedIsUnwell' /\ Concluded'
  BY <1>1, <1>4 DEF InStep, AbortedIsUnwell, Concluded
<1>6. /\ marks' \subseteq Message /\ gone' \subseteq Message /\ gone \cup marks \subseteq gone' \cup marks'
      /\ runs' \in 0..MaxRun
  BY TypeParts DEF IInv, TypeOK, Begin
<1>7. UNCHANGED <<now, watermark, grouped, lock, pidAlive, faults, holes>>
  BY DEF Begin
<1>8. From(lock', lock)
  BY <1>1 DEF From, IInv, TypeOK
<1> HIDE DEF loaded, begun, resume
<1> QED
  BY <1>1, <1>2, <1>4, <1>5, <1>6, <1>7, <1>8, NoReadInv DEF IInv, TypeOK

\* A run that is suspended leaves the lock to the next one.
LEMMA SuspendedInv ==
  ASSUME IInv, Suspended, UNCHANGED <<now, disk, faults, runs, holes>> PROVE IInv'
<1>1. From([mem EXCEPT !.status = "suspended"], mem)
  BY DEF IInv, TypeOK, From, LockType
<1>2. From(lock', mem) /\ mem' = NoLock /\ run' = Idle /\ pidAlive' \in BOOLEAN
  BY <1>1 DEF Suspended
<1>3. InStep' /\ AbortedIsUnwell' /\ Concluded'
  BY <1>2 DEF InStep, AbortedIsUnwell, Concluded, Idle
<1> QED
  BY <1>2, <1>3, BlankTypes, NoReadInv DEF IInv, TypeOK, disk

LEMMA CancelInv == ASSUME IInv, Cancel PROVE IInv'
<1> QED
  BY SuspendedInv DEF Cancel

\* A step that leaves the locks alone is judged by what it makes of the run.
LEMMA RunOnlyInv ==
  ASSUME IInv, UNCHANGED <<now, disk, lock, pidAlive, mem, faults, runs, holes>>,
         run' \in RunType, InStep', AbortedIsUnwell', Concluded'
  PROVE  IInv'
<1>1. From(lock', lock) /\ From(mem', mem)
  BY DEF From, IInv, TypeOK
<1> QED
  BY <1>1, NoReadInv DEF IInv, TypeOK, disk

LEMMA StepsDoneInv == ASSUME IInv, StepsDone PROVE IInv'
<1>1. run' = ToReview /\ ~run.aborted
  BY DEF StepsDone
<1>2. run' \in RunType /\ run'.pc = "review" /\ ~run'.aborted
  BY <1>1, TypeParts DEF IInv, RunType, ToReview
<1>3. InStep' /\ AbortedIsUnwell' /\ Concluded'
  BY <1>2 DEF InStep, AbortedIsUnwell, Concluded
<1> QED
  BY <1>2, <1>3, RunOnlyInv DEF StepsDone

LEMMA BudgetSuspendInv == ASSUME IInv, BudgetSuspend PROVE IInv'
<1>1. run' = ToReview /\ ~run.aborted
  BY DEF BudgetSuspend, Ready
<1>2. run' \in RunType /\ run'.pc = "review" /\ ~run'.aborted
  BY <1>1, TypeParts DEF IInv, RunType, ToReview
<1>3. InStep' /\ AbortedIsUnwell' /\ Concluded'
  BY <1>2 DEF InStep, AbortedIsUnwell, Concluded
<1>4. From([mem EXCEPT !.status = "suspended"], mem)
  BY DEF IInv, TypeOK, From, LockType
<1>5. From(lock', mem) /\ From(mem', mem) /\ pidAlive' \in BOOLEAN
  BY <1>4 DEF BudgetSuspend, Write
<1>6. UNCHANGED <<now, disk, faults, runs, holes>>
  BY DEF BudgetSuspend
<1> QED
  BY <1>2, <1>3, <1>5, <1>6, NoReadInv DEF IInv, TypeOK, disk

\* The run is at a step of the manifest, and the one after it is one or the end.
LEMMA ReadyStep ==
  ASSUME IInv, Ready
  PROVE  /\ run.at \in 1..Len(Order) /\ Current \in Step
         /\ NextStep \in RunType /\ NextStep.pc = "loop" /\ NextStep.aborted = run.aborted
<1>1. run.at \in 1..Len(Order)
  BY TypeParts DEF IInv, Ready, RunType
<1>2. run.at + 1 \in 1..Len(Order) + 1
  BY <1>1, TypeParts DEF IInv
<1>3. Current \in Step
  BY <1>1, StepsNamed DEF Current, Ready
<1> QED
  BY <1>1, <1>2, <1>3, TypeParts DEF IInv, NextStep, RunType

LEMMA SkipSettledInv == ASSUME IInv, SkipSettled PROVE IInv'
<1>1. run' \in RunType /\ run'.pc = "loop"
  BY ReadyStep DEF SkipSettled
<1>2. InStep' /\ AbortedIsUnwell' /\ Concluded'
  BY <1>1 DEF InStep, AbortedIsUnwell, Concluded
<1> QED
  BY <1>1, <1>2, RunOnlyInv DEF SkipSettled

\* A step takes a status that vouches for nothing.
LEMMA MarkedFrom ==
  ASSUME NEW l \in LockType, NEW s \in Step, NEW v \in StepStatus, v # "ok"
  PROVE  From([l EXCEPT !.step[s] = v], l)
<1>1. l.step \in [Step -> StepStatus]
  BY DEF LockType
<1> QED
  BY <1>1, SetStep, StepsNamed DEF From

LEMMA SkipIneligibleInv == ASSUME IInv, SkipIneligible PROVE IInv'
<1>1. run' \in RunType /\ run'.pc = "loop"
  BY ReadyStep DEF SkipIneligible
<1>2. InStep' /\ AbortedIsUnwell' /\ Concluded'
  BY <1>1 DEF InStep, AbortedIsUnwell, Concluded
<1>3. From([mem EXCEPT !.step[Current] = "skipped"], mem)
  BY ReadyStep, TypeParts, MarkedFrom DEF SkipIneligible, StepStatus, IInv
<1>4. From(lock', mem) /\ From(mem', mem) /\ pidAlive' \in BOOLEAN
  BY <1>3 DEF SkipIneligible, Write
<1>5. UNCHANGED <<now, disk, faults, runs, holes>>
  BY DEF SkipIneligible
<1> QED
  BY <1>1, <1>2, <1>4, <1>5, NoReadInv DEF IInv, TypeOK, disk

LEMMA DispatchInv == ASSUME IInv, Dispatch PROVE IInv'
<1>1. run' = [run EXCEPT !.pc = "step"] /\ run.at \in 1..Len(Order)
  BY ReadyStep DEF Dispatch
<1>2. run' \in RunType /\ run'.pc = "step" /\ run'.at = run.at
  BY <1>1, TypeParts DEF IInv, RunType
<1>3. InStep' /\ AbortedIsUnwell' /\ Concluded'
  BY <1>1, <1>2 DEF InStep, AbortedIsUnwell, Concluded
<1>4. From([mem EXCEPT !.step[Current] = "pending"], mem)
  BY ReadyStep, TypeParts, MarkedFrom DEF Dispatch, StepStatus, IInv
<1>5. From(lock', mem) /\ From(mem', mem) /\ pidAlive' \in BOOLEAN
  BY <1>4 DEF Dispatch, Write
<1>6. UNCHANGED <<now, disk, faults, runs, holes>>
  BY DEF Dispatch
<1> QED
  BY <1>2, <1>3, <1>5, <1>6, NoReadInv DEF IInv, TypeOK, disk

-----------------------------------------------------------------------------
(* Every step keeps it: what a dispatched step comes to *)

LEMMA NoResponseInv == ASSUME IInv, NoResponse PROVE IInv'
<1> QED
  BY UnitInv, TypeParts DEF IInv, NoResponse, StepStatus

\* A run whose step was lost to the model, in the loop or under the review.
LEMMA ModelFailureInv == ASSUME IInv, ModelFailure PROVE IInv'
<1>1. PICK why \in {"provider", "other"} :
        LET m == [mem EXCEPT !.step[Current] = "failed"]
            r == [run EXCEPT !.terminal = why]
        IN IF run.pc = "redo"
           THEN /\ Write([m EXCEPT !.step[Review] = "ok", !.acceptance = "held"])
                /\ run' = [r EXCEPT !.pc = "judge"]
           ELSE Write(m) /\ run' = [r EXCEPT !.pc = "review"]
  BY DEF ModelFailure
<1> DEFINE m == [mem EXCEPT !.step[Current] = "failed"]
           r == [run EXCEPT !.terminal = why]
<1>2. Current \in Step /\ mem \in LockType /\ run \in RunType
  BY CurrentIsStep, TypeParts DEF IInv, ModelFailure
<1>3. m \in LockType /\ From(m, mem)
  BY <1>2, MarkedFrom, SetStep DEF StepStatus
<1>4. r \in RunType /\ r.terminal # "none"
  BY <1>2 DEF RunType
<1>5. UNCHANGED <<now, disk, faults, runs, holes>>
  BY DEF ModelFailure
<1>6. CASE run.pc = "redo"
  <2> DEFINE n == [m EXCEPT !.step[Review] = "ok"]
  <2>1. n \in LockType /\ n.hole = m.hole /\ n.step[Daily] = m.step[Daily]
    <3> HIDE DEF m
    <3>1. n \in LockType /\ n.hole = m.hole /\ n.step = [m.step EXCEPT ![Review] = "ok"]
      BY <1>3, SetStep, StepsNamed DEF StepStatus
    <3>2. m.step \in [Step -> StepStatus]
      BY <1>3 DEF LockType
    <3> HIDE DEF n
    <3> QED
      BY <3>1, <3>2, StepsNamed
  <2>2. Write([n EXCEPT !.acceptance = "held"]) /\ run' = [r EXCEPT !.pc = "judge"]
    BY <1>1, <1>6
  <2> HIDE DEF n, m, r
  <2>3. /\ lock' \in LockType /\ lock'.hole = n.hole /\ lock'.step = n.step
        /\ lock'.acceptance = "held" /\ mem' = lock' /\ pidAlive' \in BOOLEAN
    BY <2>1, <2>2 DEF LockType, Write
  <2>4. From(lock', mem) /\ From(mem', mem)
    BY <2>1, <2>3, <1>3 DEF From
  <2>5. run' \in RunType /\ run'.pc = "judge" /\ run'.terminal # "none"
    BY <2>2, <1>4 DEF RunType
  <2>6. InStep' /\ AbortedIsUnwell' /\ Concluded'
    BY <2>3, <2>5 DEF InStep, AbortedIsUnwell, Concluded
  <2> QED
    BY <2>3, <2>4, <2>5, <2>6, <1>5, NoReadInv DEF IInv, TypeOK, disk
<1>7. CASE run.pc # "redo"
  <2>1. Write(m) /\ run' = [r EXCEPT !.pc = "review"]
    BY <1>1, <1>7
  <2> HIDE DEF m, r
  <2>2. From(lock', mem) /\ From(mem', mem) /\ pidAlive' \in BOOLEAN
    BY <2>1, <1>3 DEF Write
  <2>3. run' \in RunType /\ run'.pc = "review" /\ run'.terminal # "none"
    BY <2>1, <1>4 DEF RunType
  <2>4. InStep' /\ AbortedIsUnwell' /\ Concluded'
    BY <2>3 DEF InStep, AbortedIsUnwell, Concluded
  <2> QED
    BY <2>2, <2>3, <2>4, <1>5, NoReadInv DEF IInv, TypeOK, disk
<1> QED
  BY <1>6, <1>7

LEMMA AbortedStepInv == ASSUME IInv, AbortedStep PROVE IInv'
<1> QED
  BY SuspendedInv DEF AbortedStep

\* The daily step reads all that waits above the watermark: the holes of before
\* are among it, and those of now are what it leaves.
LEMMA DailyDoneInv == ASSUME IInv, DailyDone PROVE IInv'
<1>1. PICK hole \in SUBSET (Unread \ {Min(Unread)}) :
        /\ EndStep("ok", FALSE, [mem EXCEPT !.covered = Unread \ hole, !.hole = hole, !.usable = TRUE],
                   [run EXCEPT !.daily = TRUE])
        /\ holes' = hole
  BY DEF DailyDone
<1> DEFINE m == [mem EXCEPT !.covered = Unread \ hole, !.hole = hole, !.usable = TRUE]
           r == [run EXCEPT !.daily = TRUE]
<1>2. Unread \subseteq Message /\ \A u \in Unread : u > watermark
  BY TypeParts DEF IInv, TypeOK, Unread, Here, Message
<1>3. m \in LockType /\ m.hole = hole
  <2> HIDE DEF Unread
  <2> QED
    BY <1>2, TypeParts DEF IInv, LockType
<1>4. r \in RunType /\ r.pc = run.pc /\ r.at = run.at /\ r.aborted = run.aborted
  BY TypeParts DEF IInv, RunType
<1> HIDE DEF m, r
<1>5. /\ lock' \in LockType /\ mem' = lock' /\ pidAlive' \in BOOLEAN /\ run' \in RunType
      /\ InStep' /\ AbortedIsUnwell' /\ Concluded'
      /\ lock'.hole = hole
  BY <1>1, <1>3, <1>4, StepEnds DEF DailyDone, StepStatus, m, r
<1>6. UNCHANGED <<now, disk, faults, runs>> /\ holes' = hole /\ hole \subseteq Unread
  BY <1>1 DEF DailyDone
<1>7. TypeOK'
  BY <1>2, <1>5, <1>6 DEF IInv, TypeOK, disk
<1>8. HolesClaimed'
  BY <1>5, <1>6 DEF HolesClaimed, disk
<1>9. HolesHeld'
  BY <1>2, <1>6 DEF HolesHeld, disk
<1> QED
  BY <1>5, <1>7, <1>8, <1>9 DEF IInv

LEMMA DailyNothingInv == ASSUME IInv, DailyNothing PROVE IInv'
<1> QED
  BY UnitInv, TypeParts DEF IInv, DailyNothing, StepStatus

LEMMA GcDoneInv == ASSUME IInv, GcDone PROVE IInv'
<1>1. PICK chosen \in {{}} \cup {{m} : m \in Here} :
        /\ marks' = marks \cup chosen
        /\ EndStep("ok", FALSE, mem, [run EXCEPT !.gc = chosen])
  BY DEF GcDone
<1> DEFINE r == [run EXCEPT !.gc = chosen]
<1>2. chosen \subseteq Message
  BY TypeParts DEF Here, Message, IInv, TypeOK
<1>3. r \in RunType /\ r.pc = run.pc /\ r.at = run.at /\ r.aborted = run.aborted
  BY <1>2, TypeParts DEF IInv, RunType
<1> HIDE DEF r
<1>4. Working /\ Current # Daily
  BY StepsNamed DEF GcDone
<1>5. /\ lock' \in LockType /\ mem' = lock' /\ pidAlive' \in BOOLEAN /\ run' \in RunType
      /\ InStep' /\ AbortedIsUnwell' /\ Concluded'
      /\ lock'.hole = mem.hole
      /\ lock'.step[Daily] = "ok" => mem.step[Daily] = "ok"
  BY <1>1, <1>3, <1>4, StepEnds, TypeParts DEF StepStatus, IInv, r
<1>6. From(lock', mem) /\ From(mem', mem)
  BY <1>5 DEF From
<1>7. marks' \subseteq Message /\ gone \cup marks \subseteq gone' \cup marks'
  BY <1>1, <1>2 DEF IInv, TypeOK, GcDone
<1>8. UNCHANGED <<now, watermark, grouped, gone, faults, runs, holes>>
  BY DEF GcDone
<1> QED
  BY <1>5, <1>6, <1>7, <1>8, NoReadInv DEF IInv, TypeOK

LEMMA ExtractInv == ASSUME IInv, ExtractBlocked \/ ExtractNothing PROVE IInv'
<1>1. Current # Daily
  BY StepsNamed DEF ExtractBlocked, ExtractNothing
<1>2. CASE ExtractBlocked
  BY <1>1, <1>2, UnitInv, TypeParts DEF IInv, ExtractBlocked, StepStatus
<1>3. CASE ExtractNothing
  BY <1>1, <1>3, UnitInv, TypeParts DEF IInv, ExtractNothing, StepStatus
<1> QED
  BY <1>2, <1>3

LEMMA ExtractDoneInv == ASSUME IInv, ExtractDone PROVE IInv'
<1>1. Current # Daily /\ Working
  BY StepsNamed DEF ExtractDone
<1> DEFINE r == [run EXCEPT !.extracted = TRUE]
<1>2. r \in RunType /\ r.pc = run.pc /\ r.at = run.at /\ r.aborted = run.aborted
  BY TypeParts DEF IInv, RunType
<1>3. EndStep("ok", FALSE, mem, r) /\ UNCHANGED <<now, disk, faults, runs, holes>>
  BY DEF ExtractDone
<1> HIDE DEF r
<1> QED
  BY <1>1, <1>2, <1>3, UnitInv DEF StepStatus

LEMMA PromptInv == ASSUME IInv, PromptDone \/ PromptNothing \/ StepFails PROVE IInv'
<1>1. Current # Daily
  BY StepsNamed DEF PromptDone, PromptNothing, StepFails
<1>2. CASE PromptDone
  BY <1>1, <1>2, UnitInv, TypeParts DEF IInv, PromptDone, StepStatus
<1>3. CASE PromptNothing
  BY <1>1, <1>3, UnitInv, TypeParts DEF IInv, PromptNothing, StepStatus
<1>4. CASE StepFails
  BY <1>1, <1>4, UnitInv, TypeParts DEF IInv, StepFails, StepStatus
<1> QED
  BY <1>2, <1>3, <1>4

-----------------------------------------------------------------------------
(* Every step keeps it: the final review *)

LEMMA ConcludeInv ==
  ASSUME IInv, NEW acceptance \in {"held", "accepted"}, NEW status \in {"ok", "failed"},
         NEW r \in RunType, ~r.aborted, Conclude(acceptance, status, mem, r),
         UNCHANGED <<now, disk, faults, runs, holes>>
  PROVE  IInv'
<1> DEFINE n == [mem EXCEPT !.step[Review] = status]
<1>1. n \in LockType /\ n.hole = mem.hole /\ n.step = [mem.step EXCEPT ![Review] = status]
  <2>1. mem \in LockType /\ Review \in Step /\ status \in StepStatus
    BY TypeParts, StepsNamed DEF StepStatus, IInv
  <2> QED
    BY <2>1, SetStep
<1>2. mem.step \in [Step -> StepStatus]
  BY TypeParts DEF LockType, IInv
<1>3. /\ Write([n EXCEPT !.acceptance = acceptance])
      /\ run' = [r EXCEPT !.pc = "judge", !.accepted = acceptance = "accepted"]
  BY DEF Conclude
<1> HIDE DEF n
<1>4. /\ lock' \in LockType /\ lock'.hole = n.hole /\ lock'.step = n.step
      /\ lock'.acceptance = acceptance /\ mem' = lock' /\ pidAlive' \in BOOLEAN
  BY <1>1, <1>3 DEF LockType, Write
<1>5. From(lock', mem) /\ From(mem', mem)
  BY <1>1, <1>2, <1>4, StepsNamed DEF From
<1>6. /\ run' \in RunType /\ run'.pc = "judge" /\ ~run'.aborted
      /\ run'.accepted <=> acceptance = "accepted"
  <2>1. (acceptance = "accepted") \in BOOLEAN
    OBVIOUS
  <2> QED
    BY <1>3, <2>1 DEF RunType
<1>7. InStep' /\ AbortedIsUnwell' /\ Concluded'
  BY <1>4, <1>6 DEF InStep, AbortedIsUnwell, Concluded
<1> QED
  BY <1>4, <1>5, <1>6, <1>7, NoReadInv DEF IInv, TypeOK, disk

LEMMA NoReviewInv == ASSUME IInv, NoReview PROVE IInv'
<1>1. run' = [run EXCEPT !.pc = "judge"] /\ UNCHANGED <<now, disk, faults, runs, holes>>
  BY DEF NoReview
<1>2. run' \in RunType /\ run'.pc = "judge" /\ run'.aborted = run.aborted /\ run'.terminal = run.terminal
  BY <1>1, TypeParts DEF IInv, RunType
<1>3. InStep'
  BY <1>2 DEF InStep
<1>4. CASE run.aborted
  <2>1. UNCHANGED <<lock, pidAlive, mem>>
    BY <1>4 DEF NoReview
  <2>2. AbortedIsUnwell' /\ Concluded'
    BY <1>2, <1>4, <2>1 DEF IInv, NoReview, AbortedIsUnwell, Concluded, EssentialsOk
  <2> QED
    BY <1>1, <1>2, <1>3, <2>1, <2>2, RunOnlyInv DEF disk
<1>5. CASE ~run.aborted
  <2>1. Write([mem EXCEPT !.acceptance = "held"])
    BY <1>5 DEF NoReview
  <2>2. [mem EXCEPT !.acceptance = "held"].acceptance = "held" /\ From([mem EXCEPT !.acceptance = "held"], mem)
    BY TypeParts DEF IInv, From, LockType
  <2>3. From(lock', mem) /\ From(mem', mem) /\ pidAlive' \in BOOLEAN /\ mem'.acceptance = "held"
    BY <2>1, <2>2 DEF Write
  <2>4. AbortedIsUnwell' /\ Concluded'
    BY <1>2, <1>5, <2>3 DEF AbortedIsUnwell, Concluded
  <2> QED
    BY <1>1, <1>2, <1>3, <2>3, <2>4, NoReadInv DEF IInv, TypeOK, disk
<1> QED
  BY <1>4, <1>5

LEMMA ReviewUnheardInv == ASSUME IInv, ReviewUnheard PROVE IInv'
<1> QED
  BY ConcludeInv, TypeParts DEF IInv, ReviewUnheard, Reviewing

LEMMA ReviewFailsInv == ASSUME IInv, ReviewFails PROVE IInv'
<1>1. PICK why \in {run.terminal, "provider", "other"} :
        Conclude("held", "failed", mem, [run EXCEPT !.terminal = why])
  BY DEF ReviewFails
<1> DEFINE r == [run EXCEPT !.terminal = why]
<1>2. r \in RunType /\ r.aborted = run.aborted
  BY TypeParts DEF IInv, RunType
<1>3. Conclude("held", "failed", mem, r)
  BY <1>1
<1> HIDE DEF r
<1> QED
  BY <1>2, <1>3, ConcludeInv DEF ReviewFails, Reviewing

LEMMA ReviewAcceptsInv == ASSUME IInv, ReviewAccepts \/ RetryFailed PROVE IInv'
<1>1. PICK downgraded, footer \in BOOLEAN :
        Conclude(IF Accepted(mem.step, downgraded) /\ footer THEN "accepted" ELSE "held", "ok", mem, run)
  BY DEF ReviewAccepts, RetryFailed
<1>2. ~run.aborted
  BY DEF IInv, ReviewAccepts, RetryFailed, Heard, Reviewing, AbortedIsUnwell
<1>3. UNCHANGED <<now, disk, faults, runs, holes>>
  BY DEF ReviewAccepts, RetryFailed
<1>4. CASE Accepted(mem.step, downgraded) /\ footer
  <2>1. Conclude("accepted", "ok", mem, run)
    BY <1>1, <1>4
  <2> QED
    BY <1>2, <1>3, <2>1, ConcludeInv, TypeParts DEF IInv
<1>5. CASE ~(Accepted(mem.step, downgraded) /\ footer)
  <2>1. Conclude("held", "ok", mem, run)
    BY <1>1, <1>5
  <2> QED
    BY <1>2, <1>3, <2>1, ConcludeInv, TypeParts DEF IInv
<1> QED
  BY <1>4, <1>5

\* A round that is heard leaves the run in its review or sends it to a step.
LEMMA ReviewRepairsInv == ASSUME IInv, ReviewRepairs PROVE IInv'
<1>1. PICK flipped \in SUBSET {s \in Prompted : mem.step[s] = "failed"} :
        Write([mem EXCEPT !.step = [s \in Step |-> IF s \in flipped THEN "ok" ELSE @[s]]])
  BY DEF ReviewRepairs
<1> DEFINE step == [s \in Step |-> IF s \in flipped THEN "ok" ELSE mem.step[s]]
<1>2. step \in [Step -> StepStatus] /\ step[Daily] = mem.step[Daily]
  BY TypeParts, StepsNamed DEF IInv, LockType, StepStatus
<1>3. Write([mem EXCEPT !.step = step])
  BY <1>1
<1> HIDE DEF step
<1>4. [mem EXCEPT !.step = step] \in LockType /\ From([mem EXCEPT !.step = step], mem)
  BY <1>2, TypeParts DEF IInv, LockType, From
<1>5. From(lock', mem) /\ From(mem', mem) /\ pidAlive' \in BOOLEAN
  BY <1>3, <1>4 DEF Write
<1>6. run' = [run EXCEPT !.round = @ + 1] /\ run.pc = "review" /\ ~run.aborted /\ run.round < Rounds
  BY DEF ReviewRepairs, Heard, Reviewing
<1>7. run.round + 1 \in 0..Rounds
  BY <1>6, TypeParts DEF IInv, RunType
<1>8. run' \in RunType /\ run'.pc = "review" /\ ~run'.aborted
  BY <1>6, <1>7, TypeParts DEF IInv, RunType
<1>9. InStep' /\ AbortedIsUnwell' /\ Concluded'
  BY <1>8 DEF InStep, AbortedIsUnwell, Concluded
<1>10. UNCHANGED <<now, disk, faults, runs, holes>>
  BY DEF ReviewRepairs
<1> QED
  BY <1>5, <1>8, <1>9, <1>10, NoReadInv DEF IInv, TypeOK, disk

LEMMA ReviewRetriesInv == ASSUME IInv, ReviewRetries PROVE IInv'
<1>1. PICK s \in Retried : run' = [run EXCEPT !.pc = "redo", !.redo = s, !.round = @ + 1]
  BY DEF ReviewRetries
<1>2. s \in Step
  BY NightAssumption DEF Step
<1>3. run.pc = "review" /\ ~run.aborted /\ run.round < Rounds
  BY DEF ReviewRetries, Heard, Reviewing
<1>4. run.round + 1 \in 0..Rounds
  BY <1>3, TypeParts DEF IInv, RunType
<1>5. run' \in RunType /\ run'.pc = "redo" /\ ~run'.aborted
  BY <1>1, <1>2, <1>3, <1>4, TypeParts DEF IInv, RunType
<1>6. InStep' /\ AbortedIsUnwell' /\ Concluded'
  BY <1>5 DEF InStep, AbortedIsUnwell, Concluded
<1> QED
  BY <1>5, <1>6, RunOnlyInv DEF ReviewRetries

-----------------------------------------------------------------------------
(* Every step keeps it: the settlement *)

LEMMA JudgeInv == ASSUME IInv, Judge PROVE IInv'
<1>1. PICK worthless \in SUBSET {s \in {Daily, Extract} : mem.step[s] = "ok"} :
        LET step == [s \in Step |-> IF s \in worthless THEN "failed" ELSE mem.step[s]]
            fails == run.terminal # "none" \/ FailedEssentials(step) # {}
        IN Write([mem EXCEPT !.step = step,
                             !.status = IF @ # "ongoing" THEN @ ELSE IF fails THEN "failed" ELSE "completed"])
  BY DEF Judge
<1> DEFINE step == [s \in Step |-> IF s \in worthless THEN "failed" ELSE mem.step[s]]
           fails == run.terminal # "none" \/ FailedEssentials(step) # {}
           status == IF mem.status # "ongoing" THEN mem.status ELSE IF fails THEN "failed" ELSE "completed"
           judged == [mem EXCEPT !.step = step, !.status = status]
<1>2. mem \in LockType /\ mem.step \in [Step -> StepStatus]
  BY TypeParts DEF IInv, LockType
<1>3. /\ step \in [Step -> StepStatus]
      /\ step[Daily] = "ok" => mem.step[Daily] = "ok"
      /\ FailedEssentials(mem.step) # {} => FailedEssentials(step) # {}
  <2>1. step[Daily] = "ok" => mem.step[Daily] = "ok"
    BY <1>2, StepsNamed
  <2>2. \A s \in Step : step[s] \in {mem.step[s], "failed"}
    OBVIOUS
  <2>3. Essential \subseteq Step
    BY RulesAssumption DEF Step
  <2>4. step \in [Step -> StepStatus]
    BY <1>2 DEF StepStatus
  <2> HIDE DEF step
  <2> QED
    BY <2>1, <2>2, <2>3, <2>4 DEF FailedEssentials
<1>4. status \in {"none", "ongoing", "suspended", "failed", "completed"}
  BY <1>2 DEF LockType
<1>5. Write(judged)
  BY <1>1
<1> HIDE DEF step, fails, status
<1>6. /\ judged \in LockType /\ judged.step = step /\ judged.hole = mem.hole
      /\ judged.acceptance = mem.acceptance
  BY <1>2, <1>3, <1>4 DEF LockType
<1> HIDE DEF judged
<1>7. /\ From(lock', mem) /\ From(mem', mem) /\ pidAlive' \in BOOLEAN
      /\ mem'.step = step /\ mem'.acceptance = mem.acceptance
  BY <1>3, <1>5, <1>6 DEF From, Write
<1>8. run' = [run EXCEPT !.pc = "advance"] /\ run.pc = "judge"
  BY DEF Judge
<1>9. /\ run' \in RunType /\ run'.pc = "advance" /\ run'.aborted = run.aborted
      /\ run'.terminal = run.terminal /\ run'.accepted = run.accepted
  BY <1>8, TypeParts DEF IInv, RunType
<1>10. InStep'
  BY <1>9 DEF InStep
<1>11. AbortedIsUnwell'
  BY <1>3, <1>7, <1>8, <1>9 DEF IInv, AbortedIsUnwell, EssentialsOk
<1>12. Concluded'
  BY <1>7, <1>8, <1>9 DEF IInv, Concluded
<1>13. UNCHANGED <<now, disk, faults, runs, holes>>
  BY DEF Judge
<1> QED
  BY <1>7, <1>9, <1>10, <1>11, <1>12, <1>13, NoReadInv DEF IInv, TypeOK, disk

\* The watermark stops below the holes that the lock names.
LEMMA AdvanceInv == ASSUME IInv, Advance PROVE IInv'
<1> DEFINE ceiling == Ceiling(mem, run.target)
<1>1. mem \in LockType /\ run \in RunType /\ run.target \in 0..MaxMessage /\ MaxMessage \in Nat
  BY TypeParts DEF IInv, RunType
<1>2. /\ ceiling \in {NoCeiling} \cup 0..MaxMessage
      /\ ceiling # NoCeiling =>
           mem.step[Daily] = "ok" /\ ceiling \in 0..run.target /\ \A h \in mem.hole : ceiling < h
  BY <1>1, CeilingBelowHoles
<1>3. run.pc = "advance" /\ UNCHANGED <<now, marks, gone, lock, pidAlive, mem, faults, runs, holes>>
  BY DEF Advance
<1>4. CASE /\ MayAdvance /\ ceiling # NoCeiling
           /\ \E G \in SUBSET {m \in Here : m <= ceiling} : grouped' = grouped \cup G
           /\ watermark' = Max({watermark, ceiling})
           /\ run' = [run EXCEPT !.pc = "flush", !.covered = ceiling]
  <2> HIDE DEF ceiling
  <2>1. /\ run' \in RunType /\ run'.pc = "flush" /\ run'.aborted = run.aborted
        /\ run'.terminal = run.terminal /\ run'.accepted = run.accepted
    BY <1>1, <1>2, <1>4 DEF RunType
  <2>2. ceiling \in 0..MaxMessage /\ watermark \in 0..MaxMessage
    BY <1>2, <1>4 DEF IInv, TypeOK
  <2>3. watermark' = IF watermark >= ceiling THEN watermark ELSE ceiling
    BY <1>1, <1>4, <2>2, MaxOfTwo
  <2>4. grouped' \subseteq Message
    BY <1>1, <1>4 DEF Here, Message, IInv, TypeOK
  <2>5. TypeOK'
    BY <1>3, <2>1, <2>2, <2>3, <2>4 DEF IInv, TypeOK
  <2>6. HolesClaimed'
    BY <1>3 DEF IInv, HolesClaimed
  <2>7. \A h \in holes \ (gone \cup marks) : h \in mem.hole /\ h > watermark
    BY <1>2, <1>4 DEF IInv, HolesClaimed, HolesHeld
  <2>8. HolesHeld'
    BY <1>1, <1>2, <1>3, <1>4, <2>3, <2>7 DEF HolesHeld
  <2>9. InStep' /\ AbortedIsUnwell' /\ Concluded'
    BY <1>3, <2>1 DEF IInv, InStep, AbortedIsUnwell, Concluded, EssentialsOk
  <2> QED
    BY <2>5, <2>6, <2>8, <2>9 DEF IInv
<1>5. CASE run' = [run EXCEPT !.pc = "flush"] /\ UNCHANGED <<watermark, grouped>>
  <2>1. /\ run' \in RunType /\ run'.pc = "flush" /\ run'.aborted = run.aborted
        /\ run'.terminal = run.terminal /\ run'.accepted = run.accepted
    BY <1>1, <1>5 DEF RunType
  <2>2. InStep' /\ AbortedIsUnwell' /\ Concluded'
    BY <1>3, <2>1 DEF IInv, InStep, AbortedIsUnwell, Concluded, EssentialsOk
  <2> QED
    BY <1>3, <1>5, <2>1, <2>2, RunOnlyInv DEF disk
<1> QED
  BY <1>4, <1>5 DEF Advance

LEMMA FlushInv == ASSUME IInv, Flush PROVE IInv'
<1>1. run' = Idle /\ mem' = NoLock /\ UNCHANGED <<now, watermark, grouped, lock, pidAlive, faults, runs, holes>>
  BY DEF Flush
<1>2. marks' \subseteq Message /\ gone' \subseteq Message /\ gone \cup marks \subseteq gone' \cup marks'
  BY DEF IInv, TypeOK, Flush, Prunable
<1>3. InStep' /\ AbortedIsUnwell' /\ Concluded'
  BY <1>1 DEF InStep, AbortedIsUnwell, Concluded, Idle
<1>4. From(lock', lock)
  BY <1>1 DEF From, IInv, TypeOK
<1> QED
  BY <1>1, <1>2, <1>3, <1>4, BlankTypes, NoReadInv DEF IInv, TypeOK

-----------------------------------------------------------------------------
(* Every step keeps it: what happens around a run *)

LEMMA ArriveInv == ASSUME IInv, Arrive PROVE IInv'
<1>1. now' \in 0..MaxMessage
  BY TypeParts DEF IInv, TypeOK, Arrive
<1>2. UNCHANGED <<disk, lock, pidAlive, mem, run, faults, runs, holes>>
  BY DEF Arrive
<1>3. InStep' /\ AbortedIsUnwell' /\ Concluded'
  BY <1>2 DEF IInv, InStep, AbortedIsUnwell, Concluded, EssentialsOk
<1>4. From(lock', lock) /\ From(mem', mem)
  BY <1>2 DEF IInv, TypeOK, From
<1> QED
  BY <1>1, <1>2, <1>3, <1>4, NoReadInv DEF IInv, TypeOK, disk

LEMMA AbortInv == ASSUME IInv, Abort PROVE IInv'
<1>1. run' = [run EXCEPT !.aborted = TRUE] /\ run.pc \in {"loop", "step"}
  BY DEF Abort
<1>2. run' \in RunType /\ run'.pc = run.pc /\ run'.at = run.at
  BY <1>1, TypeParts DEF IInv, RunType
<1>3. InStep' /\ AbortedIsUnwell' /\ Concluded'
  BY <1>1, <1>2 DEF IInv, InStep, AbortedIsUnwell, Concluded
<1> QED
  BY <1>2, <1>3, RunOnlyInv DEF Abort

LEMMA NewDayInv == ASSUME IInv, NewDay PROVE IInv'
<1>1. lock' = NoLock /\ pidAlive' \in BOOLEAN /\ UNCHANGED <<now, disk, mem, run, faults, runs, holes>>
  BY DEF NewDay
<1>2. InStep' /\ AbortedIsUnwell' /\ Concluded'
  BY <1>1 DEF IInv, InStep, AbortedIsUnwell, Concluded, EssentialsOk
<1>3. From(mem', mem)
  BY <1>1 DEF IInv, TypeOK, From
<1> QED
  BY <1>1, <1>2, <1>3, NoReadInv DEF IInv, TypeOK, disk

LEMMA LoseArtifactInv == ASSUME IInv, LoseArtifact PROVE IInv'
<1>1. lock' = [lock EXCEPT !.usable = FALSE] /\ UNCHANGED <<now, disk, pidAlive, mem, run, faults, runs, holes>>
  BY DEF LoseArtifact
<1>2. InStep' /\ AbortedIsUnwell' /\ Concluded'
  BY <1>1 DEF IInv, InStep, AbortedIsUnwell, Concluded, EssentialsOk
<1>3. From(lock', lock) /\ From(mem', mem)
  BY <1>1 DEF IInv, TypeOK, From, LockType
<1> QED
  BY <1>1, <1>2, <1>3, NoReadInv DEF IInv, TypeOK, disk

\* A run that dies or throws leaves the lock it wrote last.
LEMMA FaultInv == ASSUME IInv, Crash \/ Throw PROVE IInv'
<1>0. run' = Idle /\ mem' = NoLock /\ UNCHANGED <<now, disk, lock, runs, holes>>
  BY DEF Crash, Throw
<1>1. pidAlive' \in BOOLEAN /\ faults' \in 0..MaxFault
  <2>1. faults' = faults + 1 /\ faults < MaxFault
    BY DEF Crash, Throw
  <2>2. faults' \in 0..MaxFault
    BY <2>1, TypeParts DEF IInv, TypeOK
  <2>3. pidAlive' = FALSE \/ pidAlive' = pidAlive
    BY DEF Crash, Throw
  <2>4. pidAlive' \in BOOLEAN
    BY <2>3 DEF IInv, TypeOK
  <2> QED
    BY <2>2, <2>4
<1>2. InStep' /\ AbortedIsUnwell' /\ Concluded'
  BY <1>0 DEF InStep, AbortedIsUnwell, Concluded, Idle
<1>3. From(lock', lock)
  BY <1>0 DEF IInv, TypeOK, From
<1> QED
  BY <1>0, <1>1, <1>2, <1>3, BlankTypes, NoReadInv DEF IInv, TypeOK, disk

LEMMA StutterInv == ASSUME IInv, UNCHANGED vars PROVE IInv'
<1> QED
  BY DEF IInv, TypeOK, InStep, HolesClaimed, AbortedIsUnwell, Concluded, HolesHeld,
         EssentialsOk, vars, disk

LEMMA StepInv == IInv /\ [Next]_vars => IInv'
<1> SUFFICES ASSUME IInv, [Next]_vars PROVE IInv'
  OBVIOUS
<1>1. CASE Loop
  BY <1>1, StepsDoneInv, BudgetSuspendInv, SkipSettledInv, SkipIneligibleInv, DispatchInv, CancelInv DEF Loop
<1>2. CASE Unit
  BY <1>2, NoResponseInv, ModelFailureInv, AbortedStepInv, DailyDoneInv, DailyNothingInv, GcDoneInv,
     ExtractInv, ExtractDoneInv, PromptInv DEF Unit
<1>3. CASE FinalReview
  BY <1>3, NoReviewInv, ReviewUnheardInv, ReviewFailsInv, ReviewAcceptsInv, ReviewRepairsInv,
     ReviewRetriesInv DEF FinalReview
<1>4. CASE Settlement
  BY <1>4, JudgeInv, AdvanceInv, FlushInv DEF Settlement
<1>5. CASE \E fresh \in BOOLEAN : Begin(fresh)
  BY <1>5, BeginInv
<1>6. CASE Arrive \/ Abort \/ NewDay \/ LoseArtifact \/ Crash \/ Throw
  BY <1>6, ArriveInv, AbortInv, NewDayInv, LoseArtifactInv, FaultInv
<1>7. CASE UNCHANGED vars
  BY <1>7, StutterInv
<1> QED
  BY <1>1, <1>2, <1>3, <1>4, <1>5, <1>6, <1>7 DEF Next, Proceed

LEMMA Invariant == Spec => []IInv
<1> QED
  BY InitInv, StepInv, PTL DEF Spec

-----------------------------------------------------------------------------
(* The results *)

\* The state of a night has its types.
THEOREM TypesHold == Spec => []TypeOK
<1>1. IInv => TypeOK
  BY DEF IInv
<1> QED
  BY <1>1, Invariant, PTL

\* No message that a daily summary reported unclaimed falls under the watermark
\* before a later one read it, over any number of runs, resumptions and deaths
\* (coverageCeilingTs(), settleSleepRun()).
THEOREM HolesStay == Spec => []HolesHeld
<1>1. IInv => HolesHeld
  BY DEF IInv
<1> QED
  BY <1>1, Invariant, PTL

\* The lock vouches for a daily summary only with the holes of the last one, so
\* a resumed run that keeps the claims of an earlier one keeps its holes too
\* (isResumableSleepState(), DailySummaryProcessor).
THEOREM ClaimsNameHoles == Spec => []HolesClaimed
<1>1. IInv => HolesClaimed
  BY DEF IInv
<1> QED
  BY <1>1, Invariant, PTL

\* Which steps move what is deleted and the watermark.
LEMMA GoneMoves ==
  ASSUME [Next]_vars, gone' # gone
  PROVE  Flush \/ \E fresh \in BOOLEAN : Begin(fresh)
<1>1. CASE Loop
  BY <1>1 DEF Loop, StepsDone, BudgetSuspend, SkipSettled, SkipIneligible, Dispatch, Cancel, disk
<1>2. CASE Unit
  BY <1>2 DEF Unit, NoResponse, ModelFailure, AbortedStep, DailyDone, DailyNothing, GcDone, ExtractBlocked,
              ExtractNothing, ExtractDone, PromptDone, PromptNothing, StepFails, disk
<1>3. CASE FinalReview
  BY <1>3 DEF FinalReview, NoReview, ReviewUnheard, ReviewFails, ReviewAccepts, ReviewRepairs, ReviewRetries,
              RetryFailed, disk
<1>4. CASE Judge \/ Advance
  BY <1>4 DEF Judge, Advance, disk
<1>5. CASE Arrive \/ Abort \/ NewDay \/ LoseArtifact \/ Crash \/ Throw
  BY <1>5 DEF Arrive, Abort, NewDay, LoseArtifact, Crash, Throw, disk
<1>6. CASE UNCHANGED vars
  BY <1>6 DEF vars, disk
<1> QED
  BY <1>1, <1>2, <1>3, <1>4, <1>5, <1>6 DEF Next, Proceed, Settlement

LEMMA WatermarkMoves == ASSUME [Next]_vars, watermark' # watermark PROVE Advance
<1>1. CASE Loop
  BY <1>1 DEF Loop, StepsDone, BudgetSuspend, SkipSettled, SkipIneligible, Dispatch, Cancel, disk
<1>2. CASE Unit
  BY <1>2 DEF Unit, NoResponse, ModelFailure, AbortedStep, DailyDone, DailyNothing, GcDone, ExtractBlocked,
              ExtractNothing, ExtractDone, PromptDone, PromptNothing, StepFails, disk
<1>3. CASE FinalReview
  BY <1>3 DEF FinalReview, NoReview, ReviewUnheard, ReviewFails, ReviewAccepts, ReviewRepairs, ReviewRetries,
              RetryFailed, disk
<1>4. CASE Judge \/ Flush \/ \E fresh \in BOOLEAN : Begin(fresh)
  BY <1>4 DEF Judge, Flush, Begin, disk
<1>5. CASE Arrive \/ Abort \/ NewDay \/ LoseArtifact \/ Crash \/ Throw
  BY <1>5 DEF Arrive, Abort, NewDay, LoseArtifact, Crash, Throw, disk
<1>6. CASE UNCHANGED vars
  BY <1>6 DEF vars, disk
<1> QED
  BY <1>1, <1>2, <1>3, <1>4, <1>5, <1>6 DEF Next, Proceed, Settlement

\* What is deleted was chosen as garbage before, or an episode keeps it and the
\* watermark had passed it (flushOldMessages(), runPreSleepTasks()).
THEOREM PrunedIsKept == Spec => PrunedWasKept
<1>1. ASSUME [Next]_vars
      PROVE  [\A m \in gone' \ gone : m \in marks \/ (m \in grouped /\ m <= watermark)]_vars
  <2>1. CASE Flush
    BY <2>1 DEF Flush, Prunable
  <2>2. CASE \E fresh \in BOOLEAN : Begin(fresh)
    BY <2>2 DEF Begin
  <2> QED
    BY <1>1, <2>1, <2>2, GoneMoves
<1> QED
  BY <1>1, PTL DEF Spec, PrunedWasKept

\* Only a run that its own review accepted, and that nobody aborted, moves the
\* watermark or deletes messages: what an earlier run of the day left in the lock
\* serves no other (settleSleepRun()).
THEOREM OwnReviewSettles == Spec => SettledByItsReview
<1>1. ASSUME IInv, [Next]_vars
      PROVE  [(watermark' # watermark \/ (gone' # gone /\ run.pc = "flush")) => run.accepted /\ ~run.aborted]_vars
  <2>1. ASSUME watermark' # watermark PROVE run.accepted /\ ~run.aborted
    <3>1. Advance
      BY <1>1, <2>1, WatermarkMoves
    <3> QED
      BY <1>1, <2>1, <3>1 DEF Advance, MayAdvance, IInv, Concluded
  <2>2. ASSUME gone' # gone, run.pc = "flush" PROVE run.accepted /\ ~run.aborted
    <3>1. Flush
      BY <1>1, <2>2, GoneMoves DEF Begin
    <3>2. EssentialsOk /\ run.terminal = "none" /\ mem.acceptance = "accepted"
      BY <2>2, <3>1 DEF Flush
    <3> QED
      BY <1>1, <2>2, <3>2 DEF IInv, AbortedIsUnwell, Concluded
  <2> QED
    BY <2>1, <2>2
<1> QED
  BY <1>1, Invariant, PTL DEF Spec, SettledByItsReview
=============================================================================
