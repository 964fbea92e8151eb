----------------------------- MODULE SleepBudget -----------------------------
(* The model calls of a stepped night: sendToRuntime() and LlmBudget           *)
(* (llm-budget.ts) under the policy of supervision.ts, within the corrective   *)
(* turns of a step (dispatchPromptStep() of step-units.ts), the gate of the    *)
(* orchestrator's loop and the final review, which may offer a step again.     *)
(* One unit of time stands for 30 seconds; prompts and answers are left out,   *)
(* and of a step that dispatches several prompts the work items are steps here.*)
EXTENDS Integers, Sequences, FiniteSetsExt

CONSTANTS
  Steps,          \* the ordinary steps are 1..Steps, the review is the next one
  MaxCalls,       \* SLEEP_MAX_LLM_CALLS
  Reserve,        \* STEP13_RESERVE_CALLS
  MaxRetries,     \* MAX_DOMAIN_RETRIES
  Headroom,       \* SLEEP_PROVIDER_CLEANUP_HEADROOM_MS
  MinWindow,      \* MIN_ATTEMPT_WINDOW_MS
  StepTime,       \* a step's deadline
  Cycle,          \* the cycle's deadline
  Waits,          \* SUPERVISION_WAITS_MS
  Hints           \* what providers name as retry-after, 0 for nothing

ASSUME BudgetAssumption ==
  /\ {Steps, MaxCalls, MaxRetries, Headroom, MinWindow, StepTime, Cycle} \subseteq Nat \ {0}
  /\ Reserve \in Nat /\ Hints \subseteq Nat
  /\ Waits \in Seq(Nat) /\ Waits # <<>>

Review == Steps + 1
StepId == 1..Review

VARIABLES
  elapsed,
  calls,          \* state.llmCalls
  spent,          \* callsFor(), by step
  exhausted,
  night,          \* where the night is
  step,           \* the step at work, 0 before the first
  again,          \* the review has this step repeated, or 0
  stepEnd,        \* its deadline
  send,           \* the send at work: attempts, allowance, window
  deadline        \* of the attempt under way, or the end of the wait

budgetVars == <<elapsed, calls, spent, exhausted, night, step, again, stepEnd, send, deadline>>

NightPlace == {"between", "send", "attempt", "inflight", "waiting", "heard", "over"}
NoSend == [attempts |-> 0, allowance |-> 0, window |-> 0]

BudgetTypeOK ==
  /\ {elapsed, deadline, stepEnd, calls} \subseteq Nat
  /\ spent \in [StepId -> Nat] /\ exhausted \in BOOLEAN
  /\ night \in NightPlace /\ step \in 0..Review /\ again \in 0..Steps
  /\ send \in [attempts : 0..MaxRetries, allowance : 0..MaxRetries, window : Nat]

BudgetInit ==
  /\ elapsed = 0 /\ calls = 0 /\ spent = [s \in StepId |-> 0] /\ exhausted = FALSE
  /\ night = "between" /\ step = 0 /\ again = 0 /\ stepEnd = 0 /\ send = NoSend /\ deadline = 0

\* The step whose allowance is used.
Here == IF again # 0 THEN again ELSE step

-----------------------------------------------------------------------------
(* The loop of the night *)

\* canSpendOrdinary()
MayDispatch == ~exhausted /\ calls + Reserve <= MaxCalls

Enter ==
  /\ night' = "send" /\ stepEnd' = elapsed + StepTime
  /\ UNCHANGED <<elapsed, calls, spent, exhausted, send, deadline>>

DispatchStep ==
  /\ night = "between" /\ again = 0 /\ step < Steps /\ MayDispatch
  /\ step' = step + 1 /\ UNCHANGED again
  /\ Enter

\* A gate that is closed suspends what is left; the review comes all the same.
BeginReview ==
  /\ night = "between" /\ again = 0 /\ step < Review
  /\ step = Steps \/ ~MayDispatch
  /\ step' = Review /\ UNCHANGED again
  /\ Enter

\* RETRY_STEP of a review: refused once the step's allowance is used.
Repeat(s) ==
  /\ night = "heard" /\ step = Review /\ again = 0
  /\ spent[s] < MaxRetries
  /\ again' = s /\ UNCHANGED step
  /\ Enter

\* The step is settled, with or without an answer; the review goes on after a
\* repeated step, with its own allowance.
SettleStep ==
  /\ night' = IF again # 0 THEN "heard" ELSE IF step = Review THEN "over" ELSE "between"
  /\ again' = 0 /\ send' = NoSend
  /\ UNCHANGED <<elapsed, step, stepEnd, deadline>>

\* A model failure ends the ordinary steps; without a provider there is no review.
StopSteps(provider) ==
  /\ night' = IF again # 0 THEN "heard" ELSE IF step = Review \/ provider THEN "over" ELSE "between"
  /\ step' = IF night' = "between" THEN Steps ELSE step
  /\ again' = 0 /\ send' = NoSend
  /\ UNCHANGED <<elapsed, stepEnd, deadline>>

Unspent == UNCHANGED <<calls, spent, exhausted>>

\* remainingAttempts()
Remaining == Max({0, MaxRetries - spent[Here]})

\* The answer is what the step wanted, or is given up.
Accept == night = "heard" /\ SettleStep /\ Unspent

\* The answer did not pass: another turn, within what is left.
Correct ==
  /\ night = "heard" /\ Remaining > 0
  /\ night' = "send"
  /\ UNCHANGED <<elapsed, calls, spent, exhausted, step, again, stepEnd, send, deadline>>

-----------------------------------------------------------------------------
(* sendToRuntime() *)

CapAt == Cycle - Headroom

\* Entry: nothing is sent of an exhausted budget or with no time left in the cycle;
\* a step whose own time is over is a failure.
Send ==
  /\ night = "send" /\ Unspent
  /\ LET window == stepEnd - elapsed IN
     IF exhausted THEN SettleStep
     ELSE IF window <= Headroom THEN StopSteps(FALSE)
     ELSE IF CapAt - elapsed <= Headroom THEN SettleStep
     ELSE /\ night' = "attempt"
          /\ send' = [attempts |-> 0, allowance |-> Max({1, Remaining}), window |-> window]
          /\ UNCHANGED <<elapsed, step, again, stepEnd, deadline>>

\* Seeded fault: the window of an attempt is not cut at the end of the cycle.
FaultWindow == send.window

\* The window of an attempt is the step's, from its own start, cut by the cycle.
Window == IF send.window < CapAt - elapsed THEN send.window ELSE CapAt - elapsed

Attempt ==
  /\ night = "attempt" /\ Unspent
  /\ IF Window <= Headroom THEN SettleStep
     ELSE /\ night' = "inflight" /\ deadline' = elapsed + Window
          /\ UNCHANGED <<elapsed, step, again, stepEnd, send>>

\* LlmBudget.consume()
Consume ==
  /\ spent' = [spent EXCEPT ![Here] = @ + 1]
  /\ calls' = calls + 1
  /\ exhausted' = (exhausted \/ calls + 1 > MaxCalls)

\* A text: the call that passes the budget gives its answer away.
Answers ==
  /\ night = "inflight" /\ elapsed < deadline
  /\ Consume
  /\ IF calls + 1 > MaxCalls THEN SettleStep
     ELSE night' = "heard" /\ UNCHANGED <<elapsed, step, again, stepEnd, send, deadline>>

\* An empty answer is asked again at once, while the allowance lasts; then a step
\* that is not essential is passed by, and another is a failure.
AnswersEmpty(essential) ==
  /\ night = "inflight" /\ elapsed < deadline
  /\ Consume
  /\ IF calls + 1 > MaxCalls THEN SettleStep
     ELSE IF send.attempts + 1 >= send.allowance
     THEN IF essential THEN StopSteps(FALSE) ELSE SettleStep
     ELSE /\ night' = "attempt" /\ send' = [send EXCEPT !.attempts = @ + 1]
          /\ UNCHANGED <<elapsed, step, again, stepEnd, deadline>>

\* The broker's own deadline.
DeadlinePasses ==
  /\ night = "inflight" /\ elapsed >= deadline
  /\ Consume /\ StopSteps(FALSE)

\* isAdmissionRefusal(): no provider took the call.
NotAdmitted == night = "inflight" /\ StopSteps(TRUE) /\ Unspent

\* classifyExecutionFailure() and decideRecovery(): cancelled and permanent
\* failures stop; another is tried again after its wait, or after the longer one
\* the provider names, when an attempt still fits the cycle.
Scheduled == Waits[Min({send.attempts + 1, Len(Waits)})]
Fits(wait) == elapsed + wait + Headroom + MinWindow <= CapAt

Retries == send.attempts + 1 < send.allowance

Rejected(reached, final, hint) ==
  /\ night = "inflight" /\ elapsed < deadline
  /\ IF reached THEN Consume ELSE Unspent
  /\ LET wait == IF hint > Scheduled /\ Fits(hint) THEN hint ELSE Scheduled IN
     IF final \/ ~Retries THEN StopSteps(TRUE)
     ELSE IF ~Fits(wait) THEN SettleStep
     ELSE /\ send' = [send EXCEPT !.attempts = @ + 1]
          /\ night' = "waiting" /\ deadline' = elapsed + wait
          /\ UNCHANGED <<elapsed, step, again, stepEnd>>

WaitEnds ==
  /\ night = "waiting" /\ elapsed >= deadline
  /\ night' = "attempt"
  /\ UNCHANGED <<elapsed, calls, spent, exhausted, step, again, stepEnd, send, deadline>>

\* The caller's signal: it ends a wait, and the checkpoints after a call.
Abort ==
  /\ night # "over" /\ night' = "over" /\ again' = 0 /\ send' = NoSend
  /\ UNCHANGED <<elapsed, calls, spent, exhausted, step, stepEnd, deadline>>

\* Timers are not early; only the cycle's own timer bounds how late they are.
BudgetTick ==
  /\ elapsed < Cycle /\ elapsed' = elapsed + 1
  /\ UNCHANGED <<calls, spent, exhausted, night, step, again, stepEnd, send, deadline>>

BudgetNext ==
  \/ DispatchStep \/ BeginReview \/ Accept \/ Correct
  \/ Send \/ Attempt \/ Answers \/ DeadlinePasses \/ NotAdmitted \/ WaitEnds \/ Abort \/ BudgetTick
  \/ \E s \in 1..Steps : Repeat(s)
  \/ \E essential \in BOOLEAN : AnswersEmpty(essential)
  \/ \E reached, final \in BOOLEAN, hint \in Hints : Rejected(reached, final, hint)

BudgetSpec == BudgetInit /\ [][BudgetNext]_budgetVars

-----------------------------------------------------------------------------
(* Properties *)

\* "MAX_DOMAIN_RETRIES total model-reaching attempts per work item": refusals, empty
\* answers, corrective turns and a repetition by the review share them; and no
\* attempt begins too late to leave the cycle time to clean up.
AllowanceKept ==
  /\ \A s \in StepId : spent[s] <= MaxRetries
  /\ night = "inflight" => deadline <= CapAt
=============================================================================
