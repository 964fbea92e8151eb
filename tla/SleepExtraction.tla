---------------------------- MODULE SleepExtraction ----------------------------
(***************************************************************************)
(* The night's extraction: messages above the watermark are offered to the *)
(* model, which answers with lines (a fact to store, or that there is none *)
(* to store) for each; the lines are frozen in a file per message, applied *)
(* to the memory and recorded as receipts; the step is done when every     *)
(* message that was offered has all its lines decided.  A run that dies or *)
(* fails anywhere is taken up by a later one, which applies what is frozen *)
(* and asks about the rest.                                                *)
(*                                                                         *)
(* sleep/extraction-proposals.ts, sleep/proposals.ts, sleep/receipts.ts,   *)
(* the extraction of sleep/shared-execution.ts and the direct store of     *)
(* private-memory-mutation-store.ts.  Messages are numbered by their time, *)
(* which is a key here: decisions are filed under it.                      *)
(***************************************************************************)
EXTENDS Integers, Sequences, FiniteSets

CONSTANTS
  Fact,      \* contents of memories
  MaxMsg,    \* bound: messages
  MaxRun,    \* bound: runs of the night
  MaxLines,  \* bound: lines the model gives for one message
  Budget     \* MAX_PROPOSALS_PER_RESPONSE: lines one response may have applied

ExtractionAssumption ==
  /\ IsFiniteSet(Fact) /\ MaxMsg \in Nat /\ MaxRun \in Nat
  /\ MaxLines \in Nat \ {0} /\ Budget \in Nat /\ Budget >= MaxLines

VARIABLES
  \* the memory
  latest,     \* the last message that came
  message,    \* messages that are in the store
  watermark,  \* messages up to here are settled
  durables,   \* durables, in force or superseded: the fact, and the message, the
              \* run and the answer it was made from
  forgotten,  \* facts a forget marker suppresses
  \* the files of the night
  frozen,     \* decisions: of each message the run that froze it, and its lines
  receipts,   \* of each run
  \* the run and its step
  run, prior, \* its number, and the interrupted run it takes up (0: none)
  stepStage,  \* of the step: see StepStage
  replay,     \* messages whose decision an earlier run froze, still to be applied
  answered,   \* the lines of the messages it offers
  inHand,     \* messages of the response that is waited for or applied
  todo,       \* its lines that are left
  applied,    \* its receipts, not on disk yet
  unhandled,  \* messages that are not fully decided
  \* history
  asked, said \* of each message how often the model answered, and what at last

nightMemory == <<latest, message, watermark, durables, forgotten>>
response == <<inHand, todo, applied>>
stepState == <<replay, answered, response, unhandled>>
extractionVars == <<nightMemory, frozen, receipts, run, prior, stepStage, stepState, asked, said>>

Msg == 1..MaxMsg
NightRun == 1..MaxRun
Declined == "declined"
Line == Fact \cup {Declined}
Lines == {s \in SUBSET Line : Cardinality(s) <= MaxLines}
NoLines == [m \in Msg |-> {}]
Unfrozen == [run |-> 0, lines |-> {}]
StepStage == {"idle", "asked", "freezing", "applying", "done"}
Receipt == [msg : Msg, line : Line, disp : {"accepted", "declined", "rejected"}]

ExtractionTypeOK ==
  /\ latest \in 0..MaxMsg /\ message \subseteq 1..latest /\ watermark \in 0..latest
  /\ durables \subseteq [fact : Fact, msg : Msg, run : NightRun, of : Nat]
  /\ frozen \in [Msg -> [run : 0..MaxRun, lines : Lines]]
  /\ \A r \in NightRun : receipts[r] \subseteq Receipt
  /\ run \in 0..MaxRun /\ prior \in 0..MaxRun /\ stepStage \in StepStage
  /\ answered \in [Msg -> Lines] /\ todo \in [Msg -> Lines] /\ applied \subseteq Receipt
  /\ replay \cup inHand \cup unhandled \subseteq Msg

ExtractionInit ==
  /\ latest = 0 /\ message = {} /\ watermark = 0 /\ durables = {} /\ forgotten = {}
  /\ frozen = [m \in Msg |-> Unfrozen] /\ receipts = [r \in NightRun |-> {}]
  /\ run = 0 /\ prior = 0 /\ stepStage = "idle"
  /\ replay = {} /\ answered = NoLines /\ unhandled = {}
  /\ inHand = {} /\ todo = NoLines /\ applied = {}
  /\ asked = [m \in Msg |-> 0] /\ said = NoLines

-----------------------------------------------------------------------------
(* Asking and freezing *)

\* The step is over; what it had in hand is gone.
StepEnds ==
  /\ stepStage' = "idle" /\ replay' = {} /\ answered' = NoLines /\ unhandled' = {}
  /\ inHand' = {} /\ todo' = NoLines /\ applied' = {}

IsFrozen(m) == frozen[m].run # 0
Offered == {m \in message : m > watermark}

\* A run takes up the one before it or starts anew.  Decisions that are settled are
\* pruned; those frozen above the watermark need no answer.
StartRun(takesUp) ==
  /\ stepStage = "idle" /\ run < MaxRun /\ Offered # {}
  /\ run' = run + 1 /\ prior' = (IF takesUp THEN run ELSE 0)
  /\ frozen' = [m \in Msg |-> IF m <= watermark THEN Unfrozen ELSE frozen[m]]
  /\ replay' = {m \in Offered : IsFrozen(m)}
  /\ answered' = [m \in Msg |-> IF m \in replay' THEN frozen[m].lines ELSE {}]
  /\ inHand' = Offered \ replay'
  /\ stepStage' = (IF inHand' = {} THEN "applying" ELSE "asked")
  /\ UNCHANGED <<nightMemory, receipts, todo, applied, unhandled, asked, said>>

\* The model answers for the messages it was asked about; it may leave some out.
ModelAnswers ==
  /\ stepStage = "asked" /\ stepStage' = "freezing"
  /\ \E lines \in [inHand -> Lines] :
       /\ answered' = [m \in Msg |-> IF m \in inHand THEN lines[m] ELSE answered[m]]
       /\ said' = [m \in Msg |-> IF m \in inHand /\ lines[m] # {} THEN lines[m] ELSE said[m]]
       /\ asked' = [m \in Msg |->
                      IF m \in inHand /\ lines[m] # {} THEN asked[m] + 1 ELSE asked[m]]
  /\ UNCHANGED <<nightMemory, frozen, receipts, run, prior, replay, response, unhandled>>

ToFreeze == {m \in inHand : answered[m] # {} /\ ~IsFrozen(m)}

\* One file at a time, all before the first line is applied.
Freeze ==
  /\ stepStage = "freezing"
  /\ IF ToFreeze = {}
     THEN /\ stepStage' = "applying"
          /\ todo' = [m \in Msg |-> IF m \in inHand THEN answered[m] ELSE {}]
          /\ UNCHANGED frozen
     ELSE /\ \E m \in ToFreeze :
               /\ \A o \in ToFreeze : m <= o
               /\ frozen' = [frozen EXCEPT ![m] = [run |-> run, lines |-> answered[m]]]
          /\ UNCHANGED <<stepStage, todo>>
  /\ UNCHANGED <<nightMemory, receipts, run, prior, replay, answered, inHand, applied, unhandled>>
  /\ UNCHANGED <<asked, said>>

-----------------------------------------------------------------------------
(* Applying *)

\* The receipts a line is looked up in: of this run, of the run it takes up and of
\* the run that froze the decision.
Accepted(m, l) ==
  \E r \in {run, prior, frozen[m].run} \ {0} :
    [msg |-> m, line |-> l, disp |-> "accepted"] \in receipts[r]

\* Seeded fault: a fact that has a row is stored again.
FaultStored(f) == FALSE

\* The direct store finds the content among the rows, superseded ones too.
Stored(f) == \E r \in durables : r.fact = f

\* A fact needs its message, and must not have been forgotten.
Storable(m, f) == m \in message /\ (Stored(f) \/ f \notin forgotten)

Disposition(m, l) ==
  CASE Accepted(m, l) -> "accepted"
    [] ~Accepted(m, l) /\ l = Declined -> "declined"
    [] OTHER -> IF Storable(m, l) THEN "accepted" ELSE "rejected"

\* One line is applied; lines over the budget of a response are dropped.
Apply(m, l) ==
  /\ stepStage = "applying" /\ l \in todo[m]
  /\ todo' = [todo EXCEPT ![m] = @ \ {l}]
  /\ IF Cardinality(applied) = Budget THEN UNCHANGED <<applied, durables>>
     ELSE /\ applied' = applied \cup {[msg |-> m, line |-> l, disp |-> Disposition(m, l)]}
          /\ durables' =
               IF ~Accepted(m, l) /\ l \in Fact /\ ~Stored(l) /\ Storable(m, l)
               THEN durables \cup {[fact |-> l, msg |-> m, run |-> run, of |-> asked[m]]}
               ELSE durables
  /\ UNCHANGED <<latest, message, watermark, forgotten, frozen, receipts, run, prior, stepStage>>
  /\ UNCHANGED <<replay, answered, inHand, unhandled, asked, said>>

Good(r, m, l) == r.msg = m /\ r.line = l /\ r.disp \in {"accepted", "declined"}

\* A message is handled when it has lines and each was accepted or declined.
Handled(m) == answered[m] # {} /\ \A l \in answered[m] : \E r \in applied : Good(r, m, l)

\* The receipts of a response go to disk.  The decisions that were frozen before
\* follow, one message as a response of its own.
RecordReceipts ==
  /\ stepStage = "applying" /\ todo = NoLines
  /\ receipts' = [receipts EXCEPT ![run] = @ \cup applied]
  /\ LET missed == unhandled \cup {m \in inHand : ~Handled(m)}
     IN \/ /\ replay = {} /\ missed # {} /\ StepEnds
        \/ /\ replay = {} /\ missed = {} /\ stepStage' = "done"
           /\ inHand' = {} /\ applied' = {} /\ UNCHANGED <<replay, answered, todo, unhandled>>
        \/ \E m \in replay :
             /\ \A o \in replay : m <= o
             /\ replay' = replay \ {m} /\ inHand' = {m}
             /\ todo' = [NoLines EXCEPT ![m] = answered[m]]
             /\ applied' = {} /\ unhandled' = missed /\ UNCHANGED <<stepStage, answered>>
  /\ UNCHANGED <<nightMemory, frozen, run, prior, asked, said>>

\* The step fails: the process dies, the model does, or a file cannot be written.
Breaks ==
  /\ stepStage \in {"asked", "freezing", "applying"} /\ StepEnds
  /\ UNCHANGED <<nightMemory, frozen, receipts, run, prior, asked, said>>

-----------------------------------------------------------------------------
(* Around it *)

\* Settlement moves the watermark over what was offered, or not: other steps have a
\* say in it.
Settle(moves) ==
  /\ stepStage = "done" /\ StepEnds
  /\ watermark' = IF ~moves THEN watermark
                  ELSE CHOOSE w \in Msg : /\ answered[w] # {}
                                          /\ \A m \in Msg : answered[m] # {} => m <= w
  /\ UNCHANGED <<latest, message, durables, forgotten, frozen, receipts, run, prior, asked, said>>

\* Elsewhere in the process, while the step waits or none is under way, a message
\* comes, or the owner forgets a durable with the message it is from, or a message
\* with its durables.
StepWaits == stepStage \in {"idle", "asked", "done"}

Arrives ==
  /\ StepWaits /\ latest < MaxMsg
  /\ latest' = latest + 1 /\ message' = message \cup {latest'}
  /\ UNCHANGED <<watermark, durables, forgotten, frozen, receipts, run, prior, stepStage>>
  /\ UNCHANGED <<stepState, asked, said>>

ForgetDurable(r) ==
  /\ StepWaits /\ r \in durables
  /\ message' = message \ {r.msg} /\ forgotten' = forgotten \cup {r.fact}
  /\ durables' = {s \in durables : s.msg # r.msg /\ s.fact # r.fact}
  /\ UNCHANGED <<latest, watermark, frozen, receipts, run, prior, stepStage, stepState>>
  /\ UNCHANGED <<asked, said>>

ForgetMessage(m) ==
  /\ StepWaits /\ m \in message
  /\ message' = message \ {m} /\ durables' = {r \in durables : r.msg # m}
  /\ UNCHANGED <<latest, watermark, forgotten, frozen, receipts, run, prior, stepStage>>
  /\ UNCHANGED <<stepState, asked, said>>

ExtractionNext ==
  \/ \E takesUp \in BOOLEAN : StartRun(takesUp)
  \/ ModelAnswers \/ Freeze \/ RecordReceipts \/ Breaks \/ Arrives
  \/ \E m \in Msg, l \in Line : Apply(m, l)
  \/ \E moves \in BOOLEAN : Settle(moves)
  \/ \E m \in Msg : ForgetMessage(m)
  \/ \E r \in durables : ForgetDurable(r)

ExtractionSpec == ExtractionInit /\ [][ExtractionNext]_extractionVars

-----------------------------------------------------------------------------
(* What must hold.                                                         *)

\* A fact has one row however often its line is applied, and the rows of a message
\* are from one answer of the model: it is never asked to restate what a broken run
\* has begun to store.
StoredOnce ==
  \A r, s \in durables : (r.fact = s.fact => r = s) /\ (r.msg = s.msg => r.of = s.of)

\* A message below the watermark was answered for, and every line the model gave
\* for it is accepted or declined in a receipt on disk: no line is lost to a broken
\* run, to the budget of a response or to a refusal.
SettledWasDecided ==
  \A m \in message : m <= watermark =>
    /\ said[m] # {}
    /\ \A l \in said[m] : \E r \in NightRun : \E e \in receipts[r] : Good(e, m, l)

\* A line the model gave ends in one row at most, and in a decision before its
\* message is settled.
ExtractedOnce == StoredOnce /\ SettledWasDecided
=============================================================================
