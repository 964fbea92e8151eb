----------------------------- MODULE SleepRules -----------------------------
(***************************************************************************)
(* The rules by which a night of sleep is judged, as operators on the      *)
(* state a run keeps on disk (the sleep lock): which steps failed, whether *)
(* the run may be resumed, how far the watermark may go and what the final *)
(* review concludes.  Times are message numbers: the n-th message arrived  *)
(* at time n.                                                              *)
(***************************************************************************)
EXTENDS Integers, Sequences, FiniteSets, FiniteSetsExt

CONSTANTS
  Order,     \* the ordinary steps of the manifest, in order
  Essential, \* those whose failure fails the run
  Prompted   \* those without a domain branch: a prompt and its response

Review == "review-and-repair"
Daily == "daily-summary"
Extract == "extract-memories"
Gc == "gc-noise"

Ordinary == {Order[i] : i \in DOMAIN Order}
Step == Ordinary \cup {Review}

ASSUME RulesAssumption ==
  /\ {Daily, Extract, Gc} \subseteq Ordinary /\ Review \notin Ordinary
  /\ Prompted = Ordinary \ {Daily, Extract, Gc}
  /\ Essential \subseteq Ordinary
  /\ Order \in Seq(Ordinary)

StepStatus == {"none", "pending", "ok", "failed", "skipped"}

\* failedEssentials().
FailedEssentials(step) == {s \in Essential : step[s] \notin {"ok", "skipped"}}

\* isResumableSleepState(), of a lock whose process is alive or not.
Resumable(lock, alive) ==
  /\ lock.status # "none"
  /\ \/ \E s \in Step : lock.step[s] = "failed"
     \/ lock.status = "suspended"
     \/ lock.status = "ongoing" /\ ~alive

\* coverageCeilingTs(): the claims of the daily step authorize the watermark
\* up to the target, and never past a message it left unclaimed.
NoCeiling == -1

\* Seeded fault: the holes do not hold the watermark.
FaultCeiling(lock, target) == IF lock.step[Daily] # "ok" THEN NoCeiling ELSE target

Ceiling(lock, target) ==
  IF lock.step[Daily] # "ok" THEN NoCeiling
  ELSE Min({target} \cup {m - 1 : m \in {h \in lock.hole : h <= target}})

\* checkPrerequisite(): a failed daily summary blocks what reads it.
Blocked(step) == step[Daily] = "failed"

\* normalizeVerdict(), of a valid review that left nothing unverified: unrun
\* or failed steps and a grounded downgrade keep the run from acceptance.
Accepted(step, downgraded) ==
  /\ \A s \in Ordinary : step[s] \notin {"none", "failed"}
  /\ FailedEssentials(step) = {}
  /\ ~downgraded
=============================================================================
