---------------------------- MODULE Consolidation ----------------------------
(* The weekly and quarterly summaries of the sleep engine: which period is due  *)
(* after the published artifacts (consolidation-cadence.ts), its inputs, and    *)
(* the publication of what the model answers (publishConsolidationFile() of     *)
(* sleep-daily-summary.ts, prepareConsolidation() and finishConsolidation() of  *)
(* step-units.ts).  A day is a number, a daily covers one day; an owner's       *)
(* artifact is its period with the dailies and weeks that went into it.         *)
EXTENDS Integers, FiniteSets, FiniteSetsExt

CONSTANTS Week,         \* days of a week
          Quarter,      \* days of a quarter, no multiple of a week
          Gap,          \* MAX_WEEKLY_GAP_WEEKS, also the headers a checkpoint scan reads
          FirstDay, LastDay,        \* bounds: the days that are modelled
          MaxDaily, MaxForeign      \* bounds: dailies written, foreign files put in the way

ConsolidationAssumption ==
  /\ {Week, Quarter, Gap} \subseteq Nat \ {0}
  /\ {FirstDay, LastDay, MaxDaily, MaxForeign} \subseteq Nat
  /\ FirstDay >= Week /\ FirstDay >= Quarter

VARIABLES
  today,
  dailies,    \* the days that have a daily of the owner
  weekly,     \* the owner's weekly artifacts, [first, last, from]
  foreign,    \* periods whose file is another owner's or invalid
  quarterly,  \* the owner's quarterly artifacts
  target      \* what this run prepared, or NoTarget

vars == <<today, dailies, weekly, foreign, quarterly, target>>

Day == 0..LastDay
Artifact == [first : Day, last : Day, from : SUBSET Day]
NoTarget == [tier |-> "none", first |-> 0, last |-> 0, from |-> {}]

TypeOK ==
  /\ today \in FirstDay..LastDay
  /\ dailies \subseteq Day
  /\ weekly \subseteq Artifact
  /\ foreign \subseteq [first : Day, last : Day]
  /\ \A q \in quarterly : q.first \in Day /\ q.from \subseteq Day
  /\ target.tier \in {"none", "weekly", "quarterly"}

Init ==
  /\ today = FirstDay /\ dailies = {} /\ weekly = {} /\ foreign = {} /\ quarterly = {}
  /\ target = NoTarget

-----------------------------------------------------------------------------
(* What is due *)

\* latestCompletedSunday(): strictly before today.
Sunday(day) == Week * (day \div Week) - 1

Newest(S) == CHOOSE a \in S : \A b \in S : b.last <= a.last

\* scanTierArtifacts(): the checkpoint is the newest trusted artifact among the
\* first headers read; files that are not trusted are in its way.
Ahead(w) == {f \in foreign : f.last > w.last \/ (f.last = w.last /\ f.first > w.first)}
ScanIncomplete ==
  IF weekly = {} THEN Cardinality(foreign) > Gap
  ELSE Cardinality(Ahead(Newest(weekly))) >= Gap

NotDue == [due |-> FALSE, first |-> 0, last |-> 0]

\* decideWeeklyDue(): from the day after the checkpoint, the oldest weeks of a
\* long gap first; without a checkpoint the last week alone.
WeeklyDue ==
  LET end == Sunday(today)
      first == IF weekly = {} THEN end - Week + 1 ELSE Newest(weekly).last + 1 IN
  IF first > end THEN NotDue
  ELSE [due |-> TRUE, first |-> first,
        last |-> IF end - first + 1 > Gap * Week THEN first + Gap * Week - 1 ELSE end]

\* decideQuarterlyDue(): the oldest quarter that was missed.
QuarterlyDue ==
  LET completed == (today \div Quarter) - 1
      key == IF quarterly = {} THEN completed ELSE (Newest(quarterly).last \div Quarter) + 1 IN
  IF key > completed THEN NotDue
  ELSE [due |-> TRUE, first |-> key * Quarter, last |-> key * Quarter + Quarter - 1]

Within(period) == {d \in dailies : period.first <= d /\ d <= period.last}
Summarized(S) == UNION {w.from : w \in S}
Overlaps(w, period) == w.last >= period.first /\ w.first <= period.last

Lookback == Sunday(today) - Gap * Week + 1

\* The weekly artifacts a plan reads: the newest and those of the ranges it needs.
Relevant ==
  {w \in weekly : \/ w = Newest(weekly)
                  \/ Overlaps(w, [first |-> Lookback, last |-> Sunday(today)])
                  \/ WeeklyDue.due /\ Overlaps(w, WeeklyDue)
                  \/ QuarterlyDue.due /\ Overlaps(w, QuarterlyDue)}

\* Seeded fault: what the weeks were made from is not looked up.
FaultLate ==
  {d \in dailies : \E w \in Relevant : w.first <= d /\ d <= w.last /\ w.last >= Lookback}

\* detectLateDailies(): written after their week was summarized, and in no week yet.
Late ==
  {d \in dailies \ Summarized(Relevant) :
     \E w \in Relevant : w.first <= d /\ d <= w.last /\ w.last >= Lookback}

WeeklyInputs == Within(WeeklyDue) \cup Late

\* buildQuarterlyTarget(): the weeks within the quarter, and the dailies no such
\* week was made from.
WeeksOf(period) == {w \in Relevant : w.first >= period.first /\ w.last <= period.last}
QuarterlyInputs == Within(QuarterlyDue) \ Summarized(WeeksOf(QuarterlyDue))

TargetOf(tier, period, from) ==
  [tier |-> tier, first |-> period.first, last |-> period.last, from |-> from]

\* planConsolidation(): weekly work first; a week without inputs does not hold
\* up a quarter.
Plan ==
  /\ target = NoTarget
  /\ ~ScanIncomplete
  /\ \/ /\ WeeklyDue.due /\ WeeklyInputs # {}
        /\ target' = TargetOf("weekly", WeeklyDue, WeeklyInputs)
     \/ /\ ~(WeeklyDue.due /\ WeeklyInputs # {})
        /\ QuarterlyDue.due
        /\ WeeksOf(QuarterlyDue) # {} \/ QuarterlyInputs # {}
        /\ target' = TargetOf("quarterly", QuarterlyDue,
                              QuarterlyInputs \cup Summarized(WeeksOf(QuarterlyDue)))
  /\ UNCHANGED <<today, dailies, weekly, foreign, quarterly>>

-----------------------------------------------------------------------------
(* Publication *)

Period(t) == [first |-> t.first, last |-> t.last]

\* A complete answer is published, unless a foreign or invalid file has the name.
Publish ==
  /\ target.tier # "none"
  /\ ~(target.tier = "weekly" /\ Period(target) \in foreign)
  /\ LET artifact == [first |-> target.first, last |-> target.last, from |-> target.from] IN
     IF target.tier = "weekly"
     THEN weekly' = weekly \cup {artifact} /\ UNCHANGED quarterly
     ELSE quarterly' = quarterly \cup {artifact} /\ UNCHANGED weekly
  /\ target' = NoTarget
  /\ UNCHANGED <<today, dailies, foreign>>

\* No answer, an incomplete one, a failed write or an occupied name: the step
\* fails and the period stays due.
Fail ==
  /\ target.tier # "none"
  /\ target' = NoTarget
  /\ UNCHANGED <<today, dailies, weekly, foreign, quarterly>>

-----------------------------------------------------------------------------
(* Meanwhile *)

\* A night publishes a daily for its day, or for an earlier one.
Write(d) ==
  /\ d <= today /\ d \notin dailies /\ Cardinality(dailies) < MaxDaily
  /\ dailies' = dailies \cup {d}
  /\ UNCHANGED <<today, weekly, foreign, quarterly, target>>

\* A file of another owner, or of a copy that is not valid, under the name of a week.
Intrude(w) ==
  LET period == [first |-> Week * w, last |-> Week * w + Week - 1] IN
  /\ Cardinality(foreign) < MaxForeign
  /\ \A own \in weekly : Period(own) # period
  /\ foreign' = foreign \cup {period}
  /\ UNCHANGED <<today, dailies, weekly, quarterly, target>>

Pass ==
  /\ today < LastDay
  /\ today' = today + 1
  /\ UNCHANGED <<dailies, weekly, foreign, quarterly, target>>

Next ==
  \/ Plan \/ Publish \/ Fail \/ Pass
  \/ \E d \in Day : Write(d)
  \/ \E w \in 0..((LastDay + 1) \div Week - 1) : Intrude(w)

Spec == Init /\ [][Next]_vars

\* Every night plans, and a model that keeps being asked answers in full.
FairSpec == Spec /\ WF_vars(Plan) /\ SF_vars(Publish)

-----------------------------------------------------------------------------
(* Properties *)

\* "include once with its original date": whole weeks follow one another without
\* a gap or an overlap, and so do quarters; a daily goes into one week, in its own
\* period or late, though the plan that read the dailies is published days later.
InTurn(S) ==
  \A a \in S : (\E b \in S : b.last < a.last) => (\E b \in S : b.last + 1 = a.first)

SummarizedOnce ==
  /\ InTurn(weekly) /\ InTurn(quarterly)
  /\ \A a, b \in weekly : a # b => a.from \cap b.from = {} /\ ~Overlaps(a, b)

\* "caps a long gap at the oldest MAX_WEEKLY_GAP_WEEKS slice; the next run advances"
\* (consolidation-1864.test.ts): a day of a completed week that has a daily does not
\* stay after the checkpoint for ever.
Unsummarized(d) ==
  /\ d \in dailies /\ d <= Sunday(today)
  /\ weekly # {} /\ \A w \in weekly : w.last < d

GapsAdvance == \A d \in Day : Unsummarized(d) ~> ~Unsummarized(d)
=============================================================================
