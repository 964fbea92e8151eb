---------------------- MODULE MutationServiceProofs ----------------------
(* Machine-checked proofs about MutationService, for every set of calls,   *)
(* keys and payloads and every bound.                                      *)
EXTENDS MutationService, TLAPS

-----------------------------------------------------------------------------
(* The inductive invariant *)

\* A call whose handler is running is the one registered for its key, its row
\* is in_flight for its payload, nobody has been answered under that row, and
\* memory has changed under it exactly when its own transaction committed.
RunningOwnsRow ==
  \A c \in Call : Dispatching(c) =>
    /\ owner[KeyOf(c)] = c
    /\ row[KeyOf(c)].state = "in_flight"
    /\ row[KeyOf(c)].body = BodyOf(c)
    /\ call[c].stage = "dispatching" => effects[KeyOf(c)] = {}
    /\ call[c].stage = "applied" => effects[KeyOf(c)] = {c}

\* A registered dispatch is a running call of that key.
OwnerRuns ==
  \A k \in Key : owner[k] # NoCall => Dispatching(owner[k]) /\ KeyOf(owner[k]) = k

\* What each row state says about the history of its key.
RowHistory ==
  \A k \in Key :
    /\ row[k].state = "absent" => effects[k] = {}
    /\ row[k].state # "completed" => decided[k] = {}
    /\ row[k].state = "completed" =>
         /\ row[k].answer \in Typed
         /\ decided[k] \subseteq {row[k].answer}
         /\ (row[k].answer = "refused") <=> (effects[k] = {})

\* A joined call waits on a call of its own key and payload that is running or
\* has just settled; a typed settlement is in the row.
JoinedFollowsOwner ==
  \A c \in Call : call[c].stage = "joined" =>
    /\ call[c].via \in Call
    /\ KeyOf(call[c].via) = KeyOf(c)
    /\ call[call[c].via].stage \in {"dispatching", "applied", "answered"}
    /\ (call[call[c].via].stage = "answered" /\ call[call[c].via].answer \in Typed) =>
         /\ row[KeyOf(c)].state = "completed"
         /\ row[KeyOf(c)].answer = call[call[c].via].answer

\* Nothing runs in a process that is not there.
DownIsEmpty == phase = "down" => \A c \in Call : ~Live(c)

IInv ==
  /\ TypeOK
  /\ RunningOwnsRow
  /\ OwnerRuns
  /\ RowHistory
  /\ JoinedFollowsOwner
  /\ DownIsEmpty
  /\ AtMostOnce
  /\ EffectMatchesRow

-----------------------------------------------------------------------------
(* The initial states satisfy it *)

LEMMA InitIInv == Init => IInv
<1>. SUFFICES ASSUME Init PROVE IInv
  OBVIOUS
<1>1. TypeOK
  BY ServiceAssumption DEF Init, TypeOK, NoRow, RowState, Answer, Stage
<1>2. RunningOwnsRow /\ OwnerRuns /\ JoinedFollowsOwner /\ DownIsEmpty
  BY DEF Init, RunningOwnsRow, OwnerRuns, JoinedFollowsOwner, DownIsEmpty, Dispatching, Live
<1>3. RowHistory /\ AtMostOnce /\ EffectMatchesRow
  BY DEF Init, RowHistory, AtMostOnce, EffectMatchesRow, NoRow
<1>. QED
  BY <1>1, <1>2, <1>3 DEF IInv

-----------------------------------------------------------------------------
(* Calls answered without running *)

\* Answering a call that is not running keeps the invariant, provided a typed
\* answer is the one its completed row holds.
LEMMA AnswerPreserves ==
  ASSUME IInv, NEW c \in Call, NEW a \in Answer,
         call[c].stage \in {"idle", "joined"},
         a \in Typed => row[KeyOf(c)].state = "completed" /\ row[KeyOf(c)].answer = a,
         call' = [call EXCEPT ![c] = Answered(c, a)],
         Note(KeyOf(c), a),
         UNCHANGED <<phase, starts, row, owner, req, effects>>
  PROVE  IInv'
<1>. USE DEF IInv
<1>1. TypeOK'
  BY DEF TypeOK, Answered, Note, Stage, KeyOf
<1>2. RunningOwnsRow'
  <2>. SUFFICES ASSUME NEW d \in Call, Dispatching(d)'
                PROVE  d # c /\ Dispatching(d) /\ call'[d] = call[d]
    BY DEF RunningOwnsRow, Dispatching, KeyOf, BodyOf
  <2>. QED
    BY DEF TypeOK, Dispatching, Answered
<1>3. OwnerRuns'
  BY DEF TypeOK, OwnerRuns, Dispatching, Answered, KeyOf
<1>4. RowHistory'
  BY DEF TypeOK, RowHistory, Note, KeyOf
<1>5. JoinedFollowsOwner'
  <2>. SUFFICES ASSUME NEW d \in Call, call'[d].stage = "joined"
                PROVE  d # c /\ call[d].stage = "joined" /\ call'[d] = call[d]
                       /\ (call[d].via = c => call[c].stage # "joined" /\ call[c].stage # "idle")
    BY DEF TypeOK, JoinedFollowsOwner, KeyOf
  <2>. QED
    BY DEF TypeOK, JoinedFollowsOwner, Answered
<1>6. DownIsEmpty'
  BY DEF TypeOK, DownIsEmpty, Live, Answered
<1>7. AtMostOnce' /\ EffectMatchesRow'
  BY DEF AtMostOnce, EffectMatchesRow, BodyOf
<1>. QED
  BY <1>1, <1>2, <1>3, <1>4, <1>5, <1>6, <1>7

LEMMA TurnAwayPreserves ==
  ASSUME IInv, NEW c \in Call, TurnAway(c)
  PROVE  IInv'
BY AnswerPreserves DEF TurnAway, AnswerNow, Answer, Typed

LEMMA ReserveFailsPreserves ==
  ASSUME IInv, NEW c \in Call, ReserveFails(c)
  PROVE  IInv'
BY AnswerPreserves DEF ReserveFails, Arriving, AnswerNow, Answer, Typed

LEMMA ReusePreserves ==
  ASSUME IInv, NEW c \in Call, Reuse(c)
  PROVE  IInv'
<1>. DEFINE r == row[KeyOf(c)]
<1>1. PICK a \in Answer :
         /\ AnswerNow(c, a)
         /\ a \in Typed => r.state = "completed" /\ r.answer = a
  BY DEF Reuse, IInv, TypeOK, KeyOf, Answer, Typed
<1>. QED
  BY <1>1, AnswerPreserves DEF Reuse, Arriving, AnswerNow

LEMMA DeliverJoinedPreserves ==
  ASSUME IInv, NEW c \in Call, DeliverJoined(c)
  PROVE  IInv'
<1>. DEFINE a == call[call[c].via].answer
<1>1. a \in Answer
  BY DEF DeliverJoined, IInv, TypeOK, JoinedFollowsOwner
<1>2. a \in Typed => row[KeyOf(c)].state = "completed" /\ row[KeyOf(c)].answer = a
  BY DEF DeliverJoined, IInv, JoinedFollowsOwner
<1>. QED
  BY <1>1, <1>2, AnswerPreserves DEF DeliverJoined

-----------------------------------------------------------------------------
(* Admission that writes the ledger *)

\* No call that is running or joined belongs to a key without a row.
LEMMA AbsentIsQuiet ==
  ASSUME IInv, NEW k \in Key, row[k].state = "absent"
  PROVE  /\ owner[k] = NoCall
         /\ \A d \in Call : KeyOf(d) = k /\ Dispatching(d) => FALSE
<1>1. \A d \in Call : KeyOf(d) = k /\ Dispatching(d) => FALSE
  BY DEF IInv, RunningOwnsRow
<1>2. owner[k] = NoCall
  BY <1>1 DEF IInv, TypeOK, OwnerRuns
<1>. QED
  BY <1>1, <1>2

LEMMA DispatchPreserves ==
  ASSUME IInv, NEW c \in Call, Dispatch(c)
  PROVE  IInv'
<1>. DEFINE k == KeyOf(c)
<1>. USE DEF IInv
<1>1. k \in Key /\ row[k].state = "absent" /\ call[c].stage = "idle" /\ effects[k] = {} /\ decided[k] = {}
  BY DEF Dispatch, Arriving, TypeOK, KeyOf, RowHistory
<1>2. /\ row' = [row EXCEPT ![k] = [state |-> "in_flight", body |-> BodyOf(c), answer |-> "none"]]
      /\ owner' = [owner EXCEPT ![k] = c]
      /\ call' = [call EXCEPT ![c].stage = "dispatching"]
      /\ phase = "open"
      /\ UNCHANGED <<phase, starts, req, effects, decided>>
  BY DEF Dispatch, Arriving, SetRow
<1>3. TypeOK'
  BY <1>1, <1>2 DEF TypeOK, RowState, Answer, Stage, BodyOf
<1>4. RunningOwnsRow'
  <2>. SUFFICES ASSUME NEW d \in Call, d # c, Dispatching(d)'
                PROVE  Dispatching(d) /\ KeyOf(d) # k /\ call'[d] = call[d]
    BY <1>1, <1>2 DEF TypeOK, RunningOwnsRow, Dispatching, KeyOf, BodyOf
  <2>. QED
    BY <1>1, <1>2, AbsentIsQuiet DEF TypeOK, Dispatching
<1>5. OwnerRuns'
  BY <1>1, <1>2 DEF TypeOK, OwnerRuns, Dispatching, KeyOf
<1>6. RowHistory'
  BY <1>1, <1>2 DEF TypeOK, RowHistory
<1>7. JoinedFollowsOwner'
  <2>. SUFFICES ASSUME NEW d \in Call, call'[d].stage = "joined"
                PROVE  /\ call[d].stage = "joined" /\ call'[d] = call[d]
                       /\ call[d].via # c
    BY <1>1, <1>2 DEF TypeOK, JoinedFollowsOwner, KeyOf
  <2>. QED
    BY <1>1, <1>2 DEF TypeOK, JoinedFollowsOwner
<1>8. DownIsEmpty'
  BY <1>2 DEF DownIsEmpty
<1>9. AtMostOnce' /\ EffectMatchesRow'
  BY <1>1, <1>2 DEF TypeOK, AtMostOnce, EffectMatchesRow, BodyOf
<1>. QED
  BY <1>3, <1>4, <1>5, <1>6, <1>7, <1>8, <1>9

LEMMA ClaimFailsPreserves ==
  ASSUME IInv, NEW c \in Call, ClaimFails(c)
  PROVE  IInv'
<1>. DEFINE k == KeyOf(c)
<1>. USE DEF IInv
<1>1. k \in Key /\ row[k].state = "absent" /\ call[c].stage = "idle" /\ effects[k] = {} /\ decided[k] = {}
  BY DEF ClaimFails, Arriving, TypeOK, KeyOf, RowHistory
<1>2. PICK s \in {"reserved", "outcome_unknown"} :
         row' = [row EXCEPT ![k] = [state |-> s, body |-> BodyOf(c), answer |-> "none"]]
  BY DEF ClaimFails, SetRow
<1>3. /\ call' = [call EXCEPT ![c] = Answered(c, "outcome_unknown")]
      /\ phase = "open"
      /\ UNCHANGED <<phase, starts, owner, req, effects>>
  BY DEF ClaimFails, Arriving, AnswerNow
<1>4. decided' = decided
  BY DEF ClaimFails, AnswerNow, Note, Typed, TypeOK
<1>5. TypeOK'
  BY <1>1, <1>2, <1>3, <1>4 DEF TypeOK, RowState, Answer, Stage, BodyOf, Answered
<1>6. RunningOwnsRow'
  <2>. SUFFICES ASSUME NEW d \in Call, Dispatching(d)'
                PROVE  Dispatching(d) /\ KeyOf(d) # k /\ call'[d] = call[d]
    BY <1>1, <1>2, <1>3 DEF TypeOK, RunningOwnsRow, Dispatching, KeyOf, BodyOf
  <2>. QED
    BY <1>1, <1>3, AbsentIsQuiet DEF TypeOK, Dispatching, Answered
<1>7. OwnerRuns'
  BY <1>1, <1>3 DEF TypeOK, OwnerRuns, Dispatching, KeyOf, Answered
<1>8. RowHistory'
  BY <1>1, <1>2, <1>3, <1>4 DEF TypeOK, RowHistory
<1>9. JoinedFollowsOwner'
  <2>. SUFFICES ASSUME NEW d \in Call, call'[d].stage = "joined"
                PROVE  /\ call[d].stage = "joined" /\ call'[d] = call[d]
                       /\ call[d].via # c
    BY <1>1, <1>2, <1>3 DEF TypeOK, JoinedFollowsOwner, KeyOf
  <2>. QED
    BY <1>1, <1>3 DEF TypeOK, JoinedFollowsOwner, Answered
<1>10. DownIsEmpty'
  BY <1>3 DEF DownIsEmpty
<1>11. AtMostOnce' /\ EffectMatchesRow'
  BY <1>1, <1>2, <1>3 DEF TypeOK, AtMostOnce, EffectMatchesRow, BodyOf
<1>. QED
  BY <1>5, <1>6, <1>7, <1>8, <1>9, <1>10, <1>11

LEMMA JoinPreserves ==
  ASSUME IInv, NEW c \in Call, Join(c)
  PROVE  IInv'
<1>. DEFINE o == owner[KeyOf(c)]
<1>. USE DEF IInv
<1>1. /\ o \in Call /\ Dispatching(o) /\ KeyOf(o) = KeyOf(c)
      /\ call[c].stage = "idle" /\ o # c
  BY DEF Join, Arriving, TypeOK, KeyOf, OwnerRuns, Dispatching
<1>2. /\ call' = [call EXCEPT ![c] = [stage |-> "joined", answer |-> "none", via |-> o]]
      /\ phase = "open"
      /\ UNCHANGED <<phase, starts, row, owner, req, effects, decided>>
  BY DEF Join, Arriving
<1>3. TypeOK'
  BY <1>1, <1>2 DEF TypeOK, Stage, Answer
<1>4. RunningOwnsRow' /\ OwnerRuns'
  BY <1>1, <1>2 DEF TypeOK, RunningOwnsRow, OwnerRuns, Dispatching, KeyOf, BodyOf
<1>5. JoinedFollowsOwner'
  <2>. SUFFICES ASSUME NEW d \in Call, d # c, call[d].stage = "joined"
                PROVE  call[d].via # c
    BY <1>1, <1>2 DEF TypeOK, JoinedFollowsOwner, KeyOf, Dispatching
  <2>. QED
    BY <1>1 DEF JoinedFollowsOwner
<1>6. DownIsEmpty' /\ RowHistory' /\ AtMostOnce' /\ EffectMatchesRow'
  BY <1>2 DEF DownIsEmpty, RowHistory, AtMostOnce, EffectMatchesRow, BodyOf
<1>. QED
  BY <1>3, <1>4, <1>5, <1>6

-----------------------------------------------------------------------------
(* Dispatch and settlement *)

LEMMA ApplyPreserves ==
  ASSUME IInv, NEW c \in Call, Apply(c)
  PROVE  IInv'
<1>. DEFINE k == KeyOf(c)
<1>. USE DEF IInv
<1>1. /\ k \in Key /\ owner[k] = c /\ row[k].state = "in_flight"
      /\ row[k].body = BodyOf(c) /\ effects[k] = {} /\ call[c].stage = "dispatching"
  BY DEF Apply, TypeOK, KeyOf, RunningOwnsRow, Dispatching
<1>2. /\ call' = [call EXCEPT ![c].stage = "applied"]
      /\ effects' = [effects EXCEPT ![k] = {c}]
      /\ phase # "down"
      /\ UNCHANGED <<phase, starts, row, owner, req, decided>>
  BY <1>1 DEF Apply, TypeOK
<1>3. TypeOK'
  BY <1>1, <1>2 DEF TypeOK, Stage
<1>4. RunningOwnsRow'
  BY <1>1, <1>2 DEF TypeOK, RunningOwnsRow, Dispatching, KeyOf, BodyOf
<1>5. OwnerRuns'
  BY <1>2 DEF TypeOK, OwnerRuns, Dispatching, KeyOf
<1>6. RowHistory'
  BY <1>1, <1>2 DEF TypeOK, RowHistory
<1>7. JoinedFollowsOwner'
  BY <1>1, <1>2 DEF TypeOK, JoinedFollowsOwner, KeyOf
<1>8. DownIsEmpty'
  BY <1>2 DEF DownIsEmpty
<1>9. AtMostOnce' /\ EffectMatchesRow'
  BY <1>1, <1>2 DEF TypeOK, AtMostOnce, EffectMatchesRow, BodyOf
<1>. QED
  BY <1>3, <1>4, <1>5, <1>6, <1>7, <1>8, <1>9

\* Settling a running call keeps the invariant if a typed answer goes into
\* its completed row and tells whether memory changed.
LEMMA SettlePreserves ==
  ASSUME IInv, NEW c \in Call, NEW a \in Typed \cup {"outcome_unknown"},
         NEW s \in RowState, NEW stored \in Answer,
         phase # "down", Dispatching(c),
         row' = [row EXCEPT ![KeyOf(c)] = [state |-> s, body |-> BodyOf(c), answer |-> stored]],
         Settle(c, a),
         s \in {"completed", "outcome_unknown", "in_flight"},
         s = "completed" => stored \in Typed /\ (stored = "refused" <=> call[c].stage = "dispatching"),
         a \in Typed => s = "completed" /\ stored = a
  PROVE  IInv'
<1>. DEFINE k == KeyOf(c)
<1>. USE DEF IInv
<1>1. /\ k \in Key /\ owner[k] = c /\ decided[k] = {}
      /\ row[k].state = "in_flight" /\ row[k].body = BodyOf(c)
      /\ call[c].stage = "dispatching" => effects[k] = {}
      /\ call[c].stage = "applied" => effects[k] = {c}
      /\ call[c].stage \in {"dispatching", "applied"}
  BY DEF TypeOK, KeyOf, RunningOwnsRow, RowHistory, Dispatching
<1>2. /\ call' = [call EXCEPT ![c] = [stage |-> "answered", answer |-> a, via |-> NoCall]]
      /\ owner' = [owner EXCEPT ![k] = NoCall]
      /\ decided' = [decided EXCEPT ![k] = {a} \cap Typed]
      /\ UNCHANGED <<phase, starts, req, effects>>
  BY <1>1 DEF Settle, Answered, Note, TypeOK
<1>3. TypeOK'
  BY <1>1, <1>2 DEF TypeOK, Stage, BodyOf, Answer
<1>4. RunningOwnsRow'
  <2>. SUFFICES ASSUME NEW d \in Call, Dispatching(d)'
                PROVE  d # c /\ Dispatching(d) /\ KeyOf(d) # k /\ call'[d] = call[d]
    BY <1>1, <1>2 DEF TypeOK, RunningOwnsRow, Dispatching, KeyOf, BodyOf
  <2>. QED
    BY <1>1, <1>2 DEF TypeOK, RunningOwnsRow, Dispatching
<1>5. OwnerRuns'
  BY <1>1, <1>2 DEF TypeOK, OwnerRuns, Dispatching, KeyOf
<1>6. RowHistory'
  <2>. SUFFICES ASSUME NEW j \in Key PROVE RowHistory!(j)'
    BY DEF RowHistory
  <2>1. CASE j # k
    BY <2>1, <1>1, <1>2 DEF TypeOK, RowHistory
  <2>2. CASE j = k
    BY <2>2, <1>1, <1>2 DEF TypeOK, Typed
  <2>. QED
    BY <2>1, <2>2
<1>7. JoinedFollowsOwner'
  <2>. SUFFICES ASSUME NEW d \in Call, call'[d].stage = "joined"
                PROVE  JoinedFollowsOwner!(d)'
    BY DEF JoinedFollowsOwner
  <2>1. d # c /\ call'[d] = call[d] /\ call[d].via \in Call /\ KeyOf(call[d].via) = KeyOf(d)
    BY <1>2 DEF TypeOK, JoinedFollowsOwner
  <2>2. CASE call[d].via = c
    BY <2>1, <2>2, <1>1, <1>2 DEF TypeOK, KeyOf
  <2>3. CASE call[d].via # c
    BY <2>1, <2>3, <1>1, <1>2 DEF TypeOK, JoinedFollowsOwner, KeyOf
  <2>. QED
    BY <2>2, <2>3
<1>8. DownIsEmpty'
  BY <1>2 DEF DownIsEmpty
<1>9. AtMostOnce' /\ EffectMatchesRow'
  BY <1>1, <1>2 DEF TypeOK, AtMostOnce, EffectMatchesRow, BodyOf
<1>. QED
  BY <1>3, <1>4, <1>5, <1>6, <1>7, <1>8, <1>9

LEMMA CompletePreserves ==
  ASSUME IInv, NEW c \in Call, NEW a \in Typed, Complete(c, a)
  PROVE  IInv'
<1>1. a = "refused" <=> call[c].stage = "dispatching"
  BY DEF Complete, Running, Dispatching, Outcomes, Typed
<1>2. "completed" \in RowState /\ a \in Answer
  BY DEF RowState, Answer
<1>. QED
  BY <1>1, <1>2, SettlePreserves DEF Complete, Running, SetRow

LEMMA LoseOutcomePreserves ==
  ASSUME IInv, NEW c \in Call, LoseOutcome(c)
  PROVE  IInv'
<1>. USE DEF LoseOutcome, Running, RowState, Answer, Typed
<1>1. CASE SetRow(c, "outcome_unknown", "none")
  BY <1>1, SettlePreserves DEF SetRow
<1>2. CASE UNCHANGED row
  <2>. DEFINE k == KeyOf(c)
  <2>1. k \in Key /\ row[k].state = "in_flight" /\ row[k].body = BodyOf(c) /\ row[k].answer \in Answer
    BY DEF IInv, TypeOK, KeyOf, RunningOwnsRow
  <2>2. row' = [row EXCEPT ![k] = [state |-> "in_flight", body |-> BodyOf(c), answer |-> row[k].answer]]
    BY <1>2, <2>1 DEF IInv, TypeOK
  <2>. QED
    BY <2>1, <2>2, SettlePreserves
<1>. QED
  BY <1>1, <1>2

-----------------------------------------------------------------------------
(* The process ends and starts again *)

\* When the process ends nothing is running; what is left to show is that the
\* rows it leaves are typed and agree with the history.
LEMMA ProcessEndPreserves ==
  ASSUME IInv, ProcessEnds,
         call' \in [Call -> [stage : Stage, answer : Answer, via : Call \cup {NoCall}]],
         \A d \in Call : ~Live(d)',
         row' \in [Key -> [state : RowState, body : Body \cup {NoBody}, answer : Answer]],
         RowHistory', EffectMatchesRow'
  PROVE  IInv'
<1>. USE DEF IInv, ProcessEnds
<1>1. TypeOK'
  BY DEF TypeOK
<1>2. RunningOwnsRow' /\ JoinedFollowsOwner' /\ DownIsEmpty'
  BY DEF RunningOwnsRow, JoinedFollowsOwner, DownIsEmpty, Live, Dispatching
<1>3. OwnerRuns' /\ AtMostOnce'
  BY DEF OwnerRuns, AtMostOnce
<1>. QED
  BY <1>1, <1>2, <1>3

\* Losing the live calls leaves typed records and nothing live.
LEMMA LoseLiveQuiet ==
  ASSUME TypeOK
  PROVE  /\ LoseLive \in [Call -> [stage : Stage, answer : Answer, via : Call \cup {NoCall}]]
         /\ \A d \in Call : LoseLive[d].stage \notin {"dispatching", "applied", "joined"}
BY DEF TypeOK, LoseLive, Live, Stage

LEMMA CrashPreserves ==
  ASSUME IInv, Crash
  PROVE  IInv'
<1>1. \A d \in Call : ~Live(d)'
  BY LoseLiveQuiet DEF IInv, Crash, Live
<1>2. RowHistory' /\ EffectMatchesRow'
  BY DEF IInv, Crash, ProcessEnds, RowHistory, EffectMatchesRow, BodyOf
<1>3. row' \in [Key -> [state : RowState, body : Body \cup {NoBody}, answer : Answer]]
  BY DEF IInv, TypeOK, Crash
<1>. QED
  BY <1>1, <1>2, <1>3, LoseLiveQuiet, ProcessEndPreserves DEF IInv, Crash

LEMMA CrashReservedPreserves ==
  ASSUME IInv, NEW c \in Call, CrashReserved(c)
  PROVE  IInv'
<1>. DEFINE k == KeyOf(c)
<1>1. /\ k \in Key /\ row[k].state = "absent" /\ effects[k] = {} /\ decided[k] = {}
      /\ row' = [row EXCEPT ![k] = [state |-> "reserved", body |-> BodyOf(c), answer |-> "none"]]
      /\ UNCHANGED <<req, effects, decided>>
  BY DEF IInv, TypeOK, KeyOf, RowHistory, CrashReserved, Arriving, SetRow, ProcessEnds
<1>2. row' \in [Key -> [state : RowState, body : Body \cup {NoBody}, answer : Answer]]
  BY <1>1 DEF IInv, TypeOK, RowState, Answer, BodyOf
<1>3. RowHistory' /\ EffectMatchesRow'
  BY <1>1 DEF IInv, TypeOK, RowHistory, EffectMatchesRow, BodyOf
<1>4. call' \in [Call -> [stage : Stage, answer : Answer, via : Call \cup {NoCall}]]
  BY LoseLiveQuiet DEF IInv, CrashReserved, Stage
<1>5. \A d \in Call : ~Live(d)'
  BY LoseLiveQuiet DEF IInv, CrashReserved, Live
<1>. QED
  BY <1>2, <1>3, <1>4, <1>5, ProcessEndPreserves DEF CrashReserved

LEMMA CrashCompletedPreserves ==
  ASSUME IInv, NEW c \in Call, CrashCompleted(c)
  PROVE  IInv'
<1>. DEFINE k == KeyOf(c)
<1>1. PICK a \in Typed :
        /\ a = "refused" <=> call[c].stage = "dispatching"
        /\ row' = [row EXCEPT ![k] = [state |-> "completed", body |-> BodyOf(c), answer |-> a]]
  BY DEF CrashCompleted, Running, Dispatching, Outcomes, Typed, SetRow
<1>2. /\ k \in Key /\ decided[k] = {} /\ row[k].state = "in_flight" /\ row[k].body = BodyOf(c)
      /\ effects[k] = {} <=> call[c].stage = "dispatching"
      /\ UNCHANGED <<req, effects, decided>>
  BY DEF IInv, TypeOK, KeyOf, RowHistory, RunningOwnsRow, CrashCompleted, Running, Dispatching, ProcessEnds
<1>3. row' \in [Key -> [state : RowState, body : Body \cup {NoBody}, answer : Answer]]
  BY <1>1, <1>2 DEF IInv, TypeOK, RowState, Answer, BodyOf
<1>4. RowHistory'
  BY <1>1, <1>2 DEF IInv, TypeOK, RowHistory
<1>5. EffectMatchesRow'
  BY <1>1, <1>2 DEF IInv, TypeOK, EffectMatchesRow, BodyOf
<1>6. \A d \in Call : ~Live(d)'
  BY LoseLiveQuiet DEF IInv, CrashCompleted, Live
<1>. QED
  BY <1>3, <1>4, <1>5, <1>6, LoseLiveQuiet, ProcessEndPreserves DEF IInv, CrashCompleted

LEMMA ClosePreserves ==
  ASSUME IInv, Close
  PROVE  IInv'
<1>. USE DEF IInv, Close
<1>1. TypeOK' /\ RunningOwnsRow' /\ OwnerRuns' /\ JoinedFollowsOwner'
  BY DEF TypeOK, RunningOwnsRow, OwnerRuns, JoinedFollowsOwner, Dispatching, KeyOf, BodyOf
<1>2. RowHistory' /\ DownIsEmpty' /\ AtMostOnce' /\ EffectMatchesRow'
  BY DEF RowHistory, DownIsEmpty, AtMostOnce, EffectMatchesRow, BodyOf
<1>. QED
  BY <1>1, <1>2

LEMMA StartPreserves ==
  ASSUME IInv, Start
  PROVE  IInv'
<1>. USE DEF IInv
<1>1. PICK purged \in SUBSET Completed :
        /\ row' = [k \in Key |-> IF k \in purged THEN NoRow ELSE Recovered(row[k])]
        /\ effects' = [k \in Key |-> IF k \in purged THEN {} ELSE effects[k]]
        /\ decided' = [k \in Key |-> IF k \in purged THEN {} ELSE decided[k]]
  BY DEF Start
<1>2. /\ phase = "down" /\ phase' = "open" /\ starts < MaxStarts /\ starts' = starts + 1
      /\ UNCHANGED <<owner, call, req>>
      /\ \A d \in Call : ~Live(d)
  BY DEF Start, DownIsEmpty
<1>3. TypeOK'
  <2>1. \A k \in Key : Recovered(row[k]) \in [state : RowState, body : Body \cup {NoBody}, answer : Answer]
    BY DEF TypeOK, Recovered, RowState
  <2>2. NoRow \in [state : RowState, body : Body \cup {NoBody}, answer : Answer]
    BY DEF NoRow, RowState, Answer
  <2>3. starts' \in 0 .. MaxStarts
    BY <1>2, ServiceAssumption DEF TypeOK
  <2>. QED
    BY <1>1, <1>2, <2>1, <2>2, <2>3 DEF TypeOK
<1>4. RunningOwnsRow' /\ OwnerRuns' /\ JoinedFollowsOwner'
  BY <1>2 DEF TypeOK, RunningOwnsRow, OwnerRuns, JoinedFollowsOwner, Dispatching, Live
<1>5. RowHistory'
  BY <1>1 DEF TypeOK, RowHistory, NoRow, Recovered
<1>6. DownIsEmpty'
  BY <1>2 DEF DownIsEmpty
<1>7. AtMostOnce'
  BY <1>1 DEF AtMostOnce
<1>8. EffectMatchesRow'
  BY <1>1, <1>2 DEF TypeOK, EffectMatchesRow, Recovered, BodyOf
<1>. QED
  BY <1>3, <1>4, <1>5, <1>6, <1>7, <1>8

-----------------------------------------------------------------------------
(* The theorems *)

LEMMA NextPreserves == IInv /\ [Next]_vars => IInv'
<1>. SUFFICES ASSUME IInv, [Next]_vars PROVE IInv'
  OBVIOUS
<1>1. CASE UNCHANGED vars
  BY <1>1 DEF IInv, vars, TypeOK, RunningOwnsRow, OwnerRuns, RowHistory, JoinedFollowsOwner,
              DownIsEmpty, AtMostOnce, EffectMatchesRow, Dispatching, Live, KeyOf, BodyOf
<1>2. CASE Next
  BY <1>2, TurnAwayPreserves, DispatchPreserves, ReserveFailsPreserves, ClaimFailsPreserves,
     ReusePreserves, JoinPreserves, ApplyPreserves, LoseOutcomePreserves, CompletePreserves,
     DeliverJoinedPreserves, CrashReservedPreserves, CrashCompletedPreserves, ClosePreserves,
     CrashPreserves, StartPreserves DEF Next, Finish
<1>. QED
  BY <1>1, <1>2

LEMMA Invariance == Spec => []IInv
BY InitIInv, NextPreserves, PTL DEF Spec

\* The state variables of the service keep their types.
THEOREM TypeCorrect == Spec => []TypeOK
<1>1. IInv => TypeOK
  BY DEF IInv
<1>. QED
  BY <1>1, Invariance, PTL

\* However many duplicates, crashes, restarts and failed ledger writes there
\* are, a remembered key changes memory at most once, and only for the payload
\* its ledger row names.
THEOREM MutationsAtMostOnce == Spec => [](AtMostOnce /\ EffectMatchesRow)
<1>1. IInv => AtMostOnce /\ EffectMatchesRow
  BY DEF IInv
<1>. QED
  BY <1>1, Invariance, PTL

\* Typed answers given for a remembered key agree with each other, with the
\* ledger row and with what happened to memory.
THEOREM TypedAnswersAgree == Spec => [](AnswersAgree /\ TypedIsDurable)
<1>1. IInv => AnswersAgree /\ TypedIsDurable
  <2>. SUFFICES ASSUME RowHistory PROVE AnswersAgree /\ TypedIsDurable
    BY DEF IInv
  <2>1. ASSUME NEW k \in Key, NEW a \in decided[k]
        PROVE  row[k].state = "completed" /\ row[k].answer = a
    BY <2>1 DEF RowHistory
  <2>2. TypedIsDurable
    BY <2>1 DEF TypedIsDurable
  <2>3. AnswersAgree
    BY <2>1 DEF AnswersAgree, RowHistory, Typed
  <2>. QED
    BY <2>2, <2>3
<1>. QED
  BY <1>1, Invariance, PTL

\* A ledger row that says outcome_unknown is never changed again.
THEOREM TombstonesPermanent == Spec => TombstoneForever
<1>1. IInv /\ [Next]_vars => \A k \in Key : row[k].state = "outcome_unknown" => row'[k] = row[k]
  <2>. SUFFICES ASSUME IInv, [Next]_vars, NEW k \in Key, row[k].state = "outcome_unknown"
                PROVE  row'[k] = row[k]
    OBVIOUS
  <2>1. \A c \in Call : Dispatching(c) => KeyOf(c) # k
    BY DEF IInv, RunningOwnsRow
  <2>2. CASE UNCHANGED vars
    BY <2>2 DEF vars
  <2>3. ASSUME NEW c \in Call, Dispatch(c) \/ ClaimFails(c) \/ CrashReserved(c)
        PROVE  row'[k] = row[k]
    BY <2>3 DEF Dispatch, ClaimFails, CrashReserved, SetRow, IInv, TypeOK
  <2>4. ASSUME NEW c \in Call, Finish(c) \/ CrashCompleted(c)
        PROVE  row'[k] = row[k]
    BY <2>1, <2>4 DEF Finish, LoseOutcome, Complete, CrashCompleted, Running, SetRow, IInv, TypeOK
  <2>5. ASSUME NEW c \in Call,
               \/ TurnAway(c) \/ ReserveFails(c) \/ Reuse(c)
               \/ Join(c) \/ Apply(c) \/ DeliverJoined(c)
        PROVE  row'[k] = row[k]
    BY <2>5 DEF TurnAway, ReserveFails, Reuse, Join, Apply, DeliverJoined
  <2>6. CASE Close \/ Crash
    BY <2>6 DEF Close, Crash
  <2>7. CASE Start
    BY <2>7 DEF Start, Completed, Recovered, IInv, TypeOK
  <2>. QED
    BY <2>2, <2>3, <2>4, <2>5, <2>6, <2>7 DEF Next
<1>. QED
  BY <1>1, Invariance, PTL DEF Spec, TombstoneForever

-----------------------------------------------------------------------------
(* MutationService implements KeyedMutation *)

\* A call that changed memory has got past its dispatch, for good.
Changers ==
  \A k \in Key : \A c \in effects[k] : call[c].stage \notin {"idle", "dispatching", "joined"}

\* A call that others joined is settled by its own dispatch, so with a typed
\* answer or an unknown one.
ViaSettled ==
  \A c \in Call :
    call[c].stage = "joined" /\ call[call[c].via].stage = "answered" =>
      call[call[c].via].answer \in Typed \cup {"outcome_unknown"}

\* A call joins for the payload of the row, and the row stays while it waits.
JoinedBody ==
  \A c \in Call : call[c].stage = "joined" =>
    row[KeyOf(c)].state # "absent" /\ row[KeyOf(c)].body = BodyOf(c)

\* What a step does to one call: an answer is final, a dispatch ends with a
\* typed or an unknown answer, and only a running call is joined.
CallMoves(c) ==
  /\ call[c].stage = "answered" => call'[c] = call[c]
  /\ call[c].stage \notin {"idle", "dispatching", "joined"} =>
       call'[c].stage \notin {"idle", "dispatching", "joined"}
  /\ Dispatching(c) /\ call'[c].stage = "answered" =>
       call'[c].answer \in Typed \cup {"outcome_unknown"}
  /\ call'[c].stage = "joined" =>
       \/ call[c].stage = "joined" /\ call'[c].via = call[c].via
       \/ Join(c) /\ Dispatching(call'[c].via) /\ call'[c].via \in Call /\ call'[call'[c].via] = call[call'[c].via]

LEMMA CallMovesAll ==
  ASSUME IInv, [Next]_vars, NEW c \in Call
  PROVE  CallMoves(c)
<1>. USE DEF IInv, TypeOK, CallMoves, Dispatching
<1>1. CASE UNCHANGED vars
  BY <1>1 DEF vars
<1>2. ASSUME NEW d \in Call, TurnAway(d) \/ ReserveFails(d) \/ Reuse(d) \/ ClaimFails(d)
      PROVE  CallMoves(c)
  <2>1. call[d].stage = "idle" /\ \E a : call' = [call EXCEPT ![d] = Answered(d, a)]
    BY <1>2, Zenon DEF TurnAway, ReserveFails, Reuse, ClaimFails, Arriving, AnswerNow
  <2>. QED
    BY <2>1 DEF Answered
<1>3. ASSUME NEW d \in Call, Dispatch(d) \/ Apply(d)
      PROVE  CallMoves(c)
  BY <1>3 DEF Dispatch, Apply, Arriving
<1>4. ASSUME NEW d \in Call, Join(d)
      PROVE  CallMoves(c)
  <2>1. owner[KeyOf(d)] \in Call /\ Dispatching(owner[KeyOf(d)]) /\ call[d].stage = "idle"
    BY <1>4 DEF Join, Arriving, OwnerRuns, KeyOf
  <2>. QED
    BY <1>4, <2>1 DEF Join
<1>5. ASSUME NEW d \in Call, DeliverJoined(d)
      PROVE  CallMoves(c)
  BY <1>5 DEF DeliverJoined, Answered
<1>6. ASSUME NEW d \in Call, Finish(d)
      PROVE  CallMoves(c)
  <2>1. Dispatching(d) /\ \E a \in Typed \cup {"outcome_unknown"} : call' = [call EXCEPT ![d] = Answered(d, a)]
    BY <1>6 DEF Finish, LoseOutcome, Complete, Settle, Running
  <2>. QED
    BY <2>1 DEF Answered
<1>7. ASSUME NEW d \in Call, CrashReserved(d)
      PROVE  CallMoves(c)
  BY <1>7 DEF CrashReserved, Arriving, LoseLive, Live
<1>8. ASSUME NEW d \in Call, CrashCompleted(d)
      PROVE  CallMoves(c)
  BY <1>8 DEF CrashCompleted, LoseLive, Live
<1>9. CASE Close \/ Crash \/ Start
  BY <1>9 DEF Close, Crash, Start, LoseLive, Live
<1>. QED
  BY <1>1, <1>2, <1>3, <1>4, <1>5, <1>6, <1>7, <1>8, <1>9 DEF Next

\* A row is written for one payload until the service starts again.
LEMMA RowKeepsBody ==
  ASSUME IInv, [Next]_vars, ~Start, NEW k \in Key, row[k].state # "absent"
  PROVE  row'[k].state # "absent" /\ row'[k].body = row[k].body
<1>. USE DEF IInv, TypeOK
<1>1. CASE row' = row
  BY <1>1
<1>2. ASSUME NEW c \in Call, Dispatch(c) \/ ClaimFails(c) \/ CrashReserved(c)
      PROVE  row'[k].state # "absent" /\ row'[k].body = row[k].body
  BY <1>2 DEF Dispatch, ClaimFails, CrashReserved, SetRow
<1>3. ASSUME NEW c \in Call, Finish(c) \/ CrashCompleted(c)
      PROVE  row'[k].state # "absent" /\ row'[k].body = row[k].body
  <2>1. row[KeyOf(c)].body = BodyOf(c)
    BY <1>3 DEF Finish, LoseOutcome, Complete, CrashCompleted, Running, RunningOwnsRow
  <2>2. row' = row \/ \E s \in {"completed", "outcome_unknown"}, a \in Typed \cup {"none"} : SetRow(c, s, a)
    BY <1>3 DEF Finish, LoseOutcome, Complete, CrashCompleted
  <2>. QED
    BY <1>1, <2>1, <2>2 DEF SetRow
<1>4. ASSUME NEW c \in Call, TurnAway(c) \/ ReserveFails(c) \/ Reuse(c) \/ Join(c) \/ Apply(c) \/ DeliverJoined(c)
      PROVE  row' = row
  BY <1>4 DEF TurnAway, ReserveFails, Reuse, Join, Apply, DeliverJoined
<1>. QED
  BY <1>1, <1>2, <1>3, <1>4 DEF Next, vars, Close, Crash

PInv == IInv /\ Changers /\ ViaSettled /\ JoinedBody

LEMMA ChangersPreserved ==
  ASSUME PInv, [Next]_vars
  PROVE  Changers'
<1>. SUFFICES ASSUME NEW k \in Key, NEW c \in effects'[k]
              PROVE  call'[c].stage \notin {"idle", "dispatching", "joined"}
  BY DEF Changers
<1>1. CASE c \in effects[k]
  <2>1. c \in Call
    BY <1>1 DEF PInv, IInv, TypeOK
  <2>. QED
    BY <1>1, <2>1, CallMovesAll DEF PInv, Changers, CallMoves
<1>2. CASE c \notin effects[k]
  <2>1. PICK d \in Call : Apply(d)
    BY <1>2 DEF vars, Next, TurnAway, Dispatch, ReserveFails, ClaimFails, Reuse, Join, Finish,
       LoseOutcome, Complete, Settle, DeliverJoined, CrashReserved, CrashCompleted, ProcessEnds,
       Close, Crash, Start, AnswerNow, PInv, IInv, TypeOK
  <2>. QED
    BY <1>2, <2>1 DEF Apply, PInv, IInv, TypeOK
<1>. QED
  BY <1>1, <1>2

LEMMA ViaSettledPreserved ==
  ASSUME PInv, [Next]_vars
  PROVE  ViaSettled'
<1>. SUFFICES ASSUME NEW c \in Call, call'[c].stage = "joined", call'[call'[c].via].stage = "answered"
              PROVE  call'[call'[c].via].answer \in Typed \cup {"outcome_unknown"}
  BY DEF ViaSettled
<1>1. CallMoves(c)
  BY CallMovesAll DEF PInv
<1>2. call[c].stage = "joined" /\ call'[c].via = call[c].via
  BY <1>1 DEF CallMoves, Dispatching
<1>3. call[c].via \in Call /\ call[call[c].via].stage \in {"dispatching", "applied", "answered"}
  BY <1>2 DEF PInv, IInv, JoinedFollowsOwner
<1>4. CallMoves(call[c].via)
  BY <1>3, CallMovesAll DEF PInv
<1>. QED
  BY <1>2, <1>3, <1>4 DEF PInv, ViaSettled, CallMoves, Dispatching

LEMMA JoinedBodyPreserved ==
  ASSUME PInv, [Next]_vars
  PROVE  JoinedBody'
<1>. SUFFICES ASSUME NEW c \in Call, call'[c].stage = "joined"
              PROVE  row'[KeyOf(c)].state # "absent" /\ row'[KeyOf(c)].body = BodyOf(c)
  BY DEF JoinedBody, KeyOf, BodyOf, vars, Next, TurnAway, Dispatch, ReserveFails, ClaimFails, Reuse,
     Join, Apply, Finish, LoseOutcome, Complete, Settle, DeliverJoined, CrashReserved,
     CrashCompleted, ProcessEnds, Close, Crash, Start
<1>1. KeyOf(c) \in Key
  BY DEF PInv, IInv, TypeOK, KeyOf
<1>2. CASE call[c].stage = "joined"
  <2>1. ~Start
    BY <1>2 DEF PInv, IInv, DownIsEmpty, Start, Live
  <2>. QED
    BY <1>1, <1>2, <2>1, RowKeepsBody DEF PInv, JoinedBody
<1>3. CASE call[c].stage # "joined"
  <2>1. Join(c)
    BY <1>3, CallMovesAll DEF PInv, CallMoves
  <2>. QED
    BY <2>1 DEF Join
<1>. QED
  BY <1>2, <1>3

LEMMA PInvariance == Spec => []PInv
<1>1. Init => PInv
  BY InitIInv DEF Init, PInv, Changers, ViaSettled, JoinedBody
<1>2. PInv /\ [Next]_vars => PInv'
  BY NextPreserves, ChangersPreserved, ViaSettledPreserved, JoinedBodyPreserved DEF PInv
<1>. QED
  BY <1>1, <1>2, PTL DEF Spec

\* Nothing happens to a key whose row and history stay as they are.
LEMMA KeyRests ==
  ASSUME TypeOK, NEW k \in Key, row'[k] = row[k], effects'[k] = effects[k]
  PROVE  Promise!KeyStep(k)
<1>1. row[k].state \in RowState
  BY DEF TypeOK
<1>2. Promise!Same(k)
  BY <1>1 DEF Promise!Same, FateOf, RowState
<1>. QED
  BY <1>2 DEF Promise!KeyStep

\* A key whose row was absent, reserved or in flight and is written by a call.
LEMMA KeyWritten ==
  ASSUME PInv, PInv', NEW k \in Key, effects'[k] = effects[k],
         \/ row[k].state = "absent" /\ row'[k].state \in {"reserved", "in_flight", "outcome_unknown"}
                                    /\ row'[k].body \in Body
         \/ row[k].state = "in_flight" /\ row'[k].state \in {"completed", "outcome_unknown"}
                                       /\ row'[k].body = row[k].body
  PROVE  Promise!KeyStep(k)
<1>1. CASE row[k].state = "absent" /\ row'[k].state \in {"reserved", "in_flight", "outcome_unknown"}
                                   /\ row'[k].body \in Body
  <2>1. effects[k] = {}
    BY <1>1 DEF PInv, IInv, RowHistory
  <2>. QED
    BY <1>1, <2>1 DEF Promise!KeyStep, Promise!Begin, FateOf
<1>2. CASE row[k].state = "in_flight" /\ row'[k].state = "completed" /\ row'[k].body = row[k].body
  <2>1. row'[k].answer \in Typed /\ (row'[k].answer = "refused" <=> effects'[k] = {})
    BY <1>2 DEF PInv, IInv, RowHistory
  <2>. QED
    BY <1>2, <2>1 DEF Promise!KeyStep, Promise!Settle, FateOf
<1>3. CASE row[k].state = "in_flight" /\ row'[k].state = "outcome_unknown" /\ row'[k].body = row[k].body
  BY <1>3 DEF Promise!KeyStep, Promise!Lose, FateOf
<1>. QED
  BY <1>1, <1>2, <1>3

\* The start of the service forgets settled keys and loses the open ones.
LEMMA KeyRestarted ==
  ASSUME PInv, Start, NEW k \in Key
  PROVE  Promise!KeyStep(k)
<1>1. PICK purged \in SUBSET Completed :
        /\ row' = [j \in Key |-> IF j \in purged THEN NoRow ELSE Recovered(row[j])]
        /\ effects' = [j \in Key |-> IF j \in purged THEN {} ELSE effects[j]]
  BY DEF Start
<1>2. CASE k \in purged
  <2>1. row[k].state = "completed" /\ row'[k] = NoRow /\ effects'[k] = {}
    BY <1>1, <1>2 DEF Completed
  <2>. QED
    BY <2>1 DEF Promise!KeyStep, Promise!Forget, FateOf, NoRow
<1>3. CASE k \notin purged /\ row[k].state \in {"reserved", "in_flight"}
  <2>1. row'[k] = [row[k] EXCEPT !.state = "outcome_unknown"] /\ effects'[k] = effects[k]
    BY <1>1, <1>3 DEF Recovered
  <2>2. row'[k].state = "outcome_unknown" /\ row'[k].body = row[k].body
    BY <2>1 DEF PInv, IInv, TypeOK
  <2>. QED
    BY <1>3, <2>1, <2>2 DEF Promise!KeyStep, Promise!Lose, FateOf
<1>4. CASE k \notin purged /\ row[k].state \notin {"reserved", "in_flight"}
  <2>1. row'[k] = row[k] /\ effects'[k] = effects[k]
    BY <1>1, <1>4 DEF Recovered
  <2>. QED
    BY <2>1, KeyRests DEF PInv, IInv
<1>. QED
  BY <1>2, <1>3, <1>4

LEMMA KeyStepsAll ==
  ASSUME PInv, PInv', [Next]_vars, NEW k \in Key
  PROVE  Promise!KeyStep(k)
<1>. USE DEF PInv, IInv, TypeOK
<1>1. CASE UNCHANGED vars
  BY <1>1, KeyRests DEF vars
<1>2. ASSUME NEW c \in Call, TurnAway(c) \/ ReserveFails(c) \/ Reuse(c) \/ Join(c) \/ DeliverJoined(c)
      PROVE  row' = row /\ effects' = effects
  BY <1>2 DEF TurnAway, ReserveFails, Reuse, Join, DeliverJoined, AnswerNow
<1>3. ASSUME NEW c \in Call, Dispatch(c) \/ ClaimFails(c) \/ CrashReserved(c)
      PROVE  Promise!KeyStep(k)
  <2>1. PICK s \in {"reserved", "in_flight", "outcome_unknown"} : SetRow(c, s, "none")
    BY <1>3 DEF Dispatch, ClaimFails, CrashReserved
  <2>2. row[KeyOf(c)].state = "absent" /\ effects' = effects
    BY <1>3 DEF Dispatch, ClaimFails, CrashReserved, AnswerNow, ProcessEnds
  <2>3. CASE k = KeyOf(c)
    BY <2>1, <2>2, <2>3, KeyWritten DEF SetRow, BodyOf
  <2>4. CASE k # KeyOf(c)
    BY <2>1, <2>2, <2>4, KeyRests DEF SetRow
  <2>. QED
    BY <2>3, <2>4
<1>4. ASSUME NEW c \in Call, Finish(c) \/ CrashCompleted(c)
      PROVE  Promise!KeyStep(k)
  <2>1. /\ row[KeyOf(c)].state = "in_flight" /\ row[KeyOf(c)].body = BodyOf(c)
        /\ effects' = effects
    BY <1>4 DEF Finish, LoseOutcome, Complete, CrashCompleted, Running, Settle, ProcessEnds, RunningOwnsRow
  <2>2. row' = row \/ \E s \in {"completed", "outcome_unknown"}, a \in Typed \cup {"none"} : SetRow(c, s, a)
    BY <1>4 DEF Finish, LoseOutcome, Complete, CrashCompleted
  <2>3. CASE k # KeyOf(c) \/ row' = row
    BY <2>1, <2>2, <2>3, KeyRests DEF SetRow
  <2>4. CASE k = KeyOf(c) /\ row' # row
    BY <2>1, <2>2, <2>4, KeyWritten DEF SetRow
  <2>. QED
    BY <2>3, <2>4
<1>5. ASSUME NEW c \in Call, Apply(c)
      PROVE  Promise!KeyStep(k)
  <2>1. /\ row' = row /\ row[KeyOf(c)].state = "in_flight" /\ row[KeyOf(c)].body = BodyOf(c)
        /\ call[c].stage = "dispatching" /\ effects[KeyOf(c)] = {}
    BY <1>5 DEF Apply, RunningOwnsRow, Dispatching
  <2>2. effects' = [effects EXCEPT ![KeyOf(c)] = {c}]
    BY <1>5, <2>1 DEF Apply, KeyOf
  <2>3. CASE k # KeyOf(c)
    BY <2>1, <2>2, <2>3, KeyRests
  <2>4. CASE k = KeyOf(c)
    BY <2>1, <2>2, <2>4 DEF Promise!KeyStep, Promise!Change, Promise!Same, FateOf, KeyOf, BodyOf
  <2>. QED
    BY <2>3, <2>4
<1>6. CASE Close \/ Crash
  BY <1>6, KeyRests DEF Close, Crash, ProcessEnds
<1>7. CASE Start
  BY <1>7, KeyRestarted
<1>. QED
  BY <1>1, <1>2, <1>3, <1>4, <1>5, <1>6, <1>7, KeyRests DEF Next

-----------------------------------------------------------------------------
(* What the calls are told *)

\* A call that is not answered by a step is told nothing by it.
LEMMA CallRests ==
  ASSUME NEW c \in Call, call'[c] = call[c] \/ (call[c].stage # "answered" /\ call'[c].stage # "answered")
  PROVE  Promise!CallStep(c)
BY DEF Promise!CallStep

\* An answer that fits the row and the history as the step leaves them.
LEMMA CallTold ==
  ASSUME PInv, PInv', NEW c \in Call, NEW a \in Answer,
         call[c].stage # "answered", call'[c].stage = "answered", call'[c].answer = a,
         a \in Typed => /\ row'[KeyOf(c)].state = "completed" /\ row'[KeyOf(c)].answer = a
                        /\ row'[KeyOf(c)].body = BodyOf(c),
         a = "idempotency_conflict" =>
           row'[KeyOf(c)].state # "absent" /\ row'[KeyOf(c)].body # BodyOf(c),
         a \in {"unavailable", "idempotency_conflict"} => c \notin effects'[KeyOf(c)]
  PROVE  Promise!CallStep(c)
<1>1. KeyOf(c) \in Key /\ row'[KeyOf(c)].state \in RowState
  BY DEF PInv, IInv, TypeOK, KeyOf
<1>2. a = "refused" => c \notin effects'[KeyOf(c)]
  BY <1>1 DEF PInv, IInv, RowHistory, Typed
<1>. QED
  BY <1>1, <1>2 DEF Promise!CallStep, Promise!Answers, FateOf, KeyOf, BodyOf, RowState

LEMMA CallStepsAll ==
  ASSUME PInv, PInv', [Next]_vars, NEW c \in Call
  PROVE  Promise!CallStep(c)
<1>. SUFFICES ASSUME call[c].stage # "answered", call'[c].stage = "answered"
              PROVE  Promise!CallStep(c)
  BY CallRests, CallMovesAll DEF PInv, CallMoves
<1>1. /\ KeyOf(c) \in Key /\ call'[c].answer \in Answer
      /\ call[c].stage \in {"idle", "joined"} => c \notin effects[KeyOf(c)]
  BY DEF PInv, IInv, TypeOK, Changers, KeyOf
<1>. DEFINE told == call'[c].answer
            after == row'[KeyOf(c)]
            Fits == /\ told \in Typed => /\ after.state = "completed" /\ after.answer = told
                                         /\ after.body = BodyOf(c)
                    /\ told = "idempotency_conflict" =>
                         after.state # "absent" /\ after.body # BodyOf(c)
                    /\ told \in {"unavailable", "idempotency_conflict"} => c \notin effects'[KeyOf(c)]
<1>2. ASSUME Fits PROVE Promise!CallStep(c)
  BY <1>1, <1>2, CallTold
<1>3. ASSUME NEW d \in Call, TurnAway(d) \/ ReserveFails(d) \/ ClaimFails(d)
      PROVE  Fits
  BY <1>1, <1>3 DEF TurnAway, ReserveFails, ClaimFails, Arriving, AnswerNow, Typed, Answered,
     PInv, IInv, TypeOK
<1>4. ASSUME NEW d \in Call, Reuse(d)
      PROVE  Fits
  <2>1. PICK a : call' = [call EXCEPT ![d] = Answered(d, a)]
    BY <1>4, Zenon DEF Reuse, AnswerNow
  <2>2. c = d
    BY <2>1 DEF PInv, IInv, TypeOK
  <2>3. row' = row /\ effects' = effects /\ call[c].stage = "idle"
    BY <1>4, <2>2 DEF Reuse, AnswerNow, Arriving
  <2>4. \/ told = "idempotency_conflict" /\ after.state # "absent" /\ after.body # BodyOf(c)
        \/ after.state = "completed" /\ after.answer = told /\ after.body = BodyOf(c)
        \/ told = "outcome_unknown"
    BY <1>4, <2>2, <2>3 DEF Reuse, AnswerNow, Answered, PInv, IInv, TypeOK
  <2>5. after.state = "completed" => after.answer \in Typed
    BY <1>1, <2>3 DEF PInv, IInv, RowHistory
  <2>. QED
    BY <1>1, <2>3, <2>4, <2>5 DEF Typed
<1>5. ASSUME NEW d \in Call, DeliverJoined(d)
      PROVE  Fits
  <2>. DEFINE v == call[d].via
  <2>1. c = d
    BY <1>5 DEF DeliverJoined, PInv, IInv, TypeOK
  <2>2. /\ call[c].stage = "joined" /\ call[v].stage = "answered"
        /\ told = call[v].answer /\ row' = row
    BY <1>5, <2>1 DEF DeliverJoined, Answered, PInv, IInv, TypeOK
  <2>3. /\ v \in Call /\ told \in Typed \cup {"outcome_unknown"}
        /\ told \in Typed => row[KeyOf(c)].state = "completed" /\ row[KeyOf(c)].answer = told
    BY <2>1, <2>2 DEF JoinedFollowsOwner, ViaSettled, PInv, IInv
  <2>4. row[KeyOf(c)].body = BodyOf(c)
    BY <2>1, <2>2 DEF PInv, JoinedBody
  <2>. QED
    BY <2>2, <2>3, <2>4 DEF Typed
<1>6. ASSUME NEW d \in Call, Finish(d)
      PROVE  Fits
  <2>1. c = d
    BY <1>6 DEF Finish, LoseOutcome, Complete, Settle, Answered, PInv, IInv, TypeOK
  <2>2. told = "outcome_unknown" \/ (told \in Typed /\ SetRow(c, "completed", told))
    BY <1>6, <2>1 DEF Finish, LoseOutcome, Complete, Settle, Answered, PInv, IInv, TypeOK
  <2>. QED
    BY <1>1, <2>2 DEF SetRow, Typed, PInv, IInv, TypeOK
<1>7. ~UNCHANGED vars
  BY DEF vars
<1>8. ASSUME NEW d \in Call, Dispatch(d) \/ Join(d) \/ Apply(d)
      PROVE  FALSE
  <2>1. CASE Dispatch(d) \/ Apply(d)
    <3>1. PICK s \in {"dispatching", "applied"} : call' = [call EXCEPT ![d].stage = s]
      BY <2>1 DEF Dispatch, Apply
    <3>. QED
      BY <3>1 DEF PInv, IInv, TypeOK
  <2>2. CASE Join(d)
    BY <2>2 DEF Join, PInv, IInv, TypeOK
  <2>. QED
    BY <1>8, <2>1, <2>2
<1>9. ASSUME call' = LoseLive \/ call' = call \/ \E d \in Call : call' = [LoseLive EXCEPT ![d].stage = "lost"]
      PROVE  FALSE
  <2>1. LoseLive[c] = call[c] \/ LoseLive[c].stage = "lost"
    BY DEF LoseLive, PInv, IInv, TypeOK
  <2>2. LoseLive \in [Call -> [stage : Stage, answer : Answer, via : Call \cup {NoCall}]]
    BY LoseLiveQuiet DEF PInv, IInv
  <2>3. ASSUME NEW d \in Call, call' = [LoseLive EXCEPT ![d].stage = "lost"]
        PROVE  call'[c].stage = LoseLive[c].stage \/ call'[c].stage = "lost"
    BY <2>2, <2>3
  <2>. QED
    BY <1>9, <2>1, <2>3
<1>10. ASSUME NEW d \in Call, CrashReserved(d) \/ CrashCompleted(d)
       PROVE  FALSE
  <2>1. call' = LoseLive \/ call' = [LoseLive EXCEPT ![d].stage = "lost"]
    BY <1>10, Zenon DEF CrashReserved, CrashCompleted
  <2>. QED
    BY <1>9, <2>1, Zenon
<1>11. ~(Close \/ Crash \/ Start)
  BY <1>9 DEF Close, Crash, Start
<1>. QED
  BY <1>2, <1>3, <1>4, <1>5, <1>6, <1>7, <1>8, <1>10, <1>11 DEF Next

\* The ledger and its service keep the promise of KeyedMutation: every key runs
\* for one payload and changes memory at most once, its fate is decided once,
\* and every answer, to the first caller, a joined one or a retry after a
\* restart, is true to it.
THEOREM PromiseKept == Spec => KeepsPromise
<1>1. Init => Promise!Init
  BY DEF Init, Promise!Init, FateOf, NoRow
<1>2. PInv /\ PInv' /\ [Next]_vars => [Promise!Next]_Promise!vars
  <2>. SUFFICES ASSUME PInv, PInv', [Next]_vars PROVE Promise!Next
    OBVIOUS
  <2>1. UNCHANGED req
    BY DEF vars, Next, TurnAway, Dispatch, ReserveFails, ClaimFails, Reuse, Join, Apply, Finish,
       LoseOutcome, Complete, Settle, DeliverJoined, CrashReserved, CrashCompleted, ProcessEnds,
       Close, Crash, Start
  <2>. QED
    BY <2>1, KeyStepsAll, CallStepsAll DEF Promise!Next
<1>. QED
  BY <1>1, <1>2, PInvariance, PTL DEF Spec, KeepsPromise, Promise!Spec
=============================================================================
