------------------------- MODULE MutationService -------------------------
(***************************************************************************)
(* The mutation path of AbmindService: idempotent dispatch over the        *)
(* durable request ledger, in-process joining of concurrent duplicates,    *)
(* and the crash / close / restart cycle around it.                        *)
(*                                                                         *)
(* JavaScript runs a handler without interruption up to its next await, so *)
(* everything between two awaits is one action.  A process can die at any  *)
(* instruction, so the places where a crash leaves another ledger row than *)
(* the end of the action does have actions of their own.                   *)
(*                                                                         *)
(* Abstracted: the pair (principal, idempotency key) is one Key, the       *)
(* canonical hash of (method, payload) one Body; authorization, envelope   *)
(* and payload validation are one nondeterministic refusal before the      *)
(* ledger is touched.                                                      *)
(***************************************************************************)
EXTENDS Naturals, FiniteSets

CONSTANTS Call,       \* calls of handle(): one per transport request
          Key,        \* (principalId, idempotencyKey) pairs
          Body,       \* (method, payload) pairs the canonical hash separates
          NoCall, NoBody,
          MaxStarts,  \* bound: service starts explored
          RetainCap   \* completed rows that cleanup() keeps (10000 in the code)

ASSUME ServiceAssumption ==
  /\ NoCall \notin Call
  /\ NoBody \notin Body
  /\ MaxStarts \in Nat
  /\ RetainCap \in Nat

VARIABLES
  phase,    \* "down", "open", or "closed" (close() called, calls draining)
  starts,   \* number of service starts so far
  row,      \* abmind_service_requests: one row per key
  owner,    \* inFlightMutations: the call whose dispatch a key's entry stands for
  call,     \* progress and answer of each call
  req,      \* what each call asks for (fixed by the client)
  effects,  \* history: calls whose dispatch committed under the key's present row
  decided   \* history: typed answers given for the key under its present row

vars == <<phase, starts, row, owner, call, req, effects, decided>>

-----------------------------------------------------------------------------
(* Rows, answers and call records *)

RowState == {"absent", "reserved", "in_flight", "completed", "outcome_unknown"}

\* Typed answers dispatchMutation() can produce; complete() stores them.
\*   ok        the handler returned a result
\*   refused   PrivateMutationError or _error: nothing was changed
\*   too_large the result exceeds RESPONSE_MAX_BYTES: changed, yet an error
Typed == {"ok", "refused", "too_large"}

Answer == Typed \cup {"none", "outcome_unknown", "idempotency_conflict", "unavailable"}

NoRow == [state |-> "absent", body |-> NoBody, answer |-> "none"]

Stage == {"idle", "dispatching", "applied", "joined", "answered", "lost"}

Live(c) == call[c].stage \in {"dispatching", "applied", "joined"}

Dispatching(c) == call[c].stage \in {"dispatching", "applied"}

KeyOf(c)  == req[c].key
BodyOf(c) == req[c].body

TypeOK ==
  /\ phase \in {"down", "open", "closed"}
  /\ starts \in 0 .. MaxStarts
  /\ row \in [Key -> [state : RowState, body : Body \cup {NoBody}, answer : Answer]]
  /\ owner \in [Key -> Call \cup {NoCall}]
  /\ call \in [Call -> [stage : Stage, answer : Answer, via : Call \cup {NoCall}]]
  /\ req \in [Call -> [key : Key, body : Body]]
  /\ effects \in [Key -> SUBSET Call]
  /\ decided \in [Key -> SUBSET Typed]

Init ==
  /\ phase = "down"
  /\ starts = 0
  /\ row = [k \in Key |-> NoRow]
  /\ owner = [k \in Key |-> NoCall]
  /\ call = [c \in Call |-> [stage |-> "idle", answer |-> "none", via |-> NoCall]]
  /\ req \in [Call -> [key : Key, body : Body]]
  /\ effects = [k \in Key |-> {}]
  /\ decided = [k \in Key |-> {}]

-----------------------------------------------------------------------------
(* Answering *)

\* What one answer adds to the history of its key.
Note(k, a) == decided' = [decided EXCEPT ![k] = @ \cup ({a} \cap Typed)]

Answered(c, a) == [stage |-> "answered", answer |-> a, via |-> NoCall]

\* The call gets its answer in the same synchronous section that found it.
AnswerNow(c, a) ==
  /\ call' = [call EXCEPT ![c] = Answered(c, a)]
  /\ Note(KeyOf(c), a)
  /\ UNCHANGED <<owner, effects>>

SetRow(c, s, a) ==
  row' = [row EXCEPT ![KeyOf(c)] = [state |-> s, body |-> BodyOf(c), answer |-> a]]

-----------------------------------------------------------------------------
(* Admission: handle() up to its first await *)

\* handle() on a closed service, or a call that authorization, validation or
\* the safety gate turns away: nothing is recorded.
TurnAway(c) ==
  /\ phase \in {"open", "closed"}
  /\ call[c].stage = "idle"
  /\ AnswerNow(c, "unavailable")
  /\ UNCHANGED <<phase, starts, row, req>>

Arriving(c) == phase = "open" /\ call[c].stage = "idle"

\* reserve() inserts the row, the shared promise is registered, markStarted()
\* claims the dispatch; the handler is now running.
Dispatch(c) ==
  /\ Arriving(c)
  /\ row[KeyOf(c)].state = "absent"
  /\ SetRow(c, "in_flight", "none")
  /\ owner' = [owner EXCEPT ![KeyOf(c)] = c]
  /\ call' = [call EXCEPT ![c].stage = "dispatching"]
  /\ UNCHANGED <<phase, starts, req, effects, decided>>

\* The INSERT of reserve() throws: outcome_unknown, and no row is left behind.
ReserveFails(c) ==
  /\ Arriving(c)
  /\ row[KeyOf(c)].state = "absent"
  /\ AnswerNow(c, "outcome_unknown")
  /\ UNCHANGED <<phase, starts, row, req>>

\* reserve() succeeds but markStarted() does not: the answer is
\* outcome_unknown and markUnknown() may or may not reach the database.
ClaimFails(c) ==
  /\ Arriving(c)
  /\ row[KeyOf(c)].state = "absent"
  /\ \E s \in {"reserved", "outcome_unknown"} : SetRow(c, s, "none")
  /\ AnswerNow(c, "outcome_unknown")
  /\ UNCHANGED <<phase, starts, req>>

\* A row for the key exists and reserve() classifies the new call by it.
Reuse(c) ==
  LET r == row[KeyOf(c)] IN
  /\ Arriving(c)
  /\ r.state # "absent"
  /\ \/ /\ r.body # BodyOf(c)
        /\ AnswerNow(c, "idempotency_conflict")
     \/ /\ r.body = BodyOf(c)
        /\ r.state = "completed"
        /\ AnswerNow(c, r.answer)
     \/ /\ r.body = BodyOf(c)
        /\ r.state \in {"reserved", "outcome_unknown"}
        /\ AnswerNow(c, "outcome_unknown")
     \/ /\ r.body = BodyOf(c)
        /\ r.state = "in_flight"
        /\ owner[KeyOf(c)] = NoCall
        /\ AnswerNow(c, "outcome_unknown")
  /\ UNCHANGED <<phase, starts, row, req>>

\* A live dispatch of the same key and payload: await its shared outcome.
Join(c) ==
  /\ Arriving(c)
  /\ row[KeyOf(c)].state = "in_flight"
  /\ row[KeyOf(c)].body = BodyOf(c)
  /\ owner[KeyOf(c)] # NoCall
  /\ call' = [call EXCEPT ![c] = [stage |-> "joined", answer |-> "none",
                                  via |-> owner[KeyOf(c)]]]
  /\ UNCHANGED <<phase, starts, row, owner, req, effects, decided>>

-----------------------------------------------------------------------------
(* Dispatch and settlement *)

\* The handler's transaction commits.
Apply(c) ==
  /\ phase # "down"
  /\ call[c].stage = "dispatching"
  /\ call' = [call EXCEPT ![c].stage = "applied"]
  /\ effects' = [effects EXCEPT ![KeyOf(c)] = @ \cup {c}]
  /\ UNCHANGED <<phase, starts, row, owner, req, decided>>

\* Seeded fault: an exception after the commit is reported as a refusal.
FaultOutcomes(c) ==
  IF call[c].stage = "applied" THEN {"ok", "refused", "outcome_unknown"}
                               ELSE {"refused", "outcome_unknown"}

\* What dispatchMutation() makes of the handler's end: a generic exception is
\* an unknown outcome whether or not the transaction committed.
Outcomes(c) ==
  IF call[c].stage = "applied" THEN {"ok", "too_large", "outcome_unknown"}
                               ELSE {"refused", "outcome_unknown"}

\* settleShared() and the removal of the map entry come last.
Settle(c, a) ==
  /\ call' = [call EXCEPT ![c] = Answered(c, a)]
  /\ owner' = [owner EXCEPT ![KeyOf(c)] = NoCall]
  /\ Note(KeyOf(c), a)
  /\ UNCHANGED <<phase, starts, req, effects>>

Running(c) == phase # "down" /\ Dispatching(c)

\* A typed outcome whose durable completion succeeds.
Complete(c, a) ==
  /\ Running(c)
  /\ a \in Outcomes(c) \cap Typed
  /\ row[KeyOf(c)].state = "in_flight"
  /\ SetRow(c, "completed", a)
  /\ Settle(c, a)

\* An unknown outcome, or a typed one complete() could not record: the caller
\* is told outcome_unknown and markUnknown() may or may not succeed.
LoseOutcome(c) ==
  /\ Running(c)
  /\ \/ SetRow(c, "outcome_unknown", "none")
     \/ UNCHANGED row
  /\ Settle(c, "outcome_unknown")

Finish(c) == LoseOutcome(c) \/ \E a \in Typed : Complete(c, a)

\* Seeded fault: the shared promise is settled on the success path only.
FaultDeliverJoined(c) ==
  /\ phase # "down"
  /\ call[c].stage = "joined"
  /\ call[call[c].via].stage = "answered"
  /\ call[call[c].via].answer \in Typed
  /\ call' = [call EXCEPT ![c] = Answered(c, call[call[c].via].answer)]
  /\ Note(KeyOf(c), call[call[c].via].answer)
  /\ UNCHANGED <<phase, starts, row, owner, req, effects>>

\* The awaiting duplicate resumes with the owner's settled response.
DeliverJoined(c) ==
  /\ phase # "down"
  /\ call[c].stage = "joined"
  /\ call[call[c].via].stage = "answered"
  /\ call' = [call EXCEPT ![c] = Answered(c, call[call[c].via].answer)]
  /\ Note(KeyOf(c), call[call[c].via].answer)
  /\ UNCHANGED <<phase, starts, row, owner, req, effects>>

-----------------------------------------------------------------------------
(* Lifecycle *)

Close ==
  /\ phase = "open"
  /\ phase' = "closed"
  /\ UNCHANGED <<starts, row, owner, call, req, effects, decided>>

\* The process ends: killed, or stopped after the bounded drain gave up.  The
\* calls still running never answer.
ProcessEnds ==
  /\ phase' = "down"
  /\ owner' = [k \in Key |-> NoCall]
  /\ UNCHANGED <<starts, req, effects, decided>>

LoseLive == [c \in Call |-> IF Live(c) THEN [call[c] EXCEPT !.stage = "lost"] ELSE call[c]]

Crash ==
  /\ phase # "down"
  /\ ProcessEnds
  /\ call' = LoseLive
  /\ UNCHANGED row

\* A crash between the INSERT of reserve() and the UPDATE of markStarted().
CrashReserved(c) ==
  /\ Arriving(c)
  /\ row[KeyOf(c)].state = "absent"
  /\ SetRow(c, "reserved", "none")
  /\ ProcessEnds
  /\ call' = [LoseLive EXCEPT ![c].stage = "lost"]

\* A crash after complete() reached the disk and before anyone was answered.
CrashCompleted(c) ==
  /\ Running(c)
  /\ row[KeyOf(c)].state = "in_flight"
  /\ \E a \in Outcomes(c) \cap Typed : SetRow(c, "completed", a)
  /\ ProcessEnds
  /\ call' = LoseLive

\* Seeded faults: cleanup() also drops tombstones; recovery drops open rows.
FaultCompleted == {k \in Key : row[k].state \in {"completed", "outcome_unknown"}}
FaultRecovered(r) == IF r.state \in {"reserved", "in_flight"} THEN NoRow ELSE r

Completed == {k \in Key : row[k].state = "completed"}

\* recoverCrashed(): what a crash left open becomes a tombstone.
Recovered(r) ==
  IF r.state \in {"reserved", "in_flight"} THEN [r EXCEPT !.state = "outcome_unknown"]
                                           ELSE r

\* Service start: cleanup() deletes expired completed rows (any of them may be
\* older than the 30 days), then the surplus over the cap; recoverCrashed().
Start ==
  /\ phase = "down"
  /\ starts < MaxStarts
  /\ \E purged \in SUBSET Completed :
       /\ Cardinality(Completed \ purged) <= RetainCap
       /\ row' = [k \in Key |-> IF k \in purged THEN NoRow ELSE Recovered(row[k])]
       /\ effects' = [k \in Key |-> IF k \in purged THEN {} ELSE effects[k]]
       /\ decided' = [k \in Key |-> IF k \in purged THEN {} ELSE decided[k]]
  /\ phase' = "open"
  /\ starts' = starts + 1
  /\ UNCHANGED <<owner, call, req>>

-----------------------------------------------------------------------------
Next ==
  \/ \E c \in Call :
       \/ TurnAway(c) \/ Dispatch(c) \/ ReserveFails(c) \/ ClaimFails(c)
       \/ Reuse(c) \/ Join(c)
       \/ Apply(c) \/ Finish(c) \/ DeliverJoined(c)
       \/ CrashReserved(c) \/ CrashCompleted(c)
  \/ Close \/ Crash \/ Start

Spec == Init /\ [][Next]_vars

\* The event loop runs what is ready: a handler ends, a settled promise wakes
\* its waiters.  Nothing obliges clients to call or the service to start.
Fairness == \A c \in Call : WF_vars(Finish(c)) /\ WF_vars(DeliverJoined(c))

FairSpec == Spec /\ Fairness

-----------------------------------------------------------------------------
(* Properties *)

\* While the ledger remembers a key, at most one call has changed memory under
\* it, whatever duplicates arrived, crashes struck or writes failed
\* (abmind-service.ts dispatchWithIdempotency).
AtMostOnce == \A k \in Key : \A c, d \in effects[k] : c = d

\* Every change under a key was made for the payload its row names: a key
\* reused with another payload never runs (reserve's conflict branch).
EffectMatchesRow ==
  \A k \in Key : \A c \in effects[k] : row[k].state # "absent" /\ row[k].body = BodyOf(c)

\* All callers that got a typed answer for a remembered key got the same one,
\* and "changed" answers were given exactly when memory changed.
AnswersAgree ==
  \A k \in Key :
    /\ \A a, b \in decided[k] : a = b
    /\ decided[k] \cap {"ok", "too_large"} # {} => effects[k] # {}
    /\ "refused" \in decided[k] => effects[k] = {}

\* A typed answer is only given once it is durable, so no later crash can make
\* the ledger answer the retry of that call differently.
TypedIsDurable ==
  \A k \in Key : \A a \in decided[k] : row[k].state = "completed" /\ row[k].answer = a

\* A durable unknown outcome is a tombstone: neither a late completion, nor
\* cleanup, nor a new call under the key ever changes the row again.
TombstoneForever ==
  [][\A k \in Key : row[k].state = "outcome_unknown" => row'[k] = row[k]]_vars

\* A duplicate that joined a live dispatch is answered, or its process died:
\* it never waits on a dispatch that has already settled without it.  Since a
\* call joins once, again and again none is waiting.
JoinersAnswered == []<>(\A c \in Call : call[c].stage # "joined")

\* What became of a key, by its row: one that is reserved or in flight runs.
FateOf(k) ==
  CASE row[k].state = "absent" -> "open"
    [] row[k].state \in {"reserved", "in_flight"} -> "running"
    [] row[k].state = "completed" -> "settled"
    [] row[k].state = "outcome_unknown" -> "unknown"

Promise == INSTANCE KeyedMutation WITH
  fate <- [k \in Key |-> FateOf(k)],
  body <- [k \in Key |-> row[k].body],
  answer <- [k \in Key |-> IF row[k].state = "completed" THEN row[k].answer ELSE "none"],
  told <- [c \in Call |-> IF call[c].stage = "answered" THEN call[c].answer ELSE "none"]

\* The ledger and its service keep the promise of KeyedMutation to their callers
\* (dispatchWithIdempotency with reserve, complete, recoverCrashed and cleanup):
\* the fate of a key is decided once, and every answer, to the first caller, a
\* duplicate or a retry after a restart, is true to it.
KeepsPromise == Promise!Spec
=============================================================================
