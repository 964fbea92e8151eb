---------------------------- MODULE DreamQuestions ----------------------------
(***************************************************************************)
(* The questions a night's sleep would put to the owner about two memories *)
(* that contradict each other: dream-question-store.ts, fed by the night's *)
(* ASK lines (ask-candidates.ts), read and settled by hosts that deliver   *)
(* them.  Each call is one transaction that reconciles the owner's rows    *)
(* with the memories they rest on before it looks at them.                 *)
(*                                                                         *)
(* A pair of memories has an owner and one revision, which stands for both *)
(* of theirs.  A row that is deleted leaves its place empty.               *)
(***************************************************************************)
EXTENDS Integers, FiniteSets

CONSTANTS
  Pair,        \* pairs of memories
  OwnerOf,     \* the owner of each pair
  DeliveryKey, \* delivery keys of hosts
  Life,        \* time a question stands, and the time its pair is left alone
               \* after it was asked or dismissed: 7 days both
  Retention,   \* TERMINAL_RETENTION_MS: 30 days
  Cap,         \* ACTIVE_QUESTION_GLOBAL_CAP
  MaxRow,      \* bound: rows made
  MaxRev,      \* bound: revisions of a pair
  MaxDay       \* bound: the clock

ASSUME QuestionAssumption ==
  /\ IsFiniteSet(Pair) /\ "none" \notin Pair /\ DOMAIN OwnerOf = Pair
  /\ Life \in Nat \ {0} /\ Retention \in Nat /\ Retention >= Life
  /\ Cap \in Nat \ {0} /\ MaxRow \in Nat /\ MaxRev \in Nat \ {0} /\ MaxDay \in Nat

VARIABLES
  today,
  revision,  \* of each pair, or Gone: superseded, sealed, invalid
  shunned,   \* pairs of which a memory is forgotten
  question,  \* rows of dream_questions
  told       \* history: who was told that a question is its own to ask

questionVars == <<today, revision, shunned, question, told>>
memoryVars == <<today, revision, shunned>>

Gone == 0
Never == -1
Row == 1..MaxRow
Owner == {OwnerOf[p] : p \in Pair}
NoQuestion == [pair |-> "none", rev |-> Gone, status |-> "none", created |-> Never, asked |-> Never,
          ended |-> Never, key |-> "none", blank |-> FALSE]
QuestionStatus == {"pending", "asked", "resolved", "expired", "dismissed"}

QuestionTypeOK ==
  /\ today \in 0..MaxDay /\ revision \in [Pair -> 0..MaxRev] /\ shunned \subseteq Pair
  /\ \A r \in Row : question[r].status \in QuestionStatus \cup {"none", "deleted"}
  /\ told \subseteq [row : Row, pair : Pair, key : DeliveryKey, at : 0..MaxDay]

QuestionInit ==
  /\ today = 0 /\ revision = [p \in Pair |-> 1] /\ shunned = {}
  /\ question = [r \in Row |-> NoQuestion] /\ told = {}

-----------------------------------------------------------------------------
(* Reconciliation *)

Active(q) == q.status \in {"pending", "asked"}
Valid(q) == revision[q.pair] = q.rev /\ q.pair \notin shunned

\* Active rows whose evidence is gone are resolved, blank when it is forgotten;
\* those that are left expire.
Settled(q) ==
  IF ~Active(q) THEN q
  ELSE IF ~Valid(q)
  THEN [q EXCEPT !.status = "resolved", !.ended = today, !.blank = q.pair \in shunned]
  ELSE IF q.created + Life <= today THEN [q EXCEPT !.status = "expired", !.ended = q.created + Life]
  ELSE q

\* Rows that ended a month ago go; a row that was asked does at that age too.
Stale(q) ==
  \/ q.status \in {"resolved", "expired", "dismissed"} /\ q.ended < today - Retention
  \/ q.status = "asked" /\ q.asked < today - Retention

Deleted(q) == IF q.status # "none" /\ Stale(q) THEN [NoQuestion EXCEPT !.status = "deleted"] ELSE q

\* reconcileUser() for each of these owners.
Reconciled(owners) ==
  [r \in Row |-> IF question[r].pair \in Pair /\ OwnerOf[question[r].pair] \in owners
                 THEN Deleted(Settled(question[r])) ELSE question[r]]

-----------------------------------------------------------------------------
(* The night *)

\* Owners that have an active row, for the cap is everybody's.
Busy == {OwnerOf[question[r].pair] : r \in {s \in Row : Active(question[s])}}

Of(rows, p) == {rows[r] : r \in {s \in Row : rows[s].pair = p}}

\* Seeded fault: only a pair that was dismissed is left alone.
FaultLeftAlone(rows, p) ==
  \E q \in Of(rows, p) : q.status = "dismissed" /\ today - q.ended < Life

\* A pair is left alone for a while after it was asked about or dismissed.
LeftAlone(rows, p) ==
  \E q \in Of(rows, p) :
    \/ q.asked # Never /\ today - q.asked < Life
    \/ q.status = "dismissed" /\ today - q.ended < Life

\* An ASK line of the night counts while the pair is as the night's model was shown
\* it: a line about an older revision is passed over.
Askable(p) == revision[p] # Gone /\ p \notin shunned

\* insertCandidate() of such a line: nothing of the pair is under way or was of
\* late, and there is room.
InsertCandidate(p) ==
  /\ Askable(p)
  /\ LET rows == Reconciled(Busy \cup {OwnerOf[p]})
         free == {r \in Row : rows[r].status = "none"}
         refused == \/ \E q \in Of(rows, p) : Active(q)
                    \/ LeftAlone(rows, p)
                    \/ Cardinality({r \in Row : Active(rows[r])}) >= Cap
     IN IF refused THEN question' = rows
        ELSE /\ free # {}
             /\ \E r \in free :
                  /\ \A s \in free : r <= s
                  /\ question' = [rows EXCEPT ![r] =
                       [NoQuestion EXCEPT !.pair = p, !.rev = revision[p], !.status = "pending",
                                     !.created = today]]
  /\ UNCHANGED <<memoryVars, told>>

-----------------------------------------------------------------------------
(* The hosts *)

\* nextPending(), list(), reconcile(): what they give is not kept.
Read(o) ==
  /\ question' = Reconciled({o}) /\ UNCHANGED <<memoryVars, told>>

\* A host asks for a question to be its own; one that asked before under this key
\* is told so again.
MarkAsked(r, k) ==
  /\ question[r].pair \in Pair
  /\ LET rows == Reconciled({OwnerOf[question[r].pair]})
         p == question[r].pair
         claims == rows[r].status = "pending"
     IN /\ question' = IF claims
                       THEN [rows EXCEPT ![r].status = "asked", ![r].asked = today, ![r].key = k]
                       ELSE rows
        /\ told' = IF question'[r].status = "asked" /\ question'[r].key = k
                   THEN told \cup {[row |-> r, pair |-> p, key |-> k, at |-> question'[r].asked]}
                   ELSE told
  /\ UNCHANGED memoryVars

Dismiss(r) ==
  /\ question[r].pair \in Pair
  /\ LET rows == Reconciled({OwnerOf[question[r].pair]})
     IN question' = IF Active(rows[r])
                    THEN [rows EXCEPT ![r].status = "dismissed", ![r].ended = today] ELSE rows
  /\ UNCHANGED <<memoryVars, told>>

-----------------------------------------------------------------------------
(* Elsewhere *)

\* A memory of the pair is corrected, superseded or sealed, or forgotten.
Corrected(p) ==
  /\ revision[p] # Gone
  /\ revision' = [revision EXCEPT ![p] = IF @ < MaxRev THEN @ + 1 ELSE Gone]
  /\ UNCHANGED <<today, shunned, question, told>>

Forgotten(p) ==
  /\ p \notin shunned /\ shunned' = shunned \cup {p}
  /\ UNCHANGED <<today, revision, question, told>>

NextDay ==
  /\ today < MaxDay /\ today' = today + 1
  /\ UNCHANGED <<revision, shunned, question, told>>

QuestionNext ==
  \/ \E p \in Pair : InsertCandidate(p) \/ Corrected(p) \/ Forgotten(p)
  \/ \E o \in Owner : Read(o)
  \/ \E r \in Row : Dismiss(r) \/ \E k \in DeliveryKey : MarkAsked(r, k)
  \/ NextDay

QuestionSpec == QuestionInit /\ [][QuestionNext]_questionVars

-----------------------------------------------------------------------------
(* What must hold.                                                         *)

\* The owner is asked about a pair by one delivery, and then not again for as long
\* as a question stands, whatever became of the question and of its memories in
\* between.
AskedOnce ==
  \A a, b \in told :
    a.pair = b.pair => (a.row = b.row /\ a.key = b.key) \/ a.at - b.at >= Life \/ b.at - a.at >= Life
=============================================================================
