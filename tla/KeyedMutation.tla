---------------------------- MODULE KeyedMutation ----------------------------
(***************************************************************************)
(* What a client may rely on when it sends mutations under idempotency     *)
(* keys: each key runs for one payload and changes memory at most once;    *)
(* what became of it is decided once, and every typed answer is that       *)
(* decision; an outcome that was lost stays unknown for ever; only a       *)
(* settled key may be forgotten.  MutationService implements this, with a  *)
(* ledger, joined duplicates, failing writes and crashes.                  *)
(***************************************************************************)
CONSTANTS Call, Key, Body,
          Typed  \* the answers that say what happened; "refused": nothing did

VARIABLES
  fate,    \* of each key: "open", "running", "settled" or "unknown"
  body,    \* the payload a key that is not open is for
  answer,  \* what a settled key was answered, "none" before
  effects, \* the calls that changed memory under the key, since it was last open
  told,    \* what each call was answered, "none" before
  req      \* the key and the payload of each call

vars == <<fate, body, answer, effects, told, req>>

Init ==
  /\ fate = [k \in Key |-> "open"]
  /\ effects = [k \in Key |-> {}]
  /\ answer = [k \in Key |-> "none"]
  /\ told = [c \in Call |-> "none"]
  /\ req \in [Call -> [key : Key, body : Body]]

-----------------------------------------------------------------------------
(* What may become of a key *)

Same(k) == fate'[k] = fate[k] /\ body'[k] = body[k] /\ answer'[k] = answer[k]

\* Its first call is taken, and may be lost at once.
Begin(k) ==
  /\ fate[k] = "open"
  /\ fate'[k] \in {"running", "unknown"}
  /\ body'[k] \in Body
  /\ answer'[k] = "none"
  /\ effects'[k] = {}

\* A call for this key and payload that was not answered yet changes memory.
Change(k) ==
  /\ fate[k] = "running"
  /\ effects[k] = {}
  /\ \E c \in Call :
       /\ req[c].key = k /\ req[c].body = body[k]
       /\ told[c] = "none"
       /\ effects'[k] = {c}
  /\ Same(k)

Settle(k) ==
  /\ fate[k] = "running"
  /\ fate'[k] = "settled"
  /\ answer'[k] \in Typed
  /\ answer'[k] = "refused" <=> effects[k] = {}
  /\ body'[k] = body[k] /\ effects'[k] = effects[k]

Lose(k) ==
  /\ fate[k] = "running"
  /\ fate'[k] = "unknown"
  /\ body'[k] = body[k] /\ answer'[k] = answer[k] /\ effects'[k] = effects[k]

Forget(k) ==
  /\ fate[k] = "settled"
  /\ fate'[k] = "open"
  /\ answer'[k] = "none"
  /\ effects'[k] = {}

KeyStep(k) ==
  \/ Begin(k) \/ Change(k) \/ Settle(k) \/ Lose(k) \/ Forget(k)
  \/ Same(k) /\ effects'[k] = effects[k]

-----------------------------------------------------------------------------
(* What a call may be told, once *)

Answers(c) ==
  LET k == req[c].key IN
  /\ told[c] = "none"
  /\ told'[c] \in Typed =>
       fate'[k] = "settled" /\ body'[k] = req[c].body /\ answer'[k] = told'[c]
  /\ told'[c] = "idempotency_conflict" => fate'[k] # "open" /\ body'[k] # req[c].body
  /\ told'[c] \in {"refused", "unavailable", "idempotency_conflict"} => c \notin effects'[k]

CallStep(c) == Answers(c) \/ told'[c] = told[c]

Next ==
  /\ \A k \in Key : KeyStep(k)
  /\ \A c \in Call : CallStep(c)
  /\ UNCHANGED req

Spec == Init /\ [][Next]_vars
=============================================================================
