--------------------------- MODULE PersonalStore ---------------------------
(* One owner's personal memory in memory.db: the messages, the durable and   *)
(* episode rows made from them, the markers and operations of forgetting     *)
(* (personal-forget.ts), the summary files, the recall projection            *)
(* (recall-projection-build.ts), the recall that reads it (owned-recall.ts)  *)
(* and backup/restore (backup.ts).                                           *)
(*                                                                           *)
(* Two processes open the database: the daemon, and the command line, which  *)
(* takes no owner lease.  Each runs one synchronous operation at a time; a   *)
(* step is one transaction or one file operation of it, and the other        *)
(* process may run between two steps.  What the daemon keeps over an `await` *)
(* (a recall, a summary being written by the model) is in `recall`/`draft`.  *)
EXTENDS Integers, FiniteSets

CONSTANTS
    Raw,          \* message ids
    Durable,      \* ids of durable memories
    Episode,      \* ids of episodes
    SummaryFile,  \* paths of summary files
    MaxRev,       \* bound: revisions of a durable
    MaxGen,       \* bound: generations of the projection
    MaxRestore,   \* bound: restores
    MaxFault      \* bound: crashes and failing steps

Process == {"daemon", "cli"}
Derived == Durable \cup Episode
Record  == Raw \cup Derived
Op      == Record \cup {"reapply", "none"}   \* an operation is named by its target

\* Messages, durables, episodes and the two marks of an operation have names
\* apart; a table starts its revisions at 1.
ASSUME StoreAssumption ==
    /\ Raw \cap Derived = {} /\ Durable \cap Episode = {}
    /\ Record \cap {"reapply", "none"} = {}
    /\ MaxRev \in Nat \ {0} /\ MaxGen \in Nat /\ MaxRestore \in Nat /\ MaxFault \in Nat

Row     == [id : Derived, rev : 1..MaxRev, of : SUBSET Raw, past : SUBSET Raw]
Doc     == [gen : 1..MaxGen, id : Derived, rev : 1..MaxRev, of : SUBSET Raw]

VARIABLES
    ready,     \* personal_model_state is 'ready' (FALSE: 'interrupted')
    raws,      \* messages
    rows,      \* long_term_memories and short_term_memories, with their sources
    used,      \* ids ever given out (AUTOINCREMENT)
    marks,     \* forget_markers
    ops,       \* forget_operations: "none", "pending" or "complete"
    files,     \* summary files: the messages each was written from ({}: no file)
    proj,      \* recall_projection_state
    docs,      \* recall_documents
    backup,    \* the one backup file, or NoBackup
    job,       \* what each process is in the middle of
    recall,    \* candidates of the recall the daemon has in flight
    draft,     \* the summary the sleep cycle has in flight
    faults, restores

memoryVars == <<ready, raws, rows, used, marks, ops, files, proj, docs, backup, job,
          recall, draft, faults, restores>>
memory == <<raws, rows, used, marks, ops>>
index  == <<proj, docs>>
flight == <<recall, draft>>
bounds == <<faults, restores>>

NoBackup == [raws |-> {}, rows |-> {}, marks |-> {}, ops |-> [t \in Op |-> "none"],
             files |-> [a \in SummaryFile |-> {}], ready |-> FALSE]
NoDraft  == [of |-> {}, path |-> "none"]
Idle     == [step |-> "idle", op |-> "none", lineage |-> {}, todo |-> {}, mode |-> "none"]
At(p, step) == job[p].step = step
Goto(p, step) == job' = [job EXCEPT ![p].step = step]

MemoryTypeOK ==
    /\ ready \in BOOLEAN /\ raws \subseteq Raw /\ rows \subseteq Row
    /\ used \subseteq Record /\ marks \subseteq Record
    /\ ops \in [Op -> {"none", "pending", "complete"}]
    /\ files \in [SummaryFile -> SUBSET Raw]
    /\ proj \in [state : {"not_built", "building", "ready", "interrupted", "failed"},
                 serving : 0..MaxGen]
    /\ docs \subseteq Doc
    /\ \A r, s \in rows : r.id = s.id => r = s
    /\ faults \in 0..MaxFault /\ restores \in 0..MaxRestore

MemoryInit ==
    /\ ready = TRUE /\ raws = {} /\ rows = {} /\ used = {} /\ marks = {}
    /\ ops = [t \in Op |-> "none"] /\ files = [a \in SummaryFile |-> {}]
    /\ proj = [state |-> "not_built", serving |-> 0] /\ docs = {}
    /\ backup = NoBackup /\ job = [p \in Process |-> Idle]
    /\ recall = {} /\ draft = NoDraft /\ faults = 0 /\ restores = 0

-----------------------------------------------------------------------------
(* Markers, eligibility and the serving generation.                          *)

Pending(o) == \E t \in Op : o[t] = "pending"

\* Every record is suppressed while any operation of the owner is pending.
Suppressed(ids) == Pending(ops) \/ ids \cap marks # {}

\* A durable's version is its revision number, an episode's its content.
SameVersion(a, b) == IF a.id \in Durable THEN a.rev = b.rev ELSE a.of = b.of

Eligible(rs, m, o) == IF Pending(o) THEN {} ELSE {r \in rs : r.id \notin m}

Serving == IF proj.state \in {"ready", "building"} THEN proj.serving ELSE 0

DocOf(r, g) == [gen |-> g, id |-> r.id, rev |-> r.rev, of |-> r.of]

Dropped(ds, id) == {d \in ds : d.gen # Serving \/ d.id # id}

Indexed(ds, r) == IF Serving = 0 THEN ds ELSE ds \cup {DocOf(r, Serving)}

\* A source seen with another version is dropped and is not filled again.
Reconciled(rs, m, o) ==
    LET served == {d \in docs : d.gen = Serving}
        el == Eligible(rs, m, o)
    IN  IF Serving = 0 THEN docs
        ELSE (docs \ served)
             \cup {d \in served : \E r \in el : r.id = d.id /\ SameVersion(r, d)}
             \cup {DocOf(r, Serving) : r \in {r \in el : \A d \in served : d.id # r.id}}

\* A durable goes with any of its sources; an episode is redacted.
Unmarked(rs, m) ==
    {[r EXCEPT !.past = @ \ m] : r \in {r \in rs : r.id \in Durable \ m /\ r.of \cap m = {}}}
    \cup {[r EXCEPT !.of = @ \ m] : r \in {r \in rs : r.id \in Episode \ m}}

Enforce(held, rs, m, o) ==
    /\ raws' = held \ m
    /\ rows' = Unmarked(rs, m)
    /\ docs' = IF m = {} THEN docs ELSE Reconciled(rows', m, o)

-----------------------------------------------------------------------------
(* The daemon's writers: each is one transaction with its document.          *)

RecordMessage(r) ==
    /\ At("daemon", "idle") /\ r \in Raw \ used
    /\ raws' = raws \cup {r} /\ used' = used \cup {r}
    /\ UNCHANGED <<ready, rows, marks, ops, files, index, backup, job, flight, bounds>>

\* Messages that sleep has processed are pruned; rows keep their evidence.
Prune(r) ==
    /\ At("daemon", "idle") /\ ready /\ r \in raws
    /\ raws' = raws \ {r}
    /\ UNCHANGED <<ready, rows, used, marks, ops, files, index, backup, job, flight, bounds>>

\* Evidence quotes a message, or what an episode preserved of one.
Quotable == raws \cup UNION {r.of : r \in {r \in rows : r.id \in Episode}}

StoreDurable(d, of) ==
    /\ At("daemon", "idle") /\ ready
    /\ d \in Durable \ used /\ of \subseteq Quotable /\ ~Suppressed(of)
    /\ LET row == [id |-> d, rev |-> 1, of |-> of, past |-> {}]
       IN  rows' = rows \cup {row} /\ docs' = Indexed(docs, row)
    /\ used' = used \cup {d}
    /\ UNCHANGED <<ready, raws, marks, ops, files, proj, backup, job, flight, bounds>>

Supersede(r, of) ==
    /\ At("daemon", "idle") /\ ready
    /\ r \in rows /\ r.id \in Durable /\ r.rev < MaxRev
    /\ of \subseteq Quotable /\ ~Suppressed(of \cup {r.id})
    /\ LET row == [id |-> r.id, rev |-> r.rev + 1, of |-> of, past |-> r.past \cup r.of]
       IN  /\ rows' = (rows \ {r}) \cup {row}
           /\ docs' = Indexed(Dropped(docs, r.id), row)
    /\ UNCHANGED <<ready, raws, used, marks, ops, files, proj, backup, job, flight, bounds>>

\* A message belongs to one episode at most.
CreateEpisode(e, of) ==
    /\ At("daemon", "idle") /\ ready
    /\ e \in Episode \ used /\ of \subseteq raws /\ ~Suppressed(of)
    /\ \A r \in rows : r.id \in Episode => r.of \cap of = {}
    /\ LET row == [id |-> e, rev |-> 1, of |-> of, past |-> {}]
       IN  rows' = rows \cup {row} /\ docs' = Indexed(docs, row)
    /\ used' = used \cup {e}
    /\ UNCHANGED <<ready, raws, marks, ops, files, proj, backup, job, flight, bounds>>

\* Sleep reads the day's messages, waits for the model and writes the summary.
SleepReads(a, of) ==
    /\ At("daemon", "idle") /\ ready /\ draft = NoDraft /\ of \subseteq raws
    /\ draft' = [of |-> of, path |-> a]
    /\ UNCHANGED <<ready, memory, files, index, backup, job, recall, bounds>>

SleepWrites ==
    /\ At("daemon", "idle") /\ draft # NoDraft
    /\ files' = [files EXCEPT ![draft.path] = draft.of]
    /\ draft' = NoDraft
    /\ UNCHANGED <<ready, memory, index, backup, job, recall, bounds>>

-----------------------------------------------------------------------------
(* Forgetting.                                                               *)

\* What one target marks: itself and every message it was made from.
Lineage(t) == {t} \cup UNION {r.of \cup r.past : r \in {r \in rows : r.id = t}}

\* forgetPersonal: the same targets again only report the operation there is.  What
\* they were made from is read before the transaction begins, and the other process
\* may write in between.
ForgetReads(p, t) ==
    /\ At(p, "idle") /\ ready /\ ops[t] = "none"
    /\ t \in Quotable \/ \E r \in rows : r.id = t
    /\ job' = [job EXCEPT ![p] = [Idle EXCEPT !.step = "mark", !.op = t, !.lineage = Lineage(t)]]
    /\ UNCHANGED <<ready, memory, files, index, backup, flight, bounds>>

\* The operation, its markers and their enforcement commit together.  Operations of
\* two processes on one target are one here.
ForgetMarks(p) ==
    /\ At(p, "mark")
    /\ marks' = marks \cup job[p].lineage
    /\ ops' = [ops EXCEPT ![job[p].op] = "pending"]
    /\ Enforce(raws, rows, marks', ops')
    /\ job' = [job EXCEPT ![p].step = "enforce", ![p].lineage = {}]
    /\ UNCHANGED <<ready, used, files, proj, backup, flight, bounds>>

\* resumePendingForgetCleanup goes on with the next pending operation.
NextOp(p) ==
    LET j == job[p]
    IN  job' = [job EXCEPT ![p] =
            IF j.todo # {} THEN LET t == CHOOSE t \in j.todo : TRUE
                                IN  [j EXCEPT !.step = "enforce", !.op = t, !.todo = @ \ {t}]
            ELSE IF j.mode # "none" THEN [j EXCEPT !.step = "ready", !.op = "none"]
            ELSE Idle]

\* completeOperation: enforce again, delete the files, close the operation,
\* and only then fill the registry with what survives.
Enforced(p) ==
    /\ At(p, "enforce")
    /\ Enforce(raws, rows, marks, ops)
    /\ Goto(p, "clean")
    /\ UNCHANGED <<ready, used, marks, ops, files, proj, backup, flight, bounds>>

CleanArtifacts(p) ==
    /\ At(p, "clean")
    /\ files' = [a \in SummaryFile |-> {}]
    /\ Goto(p, "complete")
    /\ UNCHANGED <<ready, memory, index, backup, flight, bounds>>

\* A linked or unreadable artifact throws: the operation stays pending.
CleanFails(p) ==
    /\ At(p, "clean") /\ faults < MaxFault
    /\ faults' = faults + 1
    /\ NextOp(p)
    /\ UNCHANGED <<ready, memory, files, index, backup, flight, restores>>

Complete(p) ==
    /\ At(p, "complete")
    /\ ops' = [ops EXCEPT ![job[p].op] = IF @ = "pending" THEN "complete" ELSE @]
    /\ Goto(p, "reconcile")
    /\ UNCHANGED <<ready, raws, rows, used, marks, files, index, backup, flight, bounds>>

Reconcile(p) ==
    /\ At(p, "reconcile")
    /\ docs' = Reconciled(rows, marks, ops)
    /\ NextOp(p)
    /\ UNCHANGED <<ready, memory, files, proj, backup, flight, bounds>>

PendingOps(o) == {t \in Op : o[t] = "pending"}

\* A process that dies loses what it had in flight; the daemon resumes pending
\* forgetting when it opens the database again.
Crash(p) ==
    /\ faults < MaxFault /\ faults' = faults + 1
    /\ job' = [job EXCEPT ![p] =
          IF p = "daemon" /\ PendingOps(ops) # {}
          THEN LET t == CHOOSE t \in PendingOps(ops) : TRUE
               IN  [Idle EXCEPT !.step = "enforce", !.op = t, !.todo = PendingOps(ops) \ {t}]
          ELSE Idle]
    /\ IF p = "daemon" THEN recall' = {} /\ draft' = NoDraft ELSE UNCHANGED flight
    /\ UNCHANGED <<ready, memory, files, index, backup, restores>>

-----------------------------------------------------------------------------
(* Backup and restore, run from the command line.                            *)

CreateBackup ==
    /\ At("cli", "idle") /\ backup = NoBackup /\ raws # {} /\ restores < MaxRestore
    /\ backup' = [raws |-> raws, rows |-> rows, marks |-> marks, ops |-> ops,
                  files |-> files, ready |-> ready]
    /\ UNCHANGED <<ready, memory, files, index, job, flight, bounds>>

RestoreBackup(mode) ==
    /\ At("cli", "idle") /\ backup # NoBackup /\ restores < MaxRestore
    /\ restores' = restores + 1
    /\ ready' = FALSE
    /\ job' = [job EXCEPT !["cli"] = [Idle EXCEPT !.step = "wipe", !.mode = mode]]
    /\ UNCHANGED <<memory, files, index, backup, flight, faults>>

\* The forgetting key does not match: nothing is restored, serving stays off.
RestoreRefused ==
    /\ At("cli", "wipe") /\ faults < MaxFault /\ backup.marks # {}
    /\ faults' = faults + 1
    /\ job' = [job EXCEPT !["cli"] = Idle]
    /\ UNCHANGED <<ready, memory, files, index, backup, flight, restores>>

RestoreWipes ==
    /\ At("cli", "wipe")
    /\ raws' = IF job["cli"].mode = "replace" THEN {} ELSE raws
    /\ Goto("cli", "messages")
    /\ UNCHANGED <<ready, rows, used, marks, ops, files, index, backup, flight, bounds>>

RestoreMessages ==
    /\ At("cli", "messages")
    /\ raws' = raws \cup backup.raws
    /\ Goto("cli", "personal")
    /\ UNCHANGED <<ready, rows, used, marks, ops, files, index, backup, flight, bounds>>

\* Of a backup's rows only those that are not there.
Restorable(kept) == {r \in backup.rows : \A k \in kept : k.id # r.id}

AllMarks == marks \cup backup.marks

\* Rows of the backup; markers and pending operations of both; enforcement; and
\* a new pending operation, so that the files are cleaned as well.
RestorePersonal ==
    LET kept == IF job["cli"].mode = "replace" THEN {} ELSE rows
        o    == [t \in Op |-> IF ops[t] = "none" THEN backup.ops[t] ELSE ops[t]]
    IN  /\ At("cli", "personal")
        /\ marks' = AllMarks
        /\ Enforce(raws, kept \cup Restorable(kept), marks', o)
        /\ ops' = IF marks' = {} THEN o ELSE [o EXCEPT !["reapply"] = "pending"]
        /\ Goto("cli", "files")
        /\ UNCHANGED <<ready, used, files, proj, backup, flight, bounds>>

RestoreFiles ==
    /\ At("cli", "files")
    /\ files' = [a \in SummaryFile |->
          IF backup.files[a] = {} \/ (job["cli"].mode = "merge" /\ files[a] # {})
          THEN files[a] ELSE backup.files[a]]
    /\ job' = [job EXCEPT !["cli"] =
          IF PendingOps(ops) = {} THEN [@ EXCEPT !.step = "ready"]
          ELSE LET t == CHOOSE t \in PendingOps(ops) : TRUE
               IN  [@ EXCEPT !.step = "enforce", !.op = t, !.todo = PendingOps(ops) \ {t}]]
    /\ UNCHANGED <<ready, memory, index, backup, flight, bounds>>

RestoreReady ==
    /\ At("cli", "ready")
    /\ ready' = (ready \/ (backup.ready /\ ~Pending(ops)))
    /\ Goto("cli", "invalidate")
    /\ UNCHANGED <<memory, files, index, backup, flight, bounds>>

InvalidateProjections ==
    /\ At("cli", "invalidate")
    /\ docs' = {} /\ proj' = [state |-> "not_built", serving |-> 0]
    /\ job' = [job EXCEPT !["cli"] = Idle]
    /\ UNCHANGED <<ready, memory, files, backup, flight, bounds>>

-----------------------------------------------------------------------------
(* Building the projection, run from the command line.                       *)

Upcoming == proj.serving + 1

\* Partial generations of earlier builds are discarded first.
BuildProjection ==
    /\ At("cli", "idle") /\ ~Pending(ops) /\ proj.serving < MaxGen
    /\ docs' = {d \in docs : d.gen = proj.serving}
    /\ proj' = [proj EXCEPT !.state = "building"]
    /\ Goto("cli", "index")
    /\ UNCHANGED <<ready, memory, files, backup, flight, bounds>>

IndexSources ==
    /\ At("cli", "index")
    /\ docs' = docs \cup {DocOf(r, Upcoming) : r \in Eligible(rows, marks, ops)}
    /\ Goto("cli", "verify")
    /\ UNCHANGED <<ready, memory, files, proj, backup, flight, bounds>>

\* Every eligible source has its current document, and nothing else has one.
Covers(gen) ==
    LET built == {d \in docs : d.gen = gen}
        el == Eligible(rows, marks, ops)
    IN  /\ ~Pending(ops)
        /\ \A r \in el : \E d \in built : d.id = r.id /\ SameVersion(r, d)
        /\ \A d \in built : \E r \in el : d.id = r.id

VerifyBuild ==
    /\ At("cli", "verify")
    /\ IF Covers(Upcoming) THEN proj' = proj /\ Goto("cli", "publish")
       ELSE proj' = [proj EXCEPT !.state = "failed"] /\ job' = [job EXCEPT !["cli"] = Idle]
    /\ UNCHANGED <<ready, memory, files, docs, backup, flight, bounds>>

Publish ==
    /\ At("cli", "publish")
    /\ docs' = {d \in docs : d.gen # Serving}
    /\ proj' = [state |-> "ready", serving |-> Upcoming]
    /\ job' = [job EXCEPT !["cli"] = Idle]
    /\ UNCHANGED <<ready, memory, files, backup, flight, bounds>>

BuildThrows ==
    /\ At("cli", "index") \/ At("cli", "verify") \/ At("cli", "publish")
    /\ faults < MaxFault /\ faults' = faults + 1
    /\ proj' = [proj EXCEPT !.state = "interrupted"]
    /\ job' = [job EXCEPT !["cli"] = Idle]
    /\ UNCHANGED <<ready, memory, files, docs, backup, flight, restores>>

-----------------------------------------------------------------------------
(* Recall: candidates are read, the embedding provider is awaited, and what  *)
(* still stands is published.                                                *)

RecallReads ==
    /\ At("daemon", "idle") /\ recall = {} /\ ready /\ ~Pending(ops) /\ Serving # 0
    /\ recall' = {d \in docs : d.gen = Serving}
                 \cup {[path |-> a, of |-> files[a]] : a \in {a \in SummaryFile : files[a] # {}}}
    /\ recall' # {}
    /\ UNCHANGED <<ready, memory, files, index, backup, job, draft, bounds>>

IsFile(i) == "path" \in DOMAIN i

\* Seeded fault: an item is checked for being there still, whatever its version.
FaultPublishable(i) ==
    IF IsFile(i) THEN ~Pending(ops) /\ files[i.path] # {} ELSE \E r \in rows : r.id = i.id

\* recheckItemForPublication: a row is compared with the version that was read;
\* a summary file has only to be there still, whatever is in it by now, and nothing
\* may be pending.
Publishable(i) ==
    IF IsFile(i) THEN ~Pending(ops) /\ files[i.path] # {}
    ELSE /\ ~Suppressed({i.id})
         /\ \E r \in rows : r.id = i.id /\ SameVersion(r, i)

RecallPublishes ==
    /\ At("daemon", "idle") /\ recall # {}
    /\ recall' = {}
    /\ UNCHANGED <<ready, memory, files, index, backup, job, draft, bounds>>

-----------------------------------------------------------------------------

Sources == (SUBSET Raw) \ {{}}

MemoryNext ==
    \/ \E r \in Raw : RecordMessage(r) \/ Prune(r)
    \/ \E of \in Sources :
          \/ \E d \in Durable : StoreDurable(d, of)
          \/ \E r \in rows : Supersede(r, of)
          \/ \E e \in Episode : CreateEpisode(e, of)
          \/ \E a \in SummaryFile : SleepReads(a, of)
    \/ SleepWrites \/ RecallReads \/ RecallPublishes
    \/ \E p \in Process :
          \/ \E t \in Record : ForgetReads(p, t)
          \/ ForgetMarks(p) \/ Enforced(p) \/ CleanArtifacts(p) \/ CleanFails(p) \/ Complete(p)
          \/ Reconcile(p) \/ Crash(p)
    \/ CreateBackup \/ \E mode \in {"merge", "replace"} : RestoreBackup(mode)
    \/ RestoreRefused \/ RestoreWipes \/ RestoreMessages \/ RestorePersonal
    \/ RestoreFiles \/ RestoreReady \/ InvalidateProjections
    \/ BuildProjection \/ IndexSources \/ VerifyBuild \/ Publish \/ BuildThrows

MemorySpec == MemoryInit /\ [][MemoryNext]_memoryVars

-----------------------------------------------------------------------------
(* Properties.                                                               *)

\* What was ever named by a forget, or marked with what was.
Forgotten == marks \cup {t \in Record : ops[t] # "none"}

\* While personal memory is served and no forgetting is pending, nothing that
\* was forgotten is in the database, whatever crashed, was restored or raced
\* (enforceForgetMarkers, restoreBackup).
NothingForgottenStored ==
    ready /\ ~Pending(ops) =>
        /\ raws \cap Forgotten = {}
        /\ \A r \in rows : r.id \notin Forgotten /\ (r.of \cup r.past) \cap Forgotten = {}

\* A restore brings back an earlier revision of a durable, and the next one has
\* a number that was given before, to other content.
NamesItsContent(i) == restores = 0 \/ i.id \in Episode \/ i.rev = 1

\* No durable and no episode leaves in a recall that was read before its
\* forgetting, or from a generation built before it (the publication gate), as far
\* as the number of a revision says what is in it.  Of summary files this is not
\* said: the gate only looks whether the file is there.
NoForgottenRowPublished ==
    \A i \in recall : ~IsFile(i) /\ NamesItsContent(i) /\ At("daemon", "idle") /\ Publishable(i)
                      => i.of \cap Forgotten = {}

\* Messages and rows that the owner told the memory to forget are neither kept nor
\* given out.  Summary files are outside of it: see SummariesForget.
ForgottenRowsGone == NothingForgottenStored /\ NoForgottenRowPublished

\* No summary file keeps a forgotten message once its forgetting is complete.
SummariesForget ==
    ready /\ ~Pending(ops) => \A a \in SummaryFile : files[a] \cap Forgotten = {}

=============================================================================
