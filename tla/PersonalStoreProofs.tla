------------------------ MODULE PersonalStoreProofs ------------------------
(* Machine-checked proofs about PersonalStore, for every set of messages,    *)
(* durables, episodes and summary files, any number of revisions, builds and *)
(* restores, and any number of deaths and failures; about SleepExtraction,   *)
(* for every set of facts and any number of messages, runs and lines; and    *)
(* about HostCapture, for any number of executions, checkpoints and deaths.  *)
EXTENDS PersonalStore, SleepExtraction, HostCapture, FiniteSetTheorems, WellFoundedInduction,
        NaturalsInduction, SequenceTheorems, TLAPS

-----------------------------------------------------------------------------
(* The inductive invariant *)

Step == {"idle", "mark", "enforce", "clean", "complete", "reconcile", "wipe", "messages", "personal",
         "files", "ready", "invalidate", "index", "verify", "publish"}
Status == {"none", "pending", "complete"}
JobType == [step : Step, op : Op, lineage : SUBSET Record, todo : SUBSET Op,
            mode : {"none", "merge", "replace"}]
BackupType == [raws : SUBSET Raw, rows : SUBSET Row, marks : SUBSET Record,
               ops : [Op -> Status], files : [SummaryFile -> SUBSET Raw], ready : BOOLEAN]

\* A table of rows: its ids are unique, and an episode has no past.
Table(rs) ==
    /\ rs \subseteq Row
    /\ \A r, s \in rs : r.id = s.id => r = s
    /\ \A r \in rs : r.id \in Episode => r.past = {}

\* A build of the projection is under way only where there is room for it.
Building == At("cli", "index") \/ At("cli", "verify") \/ At("cli", "publish")

Typed ==
    /\ MemoryTypeOK
    /\ Table(rows) /\ backup \in BackupType /\ Table(backup.rows)
    /\ job \in [Process -> JobType]
    /\ draft.of \subseteq Raw
    /\ \A i \in recall : IsFile(i) \/ i \in Doc
    /\ Building => proj.serving < MaxGen

\* What an operation was ever made for is marked, here and in the backup.
OpsMarked ==
    \A t \in Record : /\ ops[t] # "none" => t \in marks
                      /\ backup.ops[t] # "none" => t \in backup.marks

\* Every id there is was given out, so that a new one is not marked.
Named(rs) == UNION {{r.id} \cup r.of \cup r.past : r \in rs}
UsedAll ==
    /\ raws \subseteq used /\ marks \subseteq used /\ Named(rows) \subseteq used
    /\ backup.raws \subseteq used /\ backup.marks \subseteq used
    /\ Named(backup.rows) \subseteq used

RowsClean == \A r \in rows : r.id \notin marks /\ (r.of \cup r.past) \cap marks = {}

\* From the enforcement of a restore on, and whenever memory is served, the
\* messages are clean; before it, memory is not served.
Restoring == {"wipe", "messages", "personal"}
Cleaned == {"files", "mark", "enforce", "clean", "complete", "reconcile", "ready", "invalidate"}
RawsClean == ready \/ job["cli"].step \in Cleaned => raws \cap marks = {}
RestoringApart == job["cli"].step \in Restoring => ~ready /\ restores > 0

\* What a forget is about to mark was given out, its target first.
Marking ==
    \A p \in Process :
        At(p, "mark") => /\ job[p].op \in Record /\ job[p].op \in job[p].lineage
                         /\ job[p].lineage \subseteq used

\* The versions of durables there are: in the table, the backup, the projection
\* and the recall in flight.
Read == {i \in recall : ~IsFile(i)}
VersionOf(r) == [id |-> r.id, rev |-> r.rev, of |-> r.of]
Versions == {VersionOf(r) : r \in {r \in rows \cup backup.rows \cup docs \cup Read : r.id \in Durable}}

VersionsUsed == \A x \in Versions : x.id \in used

\* A revision number names one content, as long as nothing was restored.
Agree ==
    \A x, y \in Versions :
        x.id = y.id /\ x.rev = y.rev /\ (restores = 0 \/ x.rev = 1) => x.of = y.of
Newest ==
    restores = 0 => \A x \in Versions : \A r \in rows : x.id = r.id => x.rev <= r.rev

IInv ==
    /\ Typed /\ OpsMarked /\ UsedAll /\ RowsClean /\ RawsClean /\ RestoringApart
    /\ Marking /\ VersionsUsed /\ Agree /\ Newest

-----------------------------------------------------------------------------
(* The steps *)

\* What a step leaves alone that touches neither the tables nor their copies.
stored == <<raws, rows, used, marks, ops, docs, backup, recall, restores>>

\* Every step leaves the tables and their copies alone, or is one of these.
LEMMA Steps ==
    ASSUME MemoryNext
    PROVE  \/ UNCHANGED stored
           \/ \E r \in Raw : RecordMessage(r) \/ Prune(r)
           \/ \E of \in Sources :
                 \/ \E d \in Durable : StoreDurable(d, of)
                 \/ \E r \in rows : Supersede(r, of)
                 \/ \E e \in Episode : CreateEpisode(e, of)
           \/ \E p \in Process :
                 \/ ForgetMarks(p) \/ Enforced(p) \/ Complete(p) \/ Reconcile(p) \/ Crash(p)
           \/ CreateBackup \/ \E mode \in {"merge", "replace"} : RestoreBackup(mode)
           \/ RestoreWipes \/ RestoreMessages \/ RestorePersonal
           \/ InvalidateProjections \/ BuildProjection \/ IndexSources \/ Publish
           \/ RecallReads \/ RecallPublishes
<1>1. ASSUME NEW a \in SummaryFile, NEW of \in Sources, SleepReads(a, of)  PROVE UNCHANGED stored
  BY <1>1 DEF SleepReads, stored, memory, index, bounds
<1>2. SleepWrites => UNCHANGED stored
  BY DEF SleepWrites, stored, memory, index, bounds
<1>3. ASSUME NEW p \in Process,
             (\E t \in Record : ForgetReads(p, t)) \/ CleanArtifacts(p) \/ CleanFails(p)
      PROVE  UNCHANGED stored
  BY <1>3 DEF ForgetReads, CleanArtifacts, CleanFails, stored, memory, index, flight, bounds
<1>4. RestoreRefused \/ RestoreFiles \/ RestoreReady => UNCHANGED stored
  BY DEF RestoreRefused, RestoreFiles, RestoreReady, stored, memory, index, flight, bounds
<1>5. VerifyBuild \/ BuildThrows => UNCHANGED stored
  BY DEF VerifyBuild, BuildThrows, stored, memory, flight, bounds
<1> QED
  BY <1>1, <1>2, <1>3, <1>4, <1>5 DEF MemoryNext

-----------------------------------------------------------------------------
(* What the operators return *)

\* A document is a row's version.
LEMMA DocOfRow ==
    ASSUME NEW r \in Row, NEW g \in 1..MaxGen
    PROVE  /\ DocOf(r, g) \in Doc /\ ~IsFile(DocOf(r, g))
           /\ DocOf(r, g).id = r.id /\ VersionOf(DocOf(r, g)) = VersionOf(r)
<1> QED
  BY DEF DocOf, Row, Doc, IsFile, VersionOf

\* The projection is filled from the rows.
FilledFrom(ds, rs) ==
    \A d \in ds : d \in docs \/ \E r \in rs, g \in 1..MaxGen : d = DocOf(r, g)

\* The projection serves a generation that there is, or none (0).
LEMMA ServingGen == ASSUME MemoryTypeOK PROVE Serving \in 0..MaxGen
<1> QED
  BY StoreAssumption DEF MemoryTypeOK, Serving

\* Reconciliation drops documents, and adds versions of rows only.
LEMMA ReconciledFrom ==
    ASSUME MemoryTypeOK, NEW rs, NEW m, NEW o
    PROVE  FilledFrom(Reconciled(rs, m, o), rs)
<1>1. Eligible(rs, m, o) \subseteq rs
  BY DEF Eligible
<1> QED
  BY <1>1, ServingGen, StoreAssumption DEF FilledFrom, Reconciled

\* Enforcement leaves a table clean, and of a durable what it was.
LEMMA UnmarkedTable ==
    ASSUME NEW rs, Table(rs), NEW m
    PROVE  /\ Table(Unmarked(rs, m))
           /\ \A r \in Unmarked(rs, m) : r.id \notin m /\ (r.of \cup r.past) \cap m = {}
           /\ Named(Unmarked(rs, m)) \subseteq Named(rs)
           /\ \A r \in Unmarked(rs, m) :
                r.id \in Durable => \E s \in rs : VersionOf(s) = VersionOf(r)
<1> DEFINE KeptD == {r \in rs : r.id \in Durable \ m /\ r.of \cap m = {}}
           KeptE == {r \in rs : r.id \in Episode \ m}
<1>1. ASSUME NEW r \in Unmarked(rs, m)
      PROVE  \/ \E s \in KeptD : r = [s EXCEPT !.past = @ \ m]
             \/ \E s \in KeptE : r = [s EXCEPT !.of = @ \ m]
  BY <1>1, Zenon DEF Unmarked
<1>2. ASSUME NEW r \in Unmarked(rs, m)
      PROVE  \E s \in rs : /\ r \in Row /\ r.id = s.id /\ r.rev = s.rev
                           /\ r.of \subseteq s.of /\ r.past \subseteq s.past
                           /\ r.id \notin m /\ r.of \cap m = {}
                           /\ s.id \in Durable => r.of = s.of /\ r.past \cap m = {}
                           /\ s.id \in Episode => r.past = {}
                           /\ \/ s \in KeptD /\ r = [s EXCEPT !.past = @ \ m]
                              \/ s \in KeptE /\ r = [s EXCEPT !.of = @ \ m]
  <2>1. CASE \E s \in KeptD : r = [s EXCEPT !.past = @ \ m]
    <3>1. PICK s \in KeptD : r = [s EXCEPT !.past = @ \ m]
      BY <2>1
    <3>2. s \in rs /\ s \in Row /\ s.id \in Durable \ m /\ s.of \cap m = {}
      BY DEF Table
    <3>3. r \in Row /\ r.id = s.id /\ r.rev = s.rev /\ r.of = s.of /\ r.past = s.past \ m
      BY <3>1, <3>2 DEF Row
    <3> QED
      BY <3>1, <3>2, <3>3, StoreAssumption
  <2>2. CASE \E s \in KeptE : r = [s EXCEPT !.of = @ \ m]
    <3>1. PICK s \in KeptE : r = [s EXCEPT !.of = @ \ m]
      BY <2>2
    <3>2. s \in rs /\ s \in Row /\ s.id \in Episode \ m /\ s.past = {}
      BY DEF Table
    <3>3. r \in Row /\ r.id = s.id /\ r.rev = s.rev /\ r.of = s.of \ m /\ r.past = s.past
      BY <3>1, <3>2 DEF Row
    <3> QED
      BY <3>1, <3>2, <3>3, StoreAssumption
  <2> QED
    BY <1>1, <2>1, <2>2
<1>3. \A r \in Unmarked(rs, m) : r.id \in Derived
  BY <1>2 DEF Row
<1>4. \A r, s \in Unmarked(rs, m) : r.id = s.id => r = s
  <2> SUFFICES ASSUME NEW r \in Unmarked(rs, m), NEW s \in Unmarked(rs, m), r.id = s.id
               PROVE  r = s
    OBVIOUS
  <2>1. PICK a \in rs : /\ r.id = a.id
                        /\ \/ a \in KeptD /\ r = [a EXCEPT !.past = @ \ m]
                           \/ a \in KeptE /\ r = [a EXCEPT !.of = @ \ m]
    BY <1>2
  <2>2. PICK b \in rs : /\ s.id = b.id
                        /\ \/ b \in KeptD /\ s = [b EXCEPT !.past = @ \ m]
                           \/ b \in KeptE /\ s = [b EXCEPT !.of = @ \ m]
    BY <1>2
  <2>3. a = b
    BY <2>1, <2>2 DEF Table
  <2>4. ~(a \in KeptD /\ a \in KeptE)
    BY StoreAssumption
  <2> QED
    BY <2>1, <2>2, <2>3, <2>4, Zenon
<1>5. \A r \in Unmarked(rs, m) : (r.of \cup r.past) \cap m = {}
  <2> SUFFICES ASSUME NEW r \in Unmarked(rs, m) PROVE (r.of \cup r.past) \cap m = {}
    OBVIOUS
  <2> QED
    BY <1>2, <1>3 DEF Derived
<1>6. Named(Unmarked(rs, m)) \subseteq Named(rs)
  BY <1>2 DEF Named
<1>7. \A r \in Unmarked(rs, m) : r.id \in Durable => \E s \in rs : VersionOf(s) = VersionOf(r)
  <2> SUFFICES ASSUME NEW r \in Unmarked(rs, m), r.id \in Durable
               PROVE  \E s \in rs : VersionOf(s) = VersionOf(r)
    OBVIOUS
  <2>1. PICK s \in rs : /\ r.id = s.id /\ r.rev = s.rev
                        /\ s.id \in Durable => r.of = s.of
    BY <1>2
  <2>2. r.of = s.of
    BY <2>1
  <2> QED
    BY <2>1, <2>2 DEF VersionOf
<1> HIDE DEF KeptD, KeptE
<1>8. Table(Unmarked(rs, m))
  BY <1>2, <1>4 DEF Table
<1> QED
  BY <1>2, <1>5, <1>6, <1>7, <1>8

\* The steps that write rows or marks.
LEMMA RowSteps ==
    ASSUME MemoryNext
    PROVE  \/ UNCHANGED <<rows, marks>>
           \/ \E of \in Sources :
                 \/ \E d \in Durable : StoreDurable(d, of)
                 \/ \E r \in rows : Supersede(r, of)
                 \/ \E e \in Episode : CreateEpisode(e, of)
           \/ \E p \in Process : ForgetMarks(p) \/ Enforced(p)
           \/ RestorePersonal
<1>1. UNCHANGED stored => UNCHANGED <<rows, marks>>
  BY DEF stored
<1>2. ASSUME NEW r \in Raw, RecordMessage(r) \/ Prune(r)  PROVE UNCHANGED <<rows, marks>>
  BY <1>2 DEF RecordMessage, Prune
<1>3. ASSUME NEW p \in Process, Complete(p) \/ Reconcile(p) \/ Crash(p)
      PROVE  UNCHANGED <<rows, marks>>
  BY <1>3 DEF Complete, Reconcile, Crash, memory
<1>4. CreateBackup \/ (\E mode \in {"merge", "replace"} : RestoreBackup(mode))
        => UNCHANGED <<rows, marks>>
  BY DEF CreateBackup, RestoreBackup, memory
<1>5. RestoreWipes \/ RestoreMessages => UNCHANGED <<rows, marks>>
  BY DEF RestoreWipes, RestoreMessages
<1>6. InvalidateProjections \/ BuildProjection \/ IndexSources \/ Publish => UNCHANGED <<rows, marks>>
  BY DEF InvalidateProjections, BuildProjection, IndexSources, Publish, memory
<1>7. RecallReads \/ RecallPublishes => UNCHANGED <<rows, marks>>
  BY DEF RecallReads, RecallPublishes, memory
<1> QED
  BY Steps, <1>1, <1>2, <1>3, <1>4, <1>5, <1>6, <1>7

\* What evidence may quote was given out.
LEMMA QuotableUsed ==
    ASSUME Typed, UsedAll
    PROVE  Quotable \subseteq used
<1> QED
  BY DEF Quotable, UsedAll, Named

\* The rows a restore starts from are a table.
LEMMA RestorableTable ==
    ASSUME Typed, NEW kept, kept = rows \/ kept = {}
    PROVE  /\ Table(kept \cup Restorable(kept))
           /\ kept \cup Restorable(kept) \subseteq rows \cup backup.rows
<1> QED
  BY DEF Typed, Table, Restorable

\* The rows stay a table, and clean of what is marked.
LEMMA RowsStep ==
    ASSUME IInv, MemoryNext
    PROVE  /\ Table(rows')
           /\ RowsClean'
<1> USE DEF IInv
<1>a. Table(rows) /\ RowsClean /\ UsedAll /\ Typed /\ MemoryTypeOK
  BY DEF Typed
<1>1. CASE UNCHANGED <<rows, marks>>
  BY <1>1, <1>a DEF RowsClean
<1>2. ASSUME NEW of \in Sources, NEW d \in Durable, StoreDurable(d, of)
      PROVE  Table(rows') /\ RowsClean'
  <2>1. PICK row : row = [id |-> d, rev |-> 1, of |-> of, past |-> {}]
    OBVIOUS
  <2>2. rows' = rows \cup {row} /\ marks' = marks
    BY <1>2, <2>1 DEF StoreDurable
  <2>3. row \in Row /\ row.id = d /\ row.of = of /\ row.past = {}
    BY <2>1, StoreAssumption DEF Row, Sources, Derived
  <2>4. d \notin used /\ of \cap marks = {}
    BY <1>2 DEF StoreDurable, Suppressed
  <2>5. \A r \in rows : r.id # d
    BY <2>4, <1>a DEF UsedAll, Named
  <2>6. d \notin marks
    BY <2>4, <1>a DEF UsedAll
  <2>7. Table(rows')
    BY <2>2, <2>3, <2>5, <1>a DEF Table
  <2>8. RowsClean'
    BY <2>2, <2>3, <2>4, <2>6, <1>a DEF RowsClean
  <2> QED
    BY <2>7, <2>8
<1>3. ASSUME NEW of \in Sources, NEW r \in rows, Supersede(r, of)
      PROVE  Table(rows') /\ RowsClean'
  <2>1. PICK row : row = [id |-> r.id, rev |-> r.rev + 1, of |-> of, past |-> r.past \cup r.of]
    OBVIOUS
  <2>2. rows' = (rows \ {r}) \cup {row} /\ marks' = marks
    BY <1>3, <2>1 DEF Supersede
  <2>3. row.id = r.id /\ row.of = of /\ row.past = r.past \cup r.of
    BY <2>1
  <2>4. r \in Row /\ r.id \in Durable /\ r.rev < MaxRev
    BY <1>3, <1>a DEF Supersede, Table
  <2>5. r.rev + 1 \in 1..MaxRev
    BY <2>4, StoreAssumption DEF Row
  <2>6. row \in Row
    BY <2>1, <2>4, <2>5 DEF Row, Sources
  <2>7. of \cap marks = {} /\ r.id \notin marks
    BY <1>3 DEF Supersede, Suppressed
  <2>8. Table(rows')
    BY <2>2, <2>3, <2>4, <2>6, <1>a, StoreAssumption DEF Table
  <2>9. RowsClean'
    BY <2>2, <2>3, <2>7, <1>a DEF RowsClean
  <2> QED
    BY <2>8, <2>9
<1>4. ASSUME NEW of \in Sources, NEW e \in Episode, CreateEpisode(e, of)
      PROVE  Table(rows') /\ RowsClean'
  <2>1. PICK row : row = [id |-> e, rev |-> 1, of |-> of, past |-> {}]
    OBVIOUS
  <2>2. rows' = rows \cup {row} /\ marks' = marks
    BY <1>4, <2>1 DEF CreateEpisode
  <2>3. row \in Row /\ row.id = e /\ row.of = of /\ row.past = {}
    BY <2>1, StoreAssumption DEF Row, Sources, Derived
  <2>4. e \notin used /\ of \cap marks = {}
    BY <1>4 DEF CreateEpisode, Suppressed
  <2>5. \A r \in rows : r.id # e
    BY <2>4, <1>a DEF UsedAll, Named
  <2>6. e \notin marks
    BY <2>4, <1>a DEF UsedAll
  <2>7. Table(rows')
    BY <2>2, <2>3, <2>5, <1>a DEF Table
  <2>8. RowsClean'
    BY <2>2, <2>3, <2>4, <2>6, <1>a DEF RowsClean
  <2> QED
    BY <2>7, <2>8
<1>5. ASSUME NEW p \in Process, ForgetMarks(p)
      PROVE  Table(rows') /\ RowsClean'
  <2>1. rows' = Unmarked(rows, marks')
    BY <1>5 DEF ForgetMarks, Enforce
  <2> QED
    BY <2>1, <1>a, UnmarkedTable DEF RowsClean
<1>6. ASSUME NEW p \in Process, Enforced(p)
      PROVE  Table(rows') /\ RowsClean'
  <2>1. rows' = Unmarked(rows, marks) /\ marks' = marks
    BY <1>6 DEF Enforced, Enforce
  <2> QED
    BY <2>1, <1>a, UnmarkedTable DEF RowsClean
<1>7. ASSUME RestorePersonal
      PROVE  Table(rows') /\ RowsClean'
  <2>1. PICK kept : /\ kept = rows \/ kept = {}
                    /\ rows' = Unmarked(kept \cup Restorable(kept), marks')
    BY <1>7 DEF RestorePersonal, Enforce
  <2>2. Table(kept \cup Restorable(kept))
    BY <2>1, <1>a, RestorableTable
  <2> DEFINE rs == kept \cup Restorable(kept)
  <2>3. rows' = Unmarked(rs, marks') /\ Table(rs)
    BY <2>1, <2>2
  <2> HIDE DEF rs
  <2>4. /\ Table(Unmarked(rs, marks'))
        /\ \A r \in Unmarked(rs, marks') : r.id \notin marks' /\ (r.of \cup r.past) \cap marks' = {}
    BY <2>3, UnmarkedTable
  <2> QED
    BY <2>3, <2>4 DEF RowsClean
<1> QED
  BY RowSteps, <1>1, <1>2, <1>3, <1>4, <1>5, <1>6, <1>7

\* A document that a step leaves was there, or is a version of a row.
LEMMA DocsStep ==
    ASSUME IInv, MemoryNext
    PROVE  FilledFrom(docs', rows')
<1>a. MemoryTypeOK /\ Typed /\ proj.serving \in 0..MaxGen /\ Serving \in 0..MaxGen
  BY ServingGen DEF IInv, Typed, MemoryTypeOK
<1>1. docs' \subseteq docs => FilledFrom(docs', rows')
  BY DEF FilledFrom
<1>2. CASE UNCHANGED stored
  BY <1>2, <1>1 DEF stored
<1>3. ASSUME NEW r \in Raw, RecordMessage(r) \/ Prune(r)  PROVE docs' \subseteq docs
  BY <1>3 DEF RecordMessage, Prune, index
<1>4. ASSUME NEW ds, NEW row, row \in rows', ds \subseteq docs, docs' = Indexed(ds, row)
      PROVE  FilledFrom(docs', rows')
  BY <1>4, <1>a, StoreAssumption DEF FilledFrom, Indexed
<1>5. ASSUME NEW of \in Sources, NEW d \in Durable, StoreDurable(d, of)
      PROVE  FilledFrom(docs', rows')
  <2>1. PICK row : row \in rows' /\ docs' = Indexed(docs, row)
    BY <1>5 DEF StoreDurable
  <2> QED
    BY <2>1, <1>4
<1>6. ASSUME NEW of \in Sources, NEW r \in rows, Supersede(r, of)
      PROVE  FilledFrom(docs', rows')
  <2>1. PICK row : row \in rows' /\ docs' = Indexed(Dropped(docs, r.id), row)
    BY <1>6 DEF Supersede
  <2>2. Dropped(docs, r.id) \subseteq docs
    BY DEF Dropped
  <2> QED
    BY <2>1, <2>2, <1>4
<1>7. ASSUME NEW of \in Sources, NEW e \in Episode, CreateEpisode(e, of)
      PROVE  FilledFrom(docs', rows')
  <2>1. PICK row : row \in rows' /\ docs' = Indexed(docs, row)
    BY <1>7 DEF CreateEpisode
  <2> QED
    BY <2>1, <1>4
<1>8. ASSUME NEW held, NEW rs, NEW m, NEW o, Enforce(held, rs, m, o)
      PROVE  FilledFrom(docs', rows')
  <2>1. CASE m = {}
    BY <2>1, <1>8, <1>1 DEF Enforce
  <2>2. CASE m # {}
    <3>1. docs' = Reconciled(rows', m, o)
      BY <2>2, <1>8 DEF Enforce
    <3> QED
      BY <3>1, <1>a, ReconciledFrom
  <2> QED
    BY <2>1, <2>2
<1>9. ASSUME NEW p \in Process, ForgetMarks(p)
      PROVE  FilledFrom(docs', rows')
  BY <1>9, <1>8 DEF ForgetMarks
<1>10. ASSUME NEW p \in Process, Enforced(p) \/ Complete(p) \/ Crash(p)
       PROVE  FilledFrom(docs', rows')
  <2>1. Enforced(p) => FilledFrom(docs', rows')
    BY <1>8 DEF Enforced
  <2>2. Complete(p) \/ Crash(p) => docs' \subseteq docs
    BY DEF Complete, Crash, index
  <2> QED
    BY <1>10, <2>1, <2>2, <1>1
<1>11. ASSUME NEW p \in Process, Reconcile(p)
       PROVE  FilledFrom(docs', rows')
  <2>1. docs' = Reconciled(rows, marks, ops) /\ rows' = rows
    BY <1>11 DEF Reconcile, memory
  <2> QED
    BY <2>1, <1>a, ReconciledFrom
<1>12. RestorePersonal => FilledFrom(docs', rows')
  BY <1>8 DEF RestorePersonal
<1>13. CreateBackup \/ (\E mode \in {"merge", "replace"} : RestoreBackup(mode)) => docs' \subseteq docs
  BY DEF CreateBackup, RestoreBackup, index
<1>14. RestoreWipes \/ RestoreMessages => docs' \subseteq docs
  BY DEF RestoreWipes, RestoreMessages, index
<1>15. InvalidateProjections \/ BuildProjection \/ Publish => docs' \subseteq docs
  BY DEF InvalidateProjections, BuildProjection, Publish
<1>16. ASSUME IndexSources  PROVE FilledFrom(docs', rows')
  <2>1. Upcoming \in 1..MaxGen
    BY <1>16, <1>a, StoreAssumption DEF IndexSources, Upcoming, Typed, Building
  <2>2. /\ docs' = docs \cup {DocOf(r, Upcoming) : r \in Eligible(rows, marks, ops)}
        /\ rows' = rows
    BY <1>16 DEF IndexSources, memory
  <2>3. Eligible(rows, marks, ops) \subseteq rows
    BY DEF Eligible
  <2> QED
    BY <2>1, <2>2, <2>3 DEF FilledFrom
<1>17. RecallReads \/ RecallPublishes => docs' \subseteq docs
  BY DEF RecallReads, RecallPublishes, index
<1> QED
  BY Steps, <1>1, <1>2, <1>3, <1>5, <1>6, <1>7, <1>9, <1>10, <1>11, <1>12, <1>13, <1>14, <1>15,
     <1>16, <1>17

\* A recall holds what the projection held, and files.
LEMMA RecallStep ==
    ASSUME IInv, MemoryNext
    PROVE  \A i \in recall' : i \in recall \/ i \in docs \/ IsFile(i)
<1>1. UNCHANGED stored => recall' \subseteq recall
  BY DEF stored
<1>2. ASSUME NEW r \in Raw, RecordMessage(r) \/ Prune(r)  PROVE recall' \subseteq recall
  BY <1>2 DEF RecordMessage, Prune, flight
<1>3. ASSUME NEW of \in Sources, NEW r,
             StoreDurable(r, of) \/ Supersede(r, of) \/ CreateEpisode(r, of)
      PROVE  recall' \subseteq recall
  BY <1>3 DEF StoreDurable, Supersede, CreateEpisode, flight
<1>4. ASSUME NEW p \in Process,
             ForgetMarks(p) \/ Enforced(p) \/ Complete(p) \/ Reconcile(p) \/ Crash(p)
      PROVE  recall' \subseteq recall
  BY <1>4 DEF ForgetMarks, Enforced, Complete, Reconcile, Crash, flight
<1>5. CreateBackup \/ (\E mode \in {"merge", "replace"} : RestoreBackup(mode)) => recall' \subseteq recall
  BY DEF CreateBackup, RestoreBackup, flight
<1>6. RestoreWipes \/ RestoreMessages \/ RestorePersonal => recall' \subseteq recall
  BY DEF RestoreWipes, RestoreMessages, RestorePersonal, flight
<1>7. InvalidateProjections \/ BuildProjection \/ IndexSources \/ Publish => recall' \subseteq recall
  BY DEF InvalidateProjections, BuildProjection, IndexSources, Publish, flight
<1>8. RecallPublishes => recall' \subseteq recall
  BY DEF RecallPublishes
<1>9. ASSUME RecallReads  PROVE \A i \in recall' : i \in docs \/ IsFile(i)
  <2>1. \A a : IsFile([path |-> a, of |-> files[a]])
    BY DEF IsFile
  <2> QED
    BY <1>9, <2>1 DEF RecallReads
<1> QED
  BY Steps, <1>1, <1>2, <1>3, <1>4, <1>5, <1>6, <1>7, <1>8, <1>9

\* A backup is taken of the tables as they are.
LEMMA BackupStep ==
    ASSUME MemoryNext
    PROVE  \/ backup' = backup
           \/ /\ CreateBackup
              /\ backup' = [raws |-> raws, rows |-> rows, marks |-> marks, ops |-> ops,
                            files |-> files, ready |-> ready]
<1>1. UNCHANGED stored => backup' = backup
  BY DEF stored
<1>2. ASSUME NEW r \in Raw, RecordMessage(r) \/ Prune(r)  PROVE backup' = backup
  BY <1>2 DEF RecordMessage, Prune
<1>3. ASSUME NEW of \in Sources, NEW r,
             StoreDurable(r, of) \/ Supersede(r, of) \/ CreateEpisode(r, of)
      PROVE  backup' = backup
  BY <1>3 DEF StoreDurable, Supersede, CreateEpisode
<1>4. ASSUME NEW p \in Process,
             ForgetMarks(p) \/ Enforced(p) \/ Complete(p) \/ Reconcile(p) \/ Crash(p)
      PROVE  backup' = backup
  BY <1>4 DEF ForgetMarks, Enforced, Complete, Reconcile, Crash
<1>5. (\E mode \in {"merge", "replace"} : RestoreBackup(mode)) => backup' = backup
  BY DEF RestoreBackup
<1>6. RestoreWipes \/ RestoreMessages \/ RestorePersonal => backup' = backup
  BY DEF RestoreWipes, RestoreMessages, RestorePersonal
<1>7. InvalidateProjections \/ BuildProjection \/ IndexSources \/ Publish => backup' = backup
  BY DEF InvalidateProjections, BuildProjection, IndexSources, Publish
<1>8. RecallReads \/ RecallPublishes => backup' = backup
  BY DEF RecallReads, RecallPublishes
<1> QED
  BY Steps, <1>1, <1>2, <1>3, <1>4, <1>5, <1>6, <1>7, <1>8 DEF CreateBackup

\* What a forget marks was given out.
LEMMA LineageUsed ==
    ASSUME Typed, UsedAll, NEW t \in Record, t \in Quotable \/ \E r \in rows : r.id = t
    PROVE  Lineage(t) \subseteq used /\ Lineage(t) \subseteq Record /\ t \in Lineage(t)
<1>1. t \in used
  BY QuotableUsed DEF UsedAll, Named
<1>2. \A r \in rows : r.of \cup r.past \subseteq used
  BY DEF UsedAll, Named
<1>3. used \subseteq Record
  BY DEF Typed, MemoryTypeOK
<1> QED
  BY <1>1, <1>2, <1>3 DEF Lineage

-----------------------------------------------------------------------------
(* The jobs of the processes *)

\* The jobs after a step of p: p's is at one of some steps, and the other's is
\* what it was.
JobAt(p, steps) ==
    /\ job' \in [Process -> JobType]
    /\ job'[p].step \in steps
    /\ \A q \in Process \ {p} : job'[q] = job[q]

\* A process that goes on to a step keeps the rest of its job.
LEMMA GotoJob ==
    ASSUME Typed, NEW p \in Process, NEW s \in Step, Goto(p, s)
    PROVE  JobAt(p, {s})
<1>1. job \in [Process -> JobType] /\ job' = [job EXCEPT ![p].step = s]
  BY DEF Typed, Goto
<1>2. job[p] \in JobType
  BY <1>1
<1>3. [job[p] EXCEPT !.step = s] \in JobType /\ [job[p] EXCEPT !.step = s].step = s
  BY <1>2 DEF JobType
<1>4. job' = [job EXCEPT ![p] = [job[p] EXCEPT !.step = s]]
  BY <1>1
<1> QED
  BY <1>1, <1>3, <1>4 DEF JobAt

LEMMA SetJob ==
    ASSUME Typed, NEW p \in Process, NEW j \in JobType, job' = [job EXCEPT ![p] = j]
    PROVE  JobAt(p, {j.step})
<1> QED
  BY DEF Typed, JobAt

LEMMA IdleJob == Idle \in JobType /\ Idle.step = "idle"
<1> QED
  BY DEF Idle, JobType, Step, Op

\* A process takes up a pending operation.
Taken(j, t, left) == [j EXCEPT !.step = "enforce", !.op = t, !.todo = left]

LEMMA TakenJob ==
    ASSUME NEW j \in JobType, NEW t \in Op, NEW left \in SUBSET Op
    PROVE  Taken(j, t, left) \in JobType /\ Taken(j, t, left).step = "enforce"
<1> QED
  BY DEF Taken, JobType, Step

\* What follows an operation: the next one, the end of a restore, or nothing.
LEMMA NextOpJob ==
    ASSUME Typed, NEW p \in Process, NextOp(p)
    PROVE  JobAt(p, {"enforce", "ready", "idle"})
<1> DEFINE j == job[p]
           t == CHOOSE t \in j.todo : TRUE
           next == IF j.todo # {} THEN Taken(j, t, j.todo \ {t})
                   ELSE IF j.mode # "none" THEN [j EXCEPT !.step = "ready", !.op = "none"]
                   ELSE Idle
<1>1. j \in JobType
  BY DEF Typed
<1>2. job' = [job EXCEPT ![p] = next]
  BY <1>1 DEF NextOp, Taken, JobType
<1> HIDE DEF t
<1>3. [j EXCEPT !.step = "ready", !.op = "none"] \in JobType
  BY <1>1 DEF JobType, Step, Op
<1>4. [j EXCEPT !.step = "ready", !.op = "none"].step = "ready"
  BY <1>1 DEF JobType
<1>5. next \in JobType /\ next.step \in {"enforce", "ready", "idle"}
  <2>1. CASE j.todo # {}
    <3>1. next = Taken(j, t, j.todo \ {t})
      BY <2>1
    <3>2. t \in Op /\ j.todo \ {t} \in SUBSET Op
      BY <1>1, <2>1 DEF JobType, t
    <3> QED
      BY <3>1, <3>2, <1>1, TakenJob
  <2>2. CASE j.todo = {}
    BY <2>2, <1>3, <1>4, IdleJob
  <2> QED
    BY <2>1, <2>2
<1> HIDE DEF next
<1>6. JobAt(p, {next.step})
  BY <1>2, <1>5, SetJob
<1> QED
  BY <1>5, <1>6 DEF JobAt

\* A pending operation can be taken up, and leaves the others.
LEMMA PendingTodo ==
    ASSUME NEW o, PendingOps(o) # {}
    PROVE  LET t == CHOOSE t \in PendingOps(o) : TRUE
           IN  t \in Op /\ PendingOps(o) \ {t} \in SUBSET Op
<1> QED
  BY DEF PendingOps

\* What a step of p does to its job.
LEMMA ReadsJob ==
    ASSUME IInv, NEW p \in Process, NEW t \in Record, ForgetReads(p, t)
    PROVE  JobAt(p, {"mark"})
<1> DEFINE next == [Idle EXCEPT !.step = "mark", !.op = t, !.lineage = Lineage(t)]
<1>1. Typed /\ job' = [job EXCEPT ![p] = next]
  BY DEF IInv, ForgetReads
<1>2. t \in Op /\ Lineage(t) \subseteq Record
  BY LineageUsed DEF Op, IInv, ForgetReads
<1>3. next \in JobType /\ next.step = "mark"
  BY <1>2, IdleJob DEF JobType, Step
<1> HIDE DEF next
<1> QED
  BY <1>1, <1>3, SetJob

LEMMA MarksJob ==
    ASSUME Typed, NEW p \in Process, ForgetMarks(p)
    PROVE  JobAt(p, {"enforce"})
<1>1. job[p] \in JobType
  BY DEF Typed
<1>2. job' = [job EXCEPT ![p] = [job[p] EXCEPT !.step = "enforce", !.lineage = {}]]
  BY <1>1 DEF ForgetMarks, Typed, JobType
<1>3. [job[p] EXCEPT !.step = "enforce", !.lineage = {}] \in JobType
  BY <1>1 DEF JobType, Step
<1>4. [job[p] EXCEPT !.step = "enforce", !.lineage = {}].step = "enforce"
  BY <1>1 DEF JobType
<1> QED
  BY <1>2, <1>3, <1>4, SetJob

LEMMA CrashJob ==
    ASSUME Typed, NEW p \in Process, Crash(p)
    PROVE  JobAt(p, IF p = "cli" THEN {"idle"} ELSE {"idle", "enforce"})
<1> DEFINE t == CHOOSE t \in PendingOps(ops) : TRUE
           next == IF p = "daemon" /\ PendingOps(ops) # {}
                   THEN [Idle EXCEPT !.step = "enforce", !.op = t, !.todo = PendingOps(ops) \ {t}]
                   ELSE Idle
<1>1. job' = [job EXCEPT ![p] = next]
  BY DEF Crash
<1>2. next \in JobType /\ next.step \in IF p = "cli" THEN {"idle"} ELSE {"idle", "enforce"}
  <2>1. CASE p = "daemon" /\ PendingOps(ops) # {}
    <3>1. next = Taken(Idle, t, PendingOps(ops) \ {t})
      BY <2>1 DEF Taken
    <3>2. t \in Op /\ PendingOps(ops) \ {t} \in SUBSET Op
      BY <2>1, PendingTodo
    <3> QED
      BY <3>1, <3>2, <2>1, IdleJob, TakenJob
  <2>2. CASE ~(p = "daemon" /\ PendingOps(ops) # {})
    BY <2>2, IdleJob
  <2> QED
    BY <2>1, <2>2
<1> HIDE DEF next
<1>3. JobAt(p, {next.step})
  BY <1>1, <1>2, SetJob
<1> QED
  BY <1>2, <1>3 DEF JobAt

LEMMA RestoreJob ==
    ASSUME Typed, NEW mode \in {"merge", "replace"}, RestoreBackup(mode)
    PROVE  JobAt("cli", {"wipe"})
<1> DEFINE next == [Idle EXCEPT !.step = "wipe", !.mode = mode]
<1>1. job' = [job EXCEPT !["cli"] = next]
  BY DEF RestoreBackup
<1>2. next \in JobType /\ next.step = "wipe"
  BY DEF Idle, JobType, Step, Op
<1> HIDE DEF next
<1>3. "cli" \in Process
  BY DEF Process
<1> QED
  BY <1>1, <1>2, <1>3, SetJob

LEMMA FilesJob ==
    ASSUME Typed, RestoreFiles
    PROVE  JobAt("cli", {"ready", "enforce"})
<1> DEFINE j == job["cli"]
           t == CHOOSE t \in PendingOps(ops) : TRUE
           next == IF PendingOps(ops) = {} THEN [j EXCEPT !.step = "ready"]
                   ELSE Taken(j, t, PendingOps(ops) \ {t})
<1>1. "cli" \in Process /\ j \in JobType
  BY DEF Typed, Process
<1>2. job' = [job EXCEPT !["cli"] = next]
  BY <1>1 DEF RestoreFiles, Taken, Typed
<1>3. next \in JobType /\ next.step \in {"ready", "enforce"}
  <2>1. CASE PendingOps(ops) # {}
    <3>1. t \in Op /\ PendingOps(ops) \ {t} \in SUBSET Op
      BY <2>1, PendingTodo
    <3> QED
      BY <3>1, <2>1, <1>1, TakenJob
  <2>2. CASE PendingOps(ops) = {}
    <3>1. [j EXCEPT !.step = "ready"] \in JobType /\ [j EXCEPT !.step = "ready"].step = "ready"
      BY <1>1 DEF JobType, Step
    <3> QED
      BY <3>1, <2>2
  <2> QED
    BY <2>1, <2>2
<1> HIDE DEF next
<1>4. JobAt("cli", {next.step})
  BY <1>1, <1>2, <1>3, SetJob
<1> QED
  BY <1>3, <1>4 DEF JobAt

\* Only a forget that has read what its target was made from comes to mark it.
ReadsToMark ==
    \A q \in Process :
        job'[q].step = "mark" => job'[q] = job[q] \/ \E t \in Record : ForgetReads(q, t)

\* Where the command line may be, against what is served and restored.
JobsAgree ==
    /\ ReadsToMark
    /\ job' \in [Process -> JobType]
    /\ ready' \in BOOLEAN /\ restores' \in 0..MaxRestore /\ restores <= restores'
    /\ proj' \in [state : {"not_built", "building", "ready", "interrupted", "failed"},
                  serving : 0..MaxGen]
    /\ RestoringApart'
    /\ Building' => proj'.serving < MaxGen
    /\ ready' \/ job'["cli"].step \in Cleaned =>
         ready \/ job["cli"].step \in Cleaned \/ RestorePersonal

\* A job is of its type, whatever died; and the command line gets past the
\* enforcement of a restore by the enforcement only.
LEMMA JobStep ==
    ASSUME IInv, MemoryNext
    PROVE  JobsAgree
<1>a. Typed /\ MemoryTypeOK /\ RestoringApart
  BY DEF IInv, Typed
<1>b. /\ job \in [Process -> JobType] /\ ready \in BOOLEAN /\ restores \in 0..MaxRestore
      /\ proj \in [state : {"not_built", "building", "ready", "interrupted", "failed"},
                   serving : 0..MaxGen]
      /\ Building => proj.serving < MaxGen
      /\ "cli" \in Process /\ "daemon" \in Process
  BY <1>a DEF Typed, MemoryTypeOK, Process
<1>c. ASSUME NEW p \in Process, NEW steps, JobAt(p, steps),
             "mark" \notin steps \/ \E t \in Record : ForgetReads(p, t)
      PROVE  job' \in [Process -> JobType] /\ job'[p].step \in steps /\ ReadsToMark
  BY <1>c DEF JobAt, ReadsToMark
<1>1. ASSUME UNCHANGED <<ready, job, proj, restores>>  PROVE JobsAgree
  BY <1>1, <1>a, <1>b DEF JobsAgree, RestoringApart, Building, At, ReadsToMark
\* A step of the daemon, or one of the command line that is not of a build or
\* before the enforcement of a restore.
<1>2. ASSUME NEW p \in Process, NEW steps, JobAt(p, steps), UNCHANGED <<ready, proj, restores>>,
             steps \cap (Restoring \cup {"index", "verify", "publish"}) = {},
             p = "cli" => steps \cap Cleaned = {} \/ ready \/ job["cli"].step \in Cleaned,
             "mark" \notin steps \/ \E t \in Record : ForgetReads(p, t)
      PROVE  JobsAgree
  <2>0. job' \in [Process -> JobType] /\ job'[p].step \in steps /\ ReadsToMark
    BY <1>2, <1>c
  <2>1. CASE p = "cli"
    <3>1. job'["cli"].step \in steps
      BY <2>0, <2>1
    <3>2. job'["cli"].step \notin Restoring /\ ~(Building')
      BY <3>1, <1>2 DEF Building, At
    <3> QED
      BY <3>1, <3>2, <2>0, <2>1, <1>2, <1>b DEF JobsAgree, RestoringApart
  <2>2. CASE p # "cli"
    <3>1. job'["cli"] = job["cli"]
      BY <2>2, <1>2, <1>b DEF JobAt
    <3> QED
      BY <3>1, <2>0, <1>2, <1>a, <1>b DEF JobsAgree, RestoringApart, Building, At
  <2> QED
    BY <2>1, <2>2
<1>3. ASSUME NEW r \in Raw, RecordMessage(r) \/ Prune(r)  PROVE JobsAgree
  BY <1>3, <1>1 DEF RecordMessage, Prune, index, bounds
<1>4. ASSUME NEW of \in Sources, NEW r,
             StoreDurable(r, of) \/ Supersede(r, of) \/ CreateEpisode(r, of) \/ SleepReads(r, of)
      PROVE  JobsAgree
  BY <1>4, <1>1 DEF StoreDurable, Supersede, CreateEpisode, SleepReads, index, bounds
<1>5. SleepWrites \/ RecallReads \/ RecallPublishes \/ CreateBackup => JobsAgree
  BY <1>1 DEF SleepWrites, RecallReads, RecallPublishes, CreateBackup, index, bounds
<1>6. ASSUME NEW p \in Process, (\E t \in Record : ForgetReads(p, t)) \/ ForgetMarks(p)
      PROVE  JobsAgree
  <2>1. \/ JobAt(p, {"mark"}) /\ ready /\ \E t \in Record : ForgetReads(p, t)
        \/ JobAt(p, {"enforce"}) /\ job[p].step \in Cleaned
    BY <1>6, <1>a, ReadsJob, MarksJob DEF ForgetReads, ForgetMarks, At, Cleaned
  <2>2. UNCHANGED <<ready, proj, restores>>
    BY <1>6 DEF ForgetReads, ForgetMarks, index, bounds
  <2> QED
    BY <2>1, <2>2, <1>2 DEF Restoring
<1>7. ASSUME NEW p \in Process, NEW s \in {"clean", "complete", "reconcile"}, Goto(p, s),
             job[p].step \in Cleaned, UNCHANGED <<ready, proj, restores>>
      PROVE  JobsAgree
  <2>1. JobAt(p, {s})
    BY <1>7, <1>a, GotoJob DEF Step
  <2> QED
    BY <2>1, <1>7, <1>2 DEF Restoring
<1>8. ASSUME NEW p \in Process, NextOp(p), job[p].step \in Cleaned,
             UNCHANGED <<ready, proj, restores>>
      PROVE  JobsAgree
  <2>1. JobAt(p, {"enforce", "ready", "idle"})
    BY <1>8, <1>a, NextOpJob
  <2> QED
    BY <2>1, <1>8, <1>2 DEF Restoring
<1>9. ASSUME NEW p \in Process, Enforced(p) \/ CleanArtifacts(p) \/ Complete(p)  PROVE JobsAgree
  BY <1>9, <1>7 DEF Enforced, CleanArtifacts, Complete, index, bounds, At, Cleaned
<1>10. ASSUME NEW p \in Process, CleanFails(p) \/ Reconcile(p)  PROVE JobsAgree
  BY <1>10, <1>8 DEF CleanFails, Reconcile, index, bounds, At, Cleaned
<1>11. ASSUME NEW p \in Process, Crash(p)  PROVE JobsAgree
  <2>1. JobAt(p, IF p = "cli" THEN {"idle"} ELSE {"idle", "enforce"})
    BY <1>11, <1>a, CrashJob
  <2>2. UNCHANGED <<ready, proj, restores>>
    BY <1>11 DEF Crash, index
  <2> QED
    BY <2>1, <2>2, <1>2 DEF Restoring, Cleaned
<1>12. ASSUME NEW mode \in {"merge", "replace"}, RestoreBackup(mode)  PROVE JobsAgree
  <2>1. job' \in [Process -> JobType] /\ job'["cli"].step = "wipe" /\ ReadsToMark
    BY <1>12, <1>a, <1>b, <1>c, RestoreJob
  <2>2. /\ ready' = FALSE /\ restores < MaxRestore /\ restores' = restores + 1
        /\ proj' = proj
    BY <1>12 DEF RestoreBackup, index
  <2>3. restores' \in 0..MaxRestore /\ restores <= restores' /\ restores' > 0
    BY <2>2, <1>b, StoreAssumption
  <2> QED
    BY <2>1, <2>2, <2>3, <1>b DEF JobsAgree, RestoringApart, Building, At, Cleaned
<1>13. ASSUME job' = [job EXCEPT !["cli"] = Idle], ready' = ready, restores' = restores,
              proj' \in [state : {"not_built", "building", "ready", "interrupted", "failed"},
                         serving : 0..MaxGen]
       PROVE  JobsAgree
  <2>1. JobAt("cli", {"idle"})
    BY <1>13, <1>a, <1>b, SetJob, IdleJob
  <2>2. job' \in [Process -> JobType] /\ job'["cli"].step = "idle" /\ ReadsToMark
    BY <2>1, <1>b, <1>c
  <2> QED
    BY <2>2, <1>13, <1>b DEF JobsAgree, RestoringApart, Restoring, Building, At, Cleaned
<1>14. RestoreRefused => JobsAgree
  BY <1>13, <1>b DEF RestoreRefused, index
<1>15. ASSUME RestoreWipes \/ RestoreMessages  PROVE JobsAgree
  <2>1. job["cli"].step \in Restoring /\ UNCHANGED <<ready, restores, proj>>
    BY <1>15 DEF RestoreWipes, RestoreMessages, index, bounds, At, Restoring
  <2>2. PICK s \in {"messages", "personal"} : Goto("cli", s)
    BY <1>15 DEF RestoreWipes, RestoreMessages
  <2>3. job' \in [Process -> JobType] /\ job'["cli"].step = s /\ ReadsToMark
    BY <2>2, <1>a, <1>b, <1>c, GotoJob DEF Step
  <2> QED
    BY <2>1, <2>3, <1>a, <1>b DEF JobsAgree, RestoringApart, Building, At, Cleaned
<1>16. ASSUME RestorePersonal  PROVE JobsAgree
  <2>1. UNCHANGED <<ready, restores, proj>> /\ Goto("cli", "files")
    BY <1>16 DEF RestorePersonal, bounds
  <2>2. job' \in [Process -> JobType] /\ job'["cli"].step = "files" /\ ReadsToMark
    BY <2>1, <1>a, <1>b, <1>c, GotoJob DEF Step
  <2> QED
    BY <2>1, <2>2, <1>16, <1>b DEF JobsAgree, RestoringApart, Restoring, Building, At
<1>17. ASSUME RestoreFiles  PROVE JobsAgree
  <2>1. JobAt("cli", {"ready", "enforce"}) /\ UNCHANGED <<ready, proj, restores>>
    BY <1>17, <1>a, FilesJob DEF RestoreFiles, index, bounds
  <2>2. job["cli"].step \in Cleaned
    BY <1>17 DEF RestoreFiles, At, Cleaned
  <2> QED
    BY <2>1, <2>2, <1>b, <1>2 DEF Restoring
<1>18. ASSUME RestoreReady  PROVE JobsAgree
  <2>1. /\ Goto("cli", "invalidate") /\ ready' = (ready \/ (backup.ready /\ ~Pending(ops)))
        /\ UNCHANGED <<proj, restores>> /\ job["cli"].step \in Cleaned
    BY <1>18 DEF RestoreReady, index, bounds, At, Cleaned
  <2>2. job' \in [Process -> JobType] /\ job'["cli"].step = "invalidate" /\ ReadsToMark
    BY <2>1, <1>a, <1>b, <1>c, GotoJob DEF Step
  <2>3. ready' \in BOOLEAN
    BY <2>1, Zenon
  <2> QED
    BY <2>1, <2>2, <2>3, <1>b DEF JobsAgree, RestoringApart, Restoring, Building, At
<1>19. ASSUME InvalidateProjections  PROVE JobsAgree
  <2>1. proj' \in [state : {"not_built", "building", "ready", "interrupted", "failed"},
                   serving : 0..MaxGen]
    BY <1>19, StoreAssumption DEF InvalidateProjections
  <2> QED
    BY <2>1, <1>19, <1>13 DEF InvalidateProjections, bounds
\* The steps of a build.
<1>20. ASSUME NEW s \in {"index", "verify", "publish"}, Goto("cli", s), ready' = ready,
              restores' = restores, proj.serving < MaxGen, NEW state,
              state \in {"not_built", "building", "ready", "interrupted", "failed"},
              proj' = [proj EXCEPT !.state = state] \/ proj' = proj
       PROVE  JobsAgree
  <2>1. job' \in [Process -> JobType] /\ job'["cli"].step = s /\ ReadsToMark
    BY <1>20, <1>a, <1>b, <1>c, GotoJob DEF Step
  <2>2. /\ proj'.serving = proj.serving
        /\ proj' \in [state : {"not_built", "building", "ready", "interrupted", "failed"},
                      serving : 0..MaxGen]
    BY <1>20, <1>b
  <2> QED
    BY <2>1, <2>2, <1>20, <1>b DEF JobsAgree, RestoringApart, Restoring, Cleaned
<1>21. BuildProjection => JobsAgree
  BY <1>20 DEF BuildProjection, bounds
<1>22. IndexSources => JobsAgree
  BY <1>20, <1>b DEF IndexSources, bounds, Building
<1>23. ASSUME NEW state \in {"failed", "interrupted"}, proj' = [proj EXCEPT !.state = state],
              job' = [job EXCEPT !["cli"] = Idle], ready' = ready, restores' = restores
       PROVE  JobsAgree
  <2>1. proj' \in [state : {"not_built", "building", "ready", "interrupted", "failed"},
                   serving : 0..MaxGen]
    BY <1>23, <1>b
  <2> QED
    BY <2>1, <1>23, <1>13
<1>24. ASSUME VerifyBuild  PROVE JobsAgree
  <2>1. CASE Covers(Upcoming)
    BY <2>1, <1>24, <1>20, <1>b DEF VerifyBuild, bounds, Building
  <2>2. CASE ~Covers(Upcoming)
    BY <2>2, <1>24, <1>23 DEF VerifyBuild, bounds
  <2> QED
    BY <2>1, <2>2
<1>25. ASSUME Publish  PROVE JobsAgree
  <2>1. Upcoming \in 0..MaxGen
    BY <1>25, <1>b, StoreAssumption DEF Publish, Upcoming, Building
  <2>2. proj' \in [state : {"not_built", "building", "ready", "interrupted", "failed"},
                   serving : 0..MaxGen]
    BY <2>1, <1>25 DEF Publish
  <2> QED
    BY <2>2, <1>25, <1>13 DEF Publish, bounds
<1>26. BuildThrows => JobsAgree
  BY <1>23 DEF BuildThrows
<1> QED
  BY <1>3, <1>4, <1>5, <1>6, <1>9, <1>10, <1>11, <1>12, <1>14, <1>15, <1>16, <1>17, <1>18, <1>19,
     <1>21, <1>22, <1>24, <1>25, <1>26 DEF MemoryNext

-----------------------------------------------------------------------------
(* Messages, marks and operations *)

\* The ids that were given out, and what is marked, after a step.
MarksAgree ==
    /\ raws' \subseteq Raw /\ used' \subseteq Record /\ marks' \subseteq Record
    /\ ops' \in [Op -> Status]
    /\ used \subseteq used'
    /\ raws' \subseteq used' /\ marks' \subseteq used' /\ Named(rows') \subseteq used'
    /\ \A t \in Record : ops'[t] # "none" => t \in marks'
    /\ RestoreMessages \/ raws' \cap marks' \subseteq raws \cap marks

\* What is marked or named by an operation was given out, after every step.
LEMMA MarksStep ==
    ASSUME IInv, MemoryNext
    PROVE  MarksAgree
<1>a. Typed /\ UsedAll /\ OpsMarked /\ MemoryTypeOK /\ Table(rows)
  BY DEF IInv, Typed
<1>b. /\ raws \subseteq Raw /\ used \subseteq Record /\ marks \subseteq Record /\ ops \in [Op -> Status]
      /\ raws \subseteq used /\ marks \subseteq used /\ Named(rows) \subseteq used
      /\ \A t \in Record : ops[t] # "none" => t \in marks
  BY <1>a DEF MemoryTypeOK, UsedAll, OpsMarked, Status
<1>1. ASSUME UNCHANGED <<rows, used, marks, ops>>, raws' \subseteq raws
      PROVE  MarksAgree
  BY <1>1, <1>b DEF MarksAgree
<1>2. UNCHANGED stored => MarksAgree
  BY <1>1 DEF stored
<1>3. ASSUME NEW r \in Raw, RecordMessage(r)  PROVE MarksAgree
  <2>1. /\ r \notin used /\ raws' = raws \cup {r} /\ used' = used \cup {r}
        /\ UNCHANGED <<rows, marks, ops>>
    BY <1>3 DEF RecordMessage
  <2>2. r \in Record
    BY DEF Record
  <2> QED
    BY <2>1, <2>2, <1>b DEF MarksAgree
<1>4. ASSUME NEW r \in Raw, Prune(r)  PROVE MarksAgree
  BY <1>4, <1>1 DEF Prune
\* A new version of a row, of an id given out before or now.
<1>5. ASSUME NEW row, rows' \subseteq rows \cup {row}, used \subseteq used', used' \subseteq Record,
             UNCHANGED <<raws, marks, ops>>,
             row.id \in used', row.of \subseteq used, row.past \subseteq used
      PROVE  MarksAgree
  <2>1. Named(rows') \subseteq Named(rows) \cup {row.id} \cup row.of \cup row.past
    BY <1>5 DEF Named
  <2>2. Named(rows') \subseteq used'
    BY <2>1, <1>5, <1>b
  <2> QED
    BY <2>2, <1>5, <1>b DEF MarksAgree
<1>6. ASSUME NEW of \in Sources, NEW d \in Durable \cup Episode, NEW row,
             row = [id |-> d, rev |-> 1, of |-> of, past |-> {}],
             of \subseteq Quotable, d \notin used, rows' = rows \cup {row},
             used' = used \cup {d}, UNCHANGED <<raws, marks, ops>>
      PROVE  MarksAgree
  <2>1. row.id = d /\ row.of = of /\ row.past = {}
    BY <1>6
  <2>2. of \subseteq used /\ used' \subseteq Record
    BY <1>6, <1>a, <1>b, QuotableUsed DEF Record, Derived
  <2> QED
    BY <2>1, <2>2, <1>6, <1>5
<1>7. ASSUME NEW of \in Sources, NEW d \in Durable, StoreDurable(d, of)  PROVE MarksAgree
  <2>1. PICK row : row = [id |-> d, rev |-> 1, of |-> of, past |-> {}]
    OBVIOUS
  <2>2. rows' = rows \cup {row}
    BY <2>1, <1>7 DEF StoreDurable
  <2>3. of \subseteq Quotable /\ d \notin used /\ used' = used \cup {d} /\ UNCHANGED <<raws, marks, ops>>
    BY <1>7 DEF StoreDurable
  <2> QED
    BY <2>1, <2>2, <2>3, <1>6
<1>8. ASSUME NEW of \in Sources, NEW e \in Episode, CreateEpisode(e, of)  PROVE MarksAgree
  <2>1. PICK row : row = [id |-> e, rev |-> 1, of |-> of, past |-> {}]
    OBVIOUS
  <2>2. rows' = rows \cup {row}
    BY <2>1, <1>8 DEF CreateEpisode
  <2>3. of \subseteq Quotable /\ e \notin used /\ used' = used \cup {e} /\ UNCHANGED <<raws, marks, ops>>
    BY <1>8 DEF CreateEpisode, Quotable
  <2> QED
    BY <2>1, <2>2, <2>3, <1>6
<1>9. ASSUME NEW of \in Sources, NEW r \in rows, Supersede(r, of)  PROVE MarksAgree
  <2>1. PICK row : row = [id |-> r.id, rev |-> r.rev + 1, of |-> of, past |-> r.past \cup r.of]
    OBVIOUS
  <2>2. rows' \subseteq rows \cup {row} /\ row \in rows'
    BY <2>1, <1>9 DEF Supersede
  <2>3. of \subseteq used /\ used' = used /\ UNCHANGED <<raws, marks, ops>>
    BY <1>9, <1>a, QuotableUsed DEF Supersede
  <2>4. r.id \in used /\ r.of \subseteq used /\ r.past \subseteq used
    BY <1>b DEF Named
  <2>5. row.id = r.id /\ row.of = of /\ row.past = r.past \cup r.of
    BY <2>1
  <2> QED
    BY <2>2, <2>3, <2>4, <2>5, <1>b, <1>5
<1>10. ASSUME NEW held, NEW rs, NEW m, NEW o, Enforce(held, rs, m, o), Table(rs),
              held \subseteq Raw, m \subseteq Record, Named(rs) \subseteq used, held \subseteq used,
              m \subseteq used, used' = used, marks' = m, ops' \in [Op -> Status],
              \A t \in Record : ops'[t] # "none" => t \in m
       PROVE  MarksAgree
  <2>1. raws' = held \ m /\ rows' = Unmarked(rs, m)
    BY <1>10 DEF Enforce
  <2>2. Named(Unmarked(rs, m)) \subseteq Named(rs)
    BY <1>10, UnmarkedTable
  <2> QED
    BY <2>1, <2>2, <1>10, <1>b DEF MarksAgree
<1>11. ASSUME NEW p \in Process, ForgetMarks(p)  PROVE MarksAgree
  <2> DEFINE t == job[p].op
  <2>1. /\ marks' = marks \cup job[p].lineage /\ ops' = [ops EXCEPT ![t] = "pending"]
        /\ used' = used /\ Enforce(raws, rows, marks', ops')
    BY <1>11 DEF ForgetMarks
  <2>2. /\ job[p].lineage \subseteq used /\ job[p].lineage \subseteq Record
        /\ t \in Record /\ t \in job[p].lineage
    BY <1>11, <1>b DEF IInv, Marking, ForgetMarks
  <2> HIDE DEF t
  <2>3. ops' \in [Op -> Status]
    BY <2>1, <1>b DEF Status
  <2>4. \A u \in Record : ops'[u] # "none" => u \in marks'
    BY <2>1, <2>2, <1>b DEF Op
  <2> QED
    BY <2>1, <2>2, <2>3, <2>4, <1>a, <1>b, <1>10
<1>12. ASSUME NEW p \in Process, Enforced(p)  PROVE MarksAgree
  <2>1. Enforce(raws, rows, marks, ops) /\ UNCHANGED <<used, marks, ops>>
    BY <1>12 DEF Enforced
  <2> QED
    BY <2>1, <1>a, <1>b, <1>10
<1>13. ASSUME NEW p \in Process, Complete(p)  PROVE MarksAgree
  <2>1. /\ ops' = [ops EXCEPT ![job[p].op] = IF @ = "pending" THEN "complete" ELSE @]
        /\ UNCHANGED <<raws, rows, used, marks>>
    BY <1>13 DEF Complete
  <2>2. job[p].op \in Op
    BY <1>a DEF Typed, JobType
  <2>3. ops' \in [Op -> Status]
    BY <2>1, <2>2, <1>b DEF Status
  <2>4. \A t \in Op : ops'[t] # "none" => ops[t] # "none"
    BY <2>1, <2>2, <1>b
  <2> QED
    BY <2>1, <2>3, <2>4, <1>b DEF MarksAgree, Op
<1>14. ASSUME NEW p \in Process, Reconcile(p) \/ Crash(p)  PROVE MarksAgree
  BY <1>14, <1>1 DEF Reconcile, Crash, memory
<1>15. CreateBackup \/ (\E mode \in {"merge", "replace"} : RestoreBackup(mode)) => MarksAgree
  BY <1>1 DEF CreateBackup, RestoreBackup, memory
<1>16. RestoreWipes => MarksAgree
  BY <1>1 DEF RestoreWipes
<1>17. ASSUME RestoreMessages  PROVE MarksAgree
  <2>1. backup.raws \subseteq Raw /\ backup.raws \subseteq used
    BY <1>a DEF Typed, BackupType, UsedAll
  <2>2. raws' = raws \cup backup.raws /\ UNCHANGED <<rows, used, marks, ops>>
    BY <1>17 DEF RestoreMessages
  <2> QED
    BY <2>1, <2>2, <1>17, <1>b DEF MarksAgree
<1>18. ASSUME RestorePersonal  PROVE MarksAgree
  <2> DEFINE o == [t \in Op |-> IF ops[t] = "none" THEN backup.ops[t] ELSE ops[t]]
  <2>1. PICK kept : /\ kept = rows \/ kept = {}
                    /\ Enforce(raws, kept \cup Restorable(kept), marks', o)
    BY <1>18 DEF RestorePersonal
  <2>2. /\ marks' = marks \cup backup.marks /\ used' = used
        /\ ops' = IF marks' = {} THEN o ELSE [o EXCEPT !["reapply"] = "pending"]
    BY <1>18 DEF RestorePersonal, AllMarks
  <2>3. /\ backup.marks \subseteq Record /\ backup.marks \subseteq used /\ backup.ops \in [Op -> Status]
        /\ Named(backup.rows) \subseteq used
        /\ \A t \in Record : backup.ops[t] # "none" => t \in backup.marks
    BY <1>a DEF Typed, BackupType, UsedAll, OpsMarked
  <2>4. Table(kept \cup Restorable(kept)) /\ kept \cup Restorable(kept) \subseteq rows \cup backup.rows
    BY <2>1, <1>a, RestorableTable
  <2>5. Named(kept \cup Restorable(kept)) \subseteq used
    BY <2>3, <2>4, <1>b DEF Named
  <2>6. o \in [Op -> Status] /\ \A t \in Record : o[t] # "none" => t \in marks'
    BY <2>2, <2>3, <1>b DEF Op
  <2> HIDE DEF o
  <2>7. ops' \in [Op -> Status]
    BY <2>2, <2>6 DEF Status
  <2>8. \A t \in Record : t # "reapply" /\ t \in Op
    BY StoreAssumption DEF Op
  <2>9. \A t \in Record : ops'[t] # "none" => t \in marks'
    BY <2>2, <2>6, <2>8
  <2> DEFINE rs == kept \cup Restorable(kept)
  <2>10. Enforce(raws, rs, marks', o) /\ Table(rs) /\ Named(rs) \subseteq used
    BY <2>1, <2>4, <2>5
  <2> HIDE DEF rs
  <2>11. marks' \subseteq Record /\ marks' \subseteq used
    BY <2>2, <2>3, <1>b
  <2> QED
    BY <2>2, <2>7, <2>9, <2>10, <2>11, <1>b, <1>10
<1>19. InvalidateProjections \/ BuildProjection \/ IndexSources \/ Publish => MarksAgree
  BY <1>1 DEF InvalidateProjections, BuildProjection, IndexSources, Publish, memory
<1>20. RecallReads \/ RecallPublishes => MarksAgree
  BY <1>1 DEF RecallReads, RecallPublishes, memory
<1> QED
  BY Steps, <1>2, <1>3, <1>4, <1>7, <1>8, <1>9, <1>11, <1>12, <1>13, <1>14, <1>15, <1>16, <1>17,
     <1>18, <1>19, <1>20

-----------------------------------------------------------------------------
(* Versions of durables *)

\* A version is a durable's, and within the bound.
LEMMA VersionsTyped ==
    ASSUME Typed, NEW x \in Versions
    PROVE  x.id \in Durable /\ x.rev \in 1..MaxRev
<1>1. PICK r \in rows \cup backup.rows \cup docs \cup Read : r.id \in Durable /\ x = VersionOf(r)
  BY DEF Versions
<1>2. r \in Row \/ r \in Doc
  BY DEF Typed, MemoryTypeOK, Table, Read
<1>3. r.rev \in 1..MaxRev
  BY <1>2 DEF Row, Doc
<1> QED
  BY <1>1, <1>3 DEF VersionOf

\* A durable's row after a step has a version that was there, or it is a new
\* durable or the next revision of one.
NewVersion(r) ==
    \/ r.id \notin used /\ r.rev = 1
    \/ \E s \in rows : s.id = r.id /\ r.rev = s.rev + 1

LEMMA RowVersions ==
    ASSUME IInv, MemoryNext, NEW r \in rows', r.id \in Durable
    PROVE  \/ \E s \in rows : VersionOf(s) = VersionOf(r)
           \/ restores > 0 /\ \E s \in backup.rows : VersionOf(s) = VersionOf(r)
           \/ NewVersion(r)
<1> DEFINE VersionKnown == \E s \in rows : VersionOf(s) = VersionOf(r)
<1>a. Typed /\ Table(rows) /\ RestoringApart
  BY DEF IInv, Typed
<1>1. CASE UNCHANGED <<rows, marks>>
  BY <1>1
<1>2. ASSUME NEW of \in Sources, NEW d \in Durable, StoreDurable(d, of)
      PROVE  VersionKnown \/ NewVersion(r)
  <2>1. PICK row : row = [id |-> d, rev |-> 1, of |-> of, past |-> {}]
    OBVIOUS
  <2>2. rows' = rows \cup {row} /\ d \notin used
    BY <1>2, <2>1 DEF StoreDurable
  <2>3. row.id = d /\ row.rev = 1
    BY <2>1
  <2> QED
    BY <2>2, <2>3 DEF NewVersion
<1>3. ASSUME NEW of \in Sources, NEW s \in rows, Supersede(s, of)
      PROVE  VersionKnown \/ NewVersion(r)
  <2>1. PICK row : row = [id |-> s.id, rev |-> s.rev + 1, of |-> of, past |-> s.past \cup s.of]
    OBVIOUS
  <2>2. rows' = (rows \ {s}) \cup {row}
    BY <1>3, <2>1 DEF Supersede
  <2>3. row.id = s.id /\ row.rev = s.rev + 1
    BY <2>1
  <2> QED
    BY <2>2, <2>3 DEF NewVersion
<1>4. ASSUME NEW of \in Sources, NEW e \in Episode, CreateEpisode(e, of)
      PROVE  VersionKnown
  <2>1. PICK row : row = [id |-> e, rev |-> 1, of |-> of, past |-> {}]
    OBVIOUS
  <2>2. rows' = rows \cup {row}
    BY <1>4, <2>1 DEF CreateEpisode
  <2>3. row.id = e
    BY <2>1
  <2> QED
    BY <2>2, <2>3, StoreAssumption
<1>5. ASSUME NEW p \in Process, ForgetMarks(p) \/ Enforced(p)
      PROVE  VersionKnown
  <2>1. PICK m : rows' = Unmarked(rows, m)
    BY <1>5 DEF ForgetMarks, Enforced, Enforce
  <2> QED
    BY <2>1, <1>a, UnmarkedTable
<1>6. ASSUME RestorePersonal
      PROVE  VersionKnown \/ (restores > 0 /\ \E s \in backup.rows : VersionOf(s) = VersionOf(r))
  <2>1. PICK kept : /\ kept = rows \/ kept = {}
                    /\ rows' = Unmarked(kept \cup Restorable(kept), marks')
    BY <1>6 DEF RestorePersonal, Enforce
  <2>2. /\ Table(kept \cup Restorable(kept))
        /\ kept \cup Restorable(kept) \subseteq rows \cup backup.rows
    BY <2>1, <1>a, RestorableTable
  <2> DEFINE rs == kept \cup Restorable(kept)
  <2>3. rows' = Unmarked(rs, marks') /\ Table(rs) /\ rs \subseteq rows \cup backup.rows
    BY <2>1, <2>2
  <2> HIDE DEF rs
  <2>4. \E s \in rs : VersionOf(s) = VersionOf(r)
    BY <2>3, UnmarkedTable
  <2>5. restores > 0
    BY <1>6, <1>a DEF RestorePersonal, RestoringApart, Restoring, At
  <2> QED
    BY <2>3, <2>4, <2>5
<1> QED
  BY RowSteps, <1>1, <1>2, <1>3, <1>4, <1>5, <1>6

\* A version after a step was there, or is that of a row.
LEMMA VersionsStep ==
    ASSUME IInv, MemoryNext, NEW x \in Versions'
    PROVE  x \in Versions \/ \E r \in rows' : r.id \in Durable /\ x = VersionOf(r)
<1> DEFINE InRows == \E r \in rows' : r.id \in Durable /\ x = VersionOf(r)
<1>1. PICK r \in rows' \cup backup'.rows \cup docs' \cup Read' : r.id \in Durable /\ x = VersionOf(r)
  BY DEF Versions
<1>2. CASE r \in rows'
  BY <1>1, <1>2
<1>3. ASSUME r \in rows \cup backup.rows \cup docs \cup Read  PROVE x \in Versions
  BY <1>1, <1>3 DEF Versions
<1>4. CASE r \in backup'.rows
  BY <1>4, <1>3, BackupStep
<1>5. ASSUME r \in docs'  PROVE x \in Versions \/ InRows
  <2>1. CASE r \in docs
    BY <2>1, <1>3
  <2>2. ASSUME NEW s \in rows', NEW g \in 1..MaxGen, r = DocOf(s, g)
        PROVE  InRows
    <3>1. s \in Row
      BY RowsStep DEF Table
    <3>2. r.id = s.id /\ VersionOf(r) = VersionOf(s)
      BY <3>1, <2>2, DocOfRow
    <3> QED
      BY <3>2, <1>1
  <2> QED
    BY <1>5, <2>1, <2>2, DocsStep DEF FilledFrom
<1>6. ASSUME r \in Read'  PROVE x \in Versions
  <2>1. r \in recall' /\ ~IsFile(r)
    BY <1>6 DEF Read
  <2>2. r \in Read \/ r \in docs
    BY <2>1, RecallStep DEF Read
  <2> QED
    BY <2>2, <1>3
<1> QED
  BY <1>1, <1>2, <1>4, <1>5, <1>6

\* Numbers of revisions go on naming one content each, and rising.
LEMMA VersionsPreserved ==
    ASSUME IInv, MemoryNext
    PROVE  VersionsUsed' /\ Agree' /\ Newest'
<1>a. /\ Typed /\ VersionsUsed /\ Agree /\ Newest
      /\ Table(rows) /\ Table(rows') /\ used \subseteq used' /\ Named(rows') \subseteq used'
      /\ restores \in 0..MaxRestore /\ restores' \in 0..MaxRestore /\ restores <= restores'
  BY RowsStep, MarksStep, JobStep DEF IInv, Typed, MemoryTypeOK, MarksAgree, JobsAgree
<1>b. restores' = 0 => restores = 0
  BY <1>a, StoreAssumption
<1>c. \A r \in rows : r.rev \in 1..MaxRev
  BY <1>a DEF Table, Row
<1>d. ASSUME NEW r \in rows', r.id \in Durable, VersionOf(r) \notin Versions
      PROVE  NewVersion(r)
  <2>1. \A s \in rows \cup backup.rows : VersionOf(s) = VersionOf(r) => s.id = r.id
    BY DEF VersionOf
  <2>2. \A s \in rows \cup backup.rows : VersionOf(s) # VersionOf(r)
    BY <2>1, <1>d DEF Versions
  <2> QED
    BY <2>2, <1>d, RowVersions
\* No version that was there is as new as a new one.
<1>e. ASSUME NEW x \in Versions, NEW r \in rows', x.id = r.id, NewVersion(r), restores = 0 \/ r.rev = 1
      PROVE  x.rev < r.rev
  <2>1. CASE r.id \notin used
    BY <2>1, <1>a, <1>e DEF VersionsUsed
  <2>2. ASSUME NEW s \in rows, s.id = r.id, r.rev = s.rev + 1
        PROVE  x.rev < r.rev
    <3>1. restores = 0
      BY <2>2, <1>c, <1>e
    <3>2. x.rev <= s.rev
      BY <3>1, <2>2, <1>a, <1>e DEF Newest
    <3>3. x.rev \in 1..MaxRev
      BY <1>a, VersionsTyped
    <3> QED
      BY <3>2, <3>3, <2>2, <1>c, StoreAssumption
  <2> QED
    BY <2>1, <2>2, <1>e DEF NewVersion
<1>f. ASSUME NEW r  PROVE VersionOf(r).id = r.id /\ VersionOf(r).rev = r.rev /\ VersionOf(r).of = r.of
  BY DEF VersionOf
<1>1. VersionsUsed'
  <2> SUFFICES ASSUME NEW x \in Versions' PROVE x.id \in used'
    BY DEF VersionsUsed
  <2>1. CASE x \in Versions
    BY <2>1, <1>a DEF VersionsUsed
  <2>2. ASSUME NEW r \in rows', x = VersionOf(r)  PROVE x.id \in used'
    BY <2>2, <1>a, <1>f DEF Named
  <2> QED
    BY <2>1, <2>2, VersionsStep
<1>2. ASSUME NEW x \in Versions, NEW r \in rows', r.id \in Durable, x.id = r.id, x.rev = r.rev,
             restores = 0 \/ x.rev = 1
      PROVE  x.of = r.of
  <2>1. CASE VersionOf(r) \in Versions
    <3>1. x.of = VersionOf(r).of
      BY <2>1, <1>2, <1>a, <1>f DEF Agree
    <3> QED
      BY <3>1, <1>f
  <2>2. CASE VersionOf(r) \notin Versions
    <3>1. x.rev < r.rev
      BY <2>2, <1>2, <1>d, <1>e
    <3>2. x.rev \in 1..MaxRev
      BY <1>a, VersionsTyped
    <3> QED
      BY <3>1, <3>2, <1>2, StoreAssumption
  <2> QED
    BY <2>1, <2>2
<1>3. Agree'
  <2> SUFFICES ASSUME NEW x \in Versions', NEW y \in Versions', x.id = y.id, x.rev = y.rev,
                      restores' = 0 \/ x.rev = 1
               PROVE  x.of = y.of
    BY DEF Agree
  <2>1. restores = 0 \/ x.rev = 1
    BY <1>b
  <2>2. CASE x \in Versions /\ y \in Versions
    BY <2>1, <2>2, <1>a DEF Agree
  <2>3. ASSUME x \in Versions, NEW r \in rows', r.id \in Durable, y = VersionOf(r)  PROVE x.of = y.of
    BY <2>1, <2>3, <1>2, <1>f
  <2>4. ASSUME y \in Versions, NEW r \in rows', r.id \in Durable, x = VersionOf(r)  PROVE x.of = y.of
    BY <2>1, <2>4, <1>2, <1>f
  <2>5. ASSUME NEW r \in rows', NEW s \in rows', x = VersionOf(r), y = VersionOf(s)  PROVE x.of = y.of
    <3>1. r.id = s.id
      BY <2>5, <1>f
    <3> QED
      BY <3>1, <2>5, <1>a DEF Table
  <2>6. x \in Versions \/ \E r \in rows' : r.id \in Durable /\ x = VersionOf(r)
    BY VersionsStep
  <2>7. y \in Versions \/ \E r \in rows' : r.id \in Durable /\ y = VersionOf(r)
    BY VersionsStep
  <2> QED
    BY <2>2, <2>3, <2>4, <2>5, <2>6, <2>7
<1>4. Newest'
  <2> SUFFICES ASSUME restores' = 0, NEW x \in Versions', NEW r \in rows', x.id = r.id
               PROVE  x.rev <= r.rev
    BY DEF Newest
  <2>1. restores = 0
    BY <1>b
  <2>2. r.rev \in 1..MaxRev
    BY <1>a DEF Table, Row
  <2>3. ASSUME x \in Versions  PROVE x.rev <= r.rev
    <3>1. x.rev \in 1..MaxRev /\ r.id \in Durable
      BY <2>3, <1>a, VersionsTyped
    <3>2. CASE \E s \in rows : VersionOf(s) = VersionOf(r)
      <4>1. PICK s \in rows : VersionOf(s) = VersionOf(r)
        BY <3>2
      <4>2. s.id = r.id /\ s.rev = r.rev
        BY <4>1, <1>f
      <4> QED
        BY <4>2, <2>1, <2>3, <1>a DEF Newest
    <3>3. CASE NewVersion(r)
      <4>1. x.rev < r.rev
        BY <3>3, <2>1, <2>3, <1>e
      <4> QED
        BY <4>1, <3>1, <2>2, StoreAssumption
    <3> QED
      BY <3>1, <3>2, <3>3, <2>1, RowVersions
  <2>4. ASSUME NEW s \in rows', x = VersionOf(s)  PROVE x.rev <= r.rev
    <3>1. s.id = r.id /\ x.rev = s.rev
      BY <2>4, <1>f
    <3>2. s = r
      BY <3>1, <1>a DEF Table
    <3> QED
      BY <3>1, <3>2, <2>2, StoreAssumption
  <2> QED
    BY <2>3, <2>4, VersionsStep
<1> QED
  BY <1>1, <1>3, <1>4

-----------------------------------------------------------------------------
(* The files, the draft and the bounds *)

FilesAgree ==
    /\ files' \in [SummaryFile -> SUBSET Raw]
    /\ draft'.of \subseteq Raw
    /\ faults' \in 0..MaxFault

\* A summary is made of messages, whoever writes or restores it.
LEMMA FilesStep ==
    ASSUME IInv, MemoryNext
    PROVE  FilesAgree
<1>a. /\ files \in [SummaryFile -> SUBSET Raw] /\ draft.of \subseteq Raw /\ faults \in 0..MaxFault
      /\ raws \subseteq Raw /\ backup.files \in [SummaryFile -> SUBSET Raw] /\ NoDraft.of = {}
  BY DEF IInv, Typed, MemoryTypeOK, BackupType, NoDraft
<1>1. UNCHANGED <<files, draft, faults>> => FilesAgree
  BY <1>a DEF FilesAgree
<1>2. ASSUME files' = files, draft' = draft \/ draft' = NoDraft, faults < MaxFault, faults' = faults + 1
      PROVE  FilesAgree
  <2>1. faults' \in 0..MaxFault
    BY <1>2, <1>a, StoreAssumption
  <2> QED
    BY <2>1, <1>2, <1>a DEF FilesAgree
<1>3. ASSUME NEW r \in Raw, RecordMessage(r) \/ Prune(r)  PROVE FilesAgree
  BY <1>3, <1>1 DEF RecordMessage, Prune, flight, bounds
<1>4. ASSUME NEW of \in Sources, NEW r, StoreDurable(r, of) \/ Supersede(r, of) \/ CreateEpisode(r, of)
      PROVE  FilesAgree
  BY <1>4, <1>1 DEF StoreDurable, Supersede, CreateEpisode, flight, bounds
<1>5. ASSUME NEW of \in Sources, NEW a \in SummaryFile, SleepReads(a, of)  PROVE FilesAgree
  <2>1. draft' = [of |-> of, path |-> a] /\ UNCHANGED <<files, faults>>
    BY <1>5 DEF SleepReads, bounds
  <2> QED
    BY <2>1, <1>a DEF FilesAgree, Sources
<1>6. ASSUME SleepWrites  PROVE FilesAgree
  <2>1. files' = [files EXCEPT ![draft.path] = draft.of] /\ draft' = NoDraft /\ faults' = faults
    BY <1>6 DEF SleepWrites, bounds
  <2> QED
    BY <2>1, <1>a DEF FilesAgree
<1>7. RecallReads \/ RecallPublishes \/ CreateBackup => FilesAgree
  BY <1>1 DEF RecallReads, RecallPublishes, CreateBackup, flight, bounds
<1>8. ASSUME NEW p \in Process,
             \/ \E t \in Record : ForgetReads(p, t)
             \/ ForgetMarks(p) \/ Enforced(p) \/ Complete(p) \/ Reconcile(p)
      PROVE  FilesAgree
  BY <1>8, <1>1 DEF ForgetReads, ForgetMarks, Enforced, Complete, Reconcile, flight, bounds
<1>9. ASSUME NEW p \in Process, CleanArtifacts(p)  PROVE FilesAgree
  BY <1>9, <1>a DEF CleanArtifacts, FilesAgree, flight, bounds
<1>10. ASSUME NEW p \in Process, CleanFails(p) \/ Crash(p)  PROVE FilesAgree
  BY <1>10, <1>2 DEF CleanFails, Crash, flight
<1>11. (\E mode \in {"merge", "replace"} : RestoreBackup(mode)) => FilesAgree
  BY <1>1 DEF RestoreBackup, flight
<1>12. RestoreRefused \/ BuildThrows => FilesAgree
  BY <1>2 DEF RestoreRefused, BuildThrows, flight
<1>13. RestoreWipes \/ RestoreMessages \/ RestorePersonal \/ RestoreReady => FilesAgree
  BY <1>1 DEF RestoreWipes, RestoreMessages, RestorePersonal, RestoreReady, flight, bounds
<1>14. RestoreFiles => FilesAgree
  BY <1>a DEF RestoreFiles, FilesAgree, flight, bounds
<1>15. InvalidateProjections \/ BuildProjection \/ IndexSources \/ VerifyBuild \/ Publish => FilesAgree
  BY <1>1 DEF InvalidateProjections, BuildProjection, IndexSources, VerifyBuild, Publish, flight, bounds
<1> QED
  BY <1>3, <1>4, <1>5, <1>6, <1>7, <1>8, <1>9, <1>10, <1>11, <1>12, <1>13, <1>14, <1>15 DEF MemoryNext

-----------------------------------------------------------------------------
(* The invariant is inductive *)

\* Types are kept.
LEMMA TypedStep ==
    ASSUME IInv, MemoryNext
    PROVE  Typed'
<1>a. Typed /\ MemoryTypeOK /\ Table(rows) /\ Table(rows') /\ JobsAgree /\ MarksAgree /\ FilesAgree
  BY RowsStep, JobStep, MarksStep, FilesStep DEF IInv, Typed
<1>1. docs' \subseteq Doc
  <2> SUFFICES ASSUME NEW d \in docs' PROVE d \in Doc
    OBVIOUS
  <2>1. CASE d \in docs
    BY <2>1, <1>a DEF MemoryTypeOK
  <2>2. ASSUME NEW r \in rows', NEW g \in 1..MaxGen, d = DocOf(r, g)  PROVE d \in Doc
    BY <2>2, <1>a, DocOfRow DEF Table
  <2> QED
    BY <2>1, <2>2, DocsStep DEF FilledFrom
<1>2. MemoryTypeOK'
  BY <1>1, <1>a DEF MemoryTypeOK, JobsAgree, MarksAgree, FilesAgree, Status, Table
<1>3. \A i \in recall' : IsFile(i) \/ i \in Doc
  BY RecallStep, <1>a DEF Typed, MemoryTypeOK
<1>4. backup' \in BackupType /\ Table(backup'.rows)
  <2>1. CASE backup' = backup
    BY <2>1, <1>a DEF Typed
  <2>2. CASE backup' = [raws |-> raws, rows |-> rows, marks |-> marks, ops |-> ops,
                        files |-> files, ready |-> ready]
    <3>1. backup' \in BackupType
      BY <2>2, <1>a DEF MemoryTypeOK, BackupType, Status
    <3>2. backup'.rows = rows
      BY <2>2
    <3> QED
      BY <3>1, <3>2, <1>a
  <2> QED
    BY <2>1, <2>2, BackupStep
<1>5. Building' => proj'.serving < MaxGen
  BY <1>a DEF JobsAgree
<1> QED
  BY <1>2, <1>3, <1>4, <1>5, <1>a DEF Typed, JobsAgree, FilesAgree, IsFile

\* What is known of marks and messages is kept: messages are clean from the
\* enforcement of a restore on.
LEMMA MarksPreserved ==
    ASSUME IInv, MemoryNext
    PROVE  OpsMarked' /\ UsedAll' /\ RawsClean'
<1>a. Typed /\ OpsMarked /\ UsedAll /\ RawsClean /\ RestoringApart /\ JobsAgree /\ MarksAgree
  BY JobStep, MarksStep DEF IInv
<1>1. /\ \A t \in Record : backup'.ops[t] # "none" => t \in backup'.marks
      /\ backup'.raws \subseteq used' /\ backup'.marks \subseteq used' /\ Named(backup'.rows) \subseteq used'
  <2>1. CASE backup' = backup
    BY <2>1, <1>a DEF OpsMarked, UsedAll, MarksAgree
  <2>2. CASE backup' = [raws |-> raws, rows |-> rows, marks |-> marks, ops |-> ops,
                        files |-> files, ready |-> ready]
    <3>1. backup'.raws = raws /\ backup'.rows = rows /\ backup'.marks = marks /\ backup'.ops = ops
      BY <2>2
    <3> QED
      BY <3>1, <1>a DEF OpsMarked, UsedAll, MarksAgree
  <2> QED
    BY <2>1, <2>2, BackupStep
<1>2. OpsMarked'
  BY <1>1, <1>a DEF OpsMarked, MarksAgree
<1>3. UsedAll'
  BY <1>1, <1>a DEF UsedAll, MarksAgree
<1>4. RawsClean'
  <2> SUFFICES ASSUME ready' \/ job'["cli"].step \in Cleaned PROVE raws' \cap marks' = {}
    BY DEF RawsClean
  <2>1. CASE RestorePersonal
    BY <2>1 DEF RestorePersonal, Enforce
  <2>2. CASE ~RestorePersonal
    <3>1. ready \/ job["cli"].step \in Cleaned
      BY <2>2, <1>a DEF JobsAgree
    <3>2. ~RestoreMessages
      BY <3>1, <1>a DEF RestoreMessages, RestoringApart, Restoring, Cleaned, At
    <3> QED
      BY <3>1, <3>2, <1>a DEF RawsClean, MarksAgree
  <2> QED
    BY <2>1, <2>2
<1> QED
  BY <1>2, <1>3, <1>4

\* What a forget has read stays given out until it marks it.
LEMMA MarkingStep ==
    ASSUME IInv, MemoryNext
    PROVE  Marking'
<1>a. JobsAgree /\ MarksAgree /\ Typed /\ UsedAll /\ Marking
  BY JobStep, MarksStep DEF IInv
<1> SUFFICES ASSUME NEW p \in Process, job'[p].step = "mark"
             PROVE  /\ job'[p].op \in Record /\ job'[p].op \in job'[p].lineage
                    /\ job'[p].lineage \subseteq used'
  BY DEF Marking, At
<1>1. CASE job'[p] = job[p]
  BY <1>1, <1>a DEF Marking, At, MarksAgree
<1>2. ASSUME NEW t \in Record, ForgetReads(p, t)
      PROVE  job'[p].op = t /\ job'[p].lineage = Lineage(t)
  <2> DEFINE next == [Idle EXCEPT !.step = "mark", !.op = t, !.lineage = Lineage(t)]
  <2>1. job'[p] = next
    BY <1>2, <1>a DEF ForgetReads, Typed
  <2>2. next.op = t /\ next.lineage = Lineage(t)
    BY DEF Idle
  <2> QED
    BY <2>1, <2>2
<1>3. ASSUME NEW t \in Record, ForgetReads(p, t)
      PROVE  /\ job'[p].op \in Record /\ job'[p].op \in job'[p].lineage
             /\ job'[p].lineage \subseteq used'
  <2>1. Lineage(t) \subseteq used /\ t \in Lineage(t)
    BY <1>3, <1>a, LineageUsed DEF ForgetReads
  <2> QED
    BY <2>1, <1>2, <1>3, <1>a DEF MarksAgree
<1> QED
  BY <1>1, <1>3, <1>a DEF JobsAgree, ReadsToMark

\* The empty memory satisfies the invariant.
LEMMA IInvInit == MemoryInit => IInv
<1> SUFFICES ASSUME MemoryInit PROVE IInv
  OBVIOUS
<1> USE DEF MemoryInit
<1>1. NoBackup \in BackupType /\ NoBackup.rows = {} /\ NoBackup.raws = {} /\ NoBackup.marks = {}
      /\ NoBackup.ops = [t \in Op |-> "none"]
  BY DEF NoBackup, BackupType, Status
<1>2. MemoryTypeOK
  BY StoreAssumption DEF MemoryTypeOK
<1>3. job \in [Process -> JobType] /\ job["cli"].step = "idle"
  BY IdleJob DEF Process
<1>4. Typed
  BY <1>1, <1>2, <1>3 DEF Typed, Table, NoDraft, Building, At
<1>5. OpsMarked
  BY <1>1 DEF OpsMarked, Op
<1>6. UsedAll
  BY <1>1 DEF UsedAll, Named
<1>7. RowsClean /\ RawsClean /\ RestoringApart /\ Marking
  BY <1>3, IdleJob DEF RowsClean, RawsClean, RestoringApart, Restoring, Marking, At
<1>8. Versions = {}
  BY <1>1 DEF Versions, Read
<1>9. VersionsUsed /\ Agree /\ Newest
  BY <1>8 DEF VersionsUsed, Agree, Newest
<1> QED
  BY <1>4, <1>5, <1>6, <1>7, <1>9 DEF IInv

\* Every step of memory keeps it.
LEMMA IInvNext == IInv /\ [MemoryNext]_memoryVars => IInv'
<1>1. ASSUME IInv, MemoryNext  PROVE IInv'
  BY <1>1, TypedStep, MarksPreserved, MarkingStep, RowsStep, JobStep, VersionsPreserved
     DEF IInv, JobsAgree
<1>2. ASSUME IInv, UNCHANGED memoryVars  PROVE IInv'
  BY <1>2 DEF memoryVars, IInv, Typed, MemoryTypeOK, Building, At, IsFile, OpsMarked, UsedAll,
     RowsClean, RawsClean, RestoringApart, Marking, Read, Versions, VersionsUsed, Agree, Newest
<1> QED
  BY <1>1, <1>2

LEMMA Invariance == MemorySpec => []IInv
<1> QED
  BY IInvInit, IInvNext, PTL DEF MemorySpec

-----------------------------------------------------------------------------
(* The theorems *)

\* The tables, the backup, the projection and the jobs keep their types: no
\* revision, generation or restore passes its bound, and an id names one row.
THEOREM TypeCorrect == MemorySpec => []MemoryTypeOK
<1>1. IInv => MemoryTypeOK
  BY DEF IInv, Typed
<1> QED
  BY <1>1, Invariance, PTL

\* What the forgetting of a target marks is all that was ever forgotten.
LEMMA ForgottenMarked == IInv => Forgotten = marks
<1> QED
  BY DEF IInv, OpsMarked, Forgotten

\* While memory is served and nothing is pending, nothing forgotten is stored.
THEOREM ForgottenIsErased == MemorySpec => []NothingForgottenStored
<1>1. IInv => NothingForgottenStored
  BY ForgottenMarked DEF IInv, RowsClean, RawsClean, NothingForgottenStored
<1> QED
  BY <1>1, Invariance, PTL

\* Nothing forgotten is stored, and no forgotten durable or episode leaves in a recall
\* that was in flight while it was forgotten.  It says nothing of summary files.
THEOREM ForgottenStaysGone == MemorySpec => []ForgottenRowsGone
<1>1. IInv => NoForgottenRowPublished
  <2> SUFFICES ASSUME IInv, NEW i \in recall, ~IsFile(i), NamesItsContent(i), Publishable(i)
               PROVE  i.of \cap marks = {}
    BY ForgottenMarked DEF NoForgottenRowPublished
  <2>1. PICK r \in rows : r.id = i.id /\ SameVersion(r, i)
    BY DEF Publishable
  <2>2. r.of \cap marks = {} /\ r.id \in Derived
    BY DEF IInv, RowsClean, Typed, Table, Row
  <2>3. CASE r.id \in Durable
    <3>1. r.rev = i.rev /\ (restores = 0 \/ r.rev = 1)
      BY <2>1, <2>3, StoreAssumption DEF SameVersion, NamesItsContent
    <3>2. VersionOf(r) \in Versions /\ VersionOf(i) \in Versions
      BY <2>1, <2>3 DEF Versions, Read
    <3>3. VersionOf(r).of = VersionOf(i).of
      BY <3>1, <3>2, <2>1 DEF IInv, Agree, VersionOf
    <3> QED
      BY <3>3, <2>2 DEF VersionOf
  <2>4. CASE r.id \notin Durable
    BY <2>1, <2>2, <2>4 DEF SameVersion
  <2> QED
    BY <2>3, <2>4
<1> QED
  BY <1>1, ForgottenIsErased, Invariance, PTL DEF ForgottenRowsGone

------------------------------------------------------------------------------
(* The extraction of a night, which stores what it finds: SleepExtraction.  *)

NightTyped ==
  /\ ExtractionTypeOK /\ receipts \in [NightRun -> SUBSET Receipt]
  /\ said \in [Msg -> SUBSET Line] /\ asked \in [Msg -> Nat]
  /\ stepStage # "idle" => run # 0

\* A frozen decision is what the model said at last.
FrozenIsSaid == \A m \in Msg : IsFrozen(m) => frozen[m].lines # {} /\ frozen[m].lines = said[m]

\* So is what the step has in hand.
AnsweredIsSaid == \A m \in Msg : answered[m] # {} => answered[m] = said[m]

\* A durable is of the last answer of its message, which is frozen or settled:
\* the model is not asked about it again.
DurablesAsSaid ==
  \A r \in durables : r.of = asked[r.msg] /\ (IsFrozen(r.msg) \/ r.msg <= watermark)

\* What is asked about is not frozen, and nothing is applied that is not.
FrozenFirst ==
  /\ stepStage = "asked" => \A m \in inHand : ~IsFrozen(m)
  /\ \A m \in replay : answered[m] # {} /\ IsFrozen(m)
  /\ \A m \in Msg : todo[m] # {} => IsFrozen(m)
  /\ stepStage = "applying" => \A m \in inHand : answered[m] # {} => IsFrozen(m)

\* The messages the step was begun for: those that came later have higher numbers.
InScope == inHand \cup replay \cup unhandled \cup {m \in Msg : answered[m] # {}}
Scoped ==
  stepStage # "idle" =>
    /\ InScope # {}
    /\ \A o \in InScope : watermark < o /\ o <= latest
    /\ \A m \in message, o \in InScope : m > watermark => m \in InScope \/ o < m

\* Those of them that are behind the step are decided.
Decided(m) == \A l \in said[m] : \E r \in NightRun : \E e \in receipts[r] : Good(e, m, l)
ScopeDecided ==
  /\ \A m \in InScope \ (inHand \cup replay \cup unhandled) : Decided(m)
  /\ stepStage = "done" => inHand = {} /\ replay = {} /\ unhandled = {}
  /\ stepStage \in {"asked", "freezing"} => unhandled = {}

\* Between steps nothing is in hand.
EmptyAtRest == stepStage = "idle" => InScope = {} /\ todo = NoLines

ExtractionInv ==
  /\ EmptyAtRest /\ NightTyped /\ FrozenIsSaid /\ AnsweredIsSaid /\ DurablesAsSaid /\ FrozenFirst
  /\ Scoped /\ ScopeDecided /\ ExtractedOnce


\* Sets of lines, and the empty one.
LEMMA LinesSmaller ==
  ASSUME ExtractionAssumption
  PROVE  /\ {} \in Lines
         /\ \A s \in Lines, l \in Line : s \ {l} \in Lines
<1>1. IsFiniteSet(Line)
  BY FS_AddElement, FS_Union, FS_Singleton DEF ExtractionAssumption, Line
<1>2. {} \in Lines
  BY FS_EmptySet DEF Lines, ExtractionAssumption
<1>3. ASSUME NEW s \in Lines, NEW l \in Line PROVE s \ {l} \in Lines
  <2>1. s \ {l} \subseteq s /\ IsFiniteSet(s) /\ Cardinality(s) \in Nat
    BY <1>1, FS_Subset, FS_CardinalityType DEF Lines
  <2>2. Cardinality(s \ {l}) <= Cardinality(s) /\ Cardinality(s \ {l}) \in Nat
    BY <2>1, FS_Subset, FS_CardinalityType
  <2> QED
    BY <2>1, <2>2 DEF Lines, ExtractionAssumption
<1> QED
  BY <1>2, <1>3

\* Some number of a set of messages is the last.
LEMMA LastMessage ==
  ASSUME ExtractionAssumption, NEW S, S \subseteq Msg, S # {}
  PROVE  \E w \in S : \A m \in S : m <= w
<1> DEFINE R == {p \in Nat \X Nat : p[1] < p[2]}
           T == {n \in Nat : MaxMsg - n \in S}
<1>1. IsWellFoundedOn(R, Nat)
  BY NatLessThanWellFounded DEF OpToRel
<1>2. ASSUME NEW a \in Nat, NEW b \in Nat, a < b PROVE <<a, b>> \in R
  <2>1. <<a, b>> \in Nat \X Nat /\ <<a, b>>[1] = a /\ <<a, b>>[2] = b
    OBVIOUS
  <2> QED
    BY <1>2, <2>1
<1> HIDE DEF R
<1>3. \A m \in S : MaxMsg - m \in T /\ MaxMsg - (MaxMsg - m) = m /\ m \in 1..MaxMsg
  BY DEF Msg, ExtractionAssumption
<1>4. T \subseteq Nat /\ T # {}
  BY <1>3
<1>5. \A n \in T : MaxMsg - n \in S
  OBVIOUS
<1> HIDE DEF T
<1>6. PICK x \in T : \A y \in T : <<y, x>> \notin R
  BY <1>1, <1>4, WFMin
<1>7. ASSUME NEW m \in S PROVE m <= MaxMsg - x
  <2>1. MaxMsg - m \in T /\ MaxMsg - m \in Nat /\ x \in Nat
    BY <1>3, <1>4
  <2>2. <<MaxMsg - m, x>> \notin R
    BY ONLY <2>1, <1>6
  <2>3. ~(MaxMsg - m < x)
    BY ONLY <2>1, <2>2, <1>2
  <2>4. m \in Int /\ MaxMsg \in Int
    BY <1>3 DEF ExtractionAssumption
  <2> QED
    BY ONLY <2>1, <2>3, <2>4
<1> QED
  BY <1>5, <1>6, <1>7

\* Messages are numbered in the order in which they came.
LEMMA MessagesNumbered ==
  ASSUME ExtractionAssumption, NightTyped
  PROVE  /\ watermark \in Nat /\ latest \in Nat /\ watermark <= latest /\ latest <= MaxMsg
         /\ Msg \subseteq Nat /\ message \subseteq Msg
         /\ \A m \in message : 1 <= m /\ m <= latest
<1>1. latest \in 0..MaxMsg /\ message \subseteq 1..latest /\ watermark \in 0..latest
  BY DEF NightTyped, ExtractionTypeOK
<1> QED
  BY <1>1 DEF ExtractionAssumption, Msg


LEMMA ExtractionStarts ==
  ASSUME ExtractionAssumption, ExtractionInit
  PROVE  ExtractionInv
<1> USE ExtractionAssumption DEF ExtractionInit, ExtractionInv
<1>1. NightTyped
  BY LinesSmaller
  DEF NightTyped, ExtractionTypeOK, ExtractionAssumption, NoLines, Unfrozen, Receipt, StepStage
<1>2. FrozenIsSaid /\ AnsweredIsSaid /\ DurablesAsSaid /\ FrozenFirst
  BY DEF FrozenIsSaid, AnsweredIsSaid, DurablesAsSaid, FrozenFirst, IsFrozen, Unfrozen, NoLines
<1>3. Scoped /\ ScopeDecided
  BY DEF Scoped, ScopeDecided, InScope, NoLines
<1>5. EmptyAtRest
  BY DEF EmptyAtRest, InScope, NoLines
<1>4. ExtractedOnce
  BY DEF ExtractedOnce, StoredOnce, SettledWasDecided
<1> QED
  BY <1>1, <1>2, <1>3, <1>4, <1>5

\* The step ends: what holds of a step in hand holds of none.
LEMMA StepEndsKeeps ==
  ASSUME ExtractionAssumption, ExtractionInv, StepEnds,
         UNCHANGED <<message, durables, frozen, asked, said>>,
         UNCHANGED <<latest, forgotten, run, prior, receipts>>,
         watermark' \in watermark..latest,
         \A m \in message : m > watermark /\ m <= watermark' => said[m] # {} /\ Decided(m)
  PROVE  ExtractionInv'
<1> USE DEF ExtractionInv, StepEnds
<1>1. NightTyped'
  BY LinesSmaller
  DEF NightTyped, ExtractionTypeOK, ExtractionAssumption, NoLines, Receipt, StepStage
<1>2. (FrozenIsSaid /\ AnsweredIsSaid /\ FrozenFirst)'
  BY DEF FrozenIsSaid, AnsweredIsSaid, FrozenFirst, IsFrozen, NoLines
<1>3. DurablesAsSaid'
  <2>1. \A r \in durables : r.msg \in 1..MaxMsg
    BY DEF NightTyped, ExtractionTypeOK, Msg
  <2> QED
    BY <2>1 DEF DurablesAsSaid, IsFrozen, NightTyped, ExtractionTypeOK, ExtractionAssumption
<1>4. (Scoped /\ ScopeDecided)'
  BY DEF Scoped, ScopeDecided, InScope, NoLines
<1>5. ExtractedOnce'
  <2>1. StoredOnce'
    BY DEF ExtractedOnce, StoredOnce
  <2>2. ASSUME NEW m \in message, m <= watermark'
        PROVE  said[m] # {} /\ Decided(m)
    <3>1. m \in Nat /\ watermark \in Nat
      BY DEF NightTyped, ExtractionTypeOK, ExtractionAssumption
    <3>2. CASE m <= watermark
      BY <3>2 DEF ExtractedOnce, SettledWasDecided, Decided
    <3>3. CASE m > watermark
      BY <2>2, <3>3
    <3> QED
      BY <3>1, <3>2, <3>3
  <2> QED
    BY <2>1, <2>2 DEF ExtractedOnce, SettledWasDecided, Decided
<1>6. EmptyAtRest'
  BY DEF EmptyAtRest, InScope, NoLines
<1> QED
  BY <1>1, <1>2, <1>3, <1>4, <1>5, <1>6

LEMMA StartRunKeeps ==
  ASSUME ExtractionAssumption, ExtractionInv, NEW takesUp \in BOOLEAN, StartRun(takesUp)
  PROVE  ExtractionInv'
<1> USE DEF ExtractionInv, StartRun
<1>1. NightTyped'
  <2>1. frozen' \in [Msg -> [run : 0..MaxRun, lines : Lines]]
    BY LinesSmaller DEF NightTyped, ExtractionTypeOK, ExtractionAssumption, Unfrozen
  <2>2. answered' \in [Msg -> Lines]
    BY LinesSmaller DEF NightTyped, ExtractionTypeOK
  <2>3. replay' \in SUBSET Msg /\ inHand' \in SUBSET Msg
    BY MessagesNumbered DEF Offered
  <2>4. run' \in 0..MaxRun /\ prior' \in 0..MaxRun /\ stepStage' \in StepStage /\ run' # 0
    BY DEF NightTyped, ExtractionTypeOK, ExtractionAssumption, StepStage
  <2> QED
    BY <2>1, <2>2, <2>3, <2>4 DEF NightTyped, ExtractionTypeOK, nightMemory
<1>2. \A m \in Msg : m <= watermark \/ frozen'[m] = frozen[m]
  OBVIOUS
<1>3. \A m \in Msg : m <= watermark => frozen'[m] = Unfrozen
  OBVIOUS
<1>4. FrozenIsSaid'
  BY <1>2, <1>3 DEF FrozenIsSaid, IsFrozen, Unfrozen
<1>5. \A m \in Msg : answered'[m] = IF m \in replay' THEN frozen[m].lines ELSE {}
  OBVIOUS
<1>6. AnsweredIsSaid'
  BY <1>5 DEF FrozenIsSaid, AnsweredIsSaid
<1>7. DurablesAsSaid'
  <2>1. \A r \in durables : r.msg \in Msg
    BY DEF NightTyped, ExtractionTypeOK
  <2>2. watermark' = watermark /\ durables' = durables
    BY DEF nightMemory
  <2>3. ASSUME NEW r \in durables
        PROVE  r.of = asked'[r.msg] /\ (IsFrozen(r.msg)' \/ r.msg <= watermark)
    BY <1>2, <2>1 DEF DurablesAsSaid, IsFrozen
  <2> QED
    BY <2>2, <2>3 DEF DurablesAsSaid
<1>8. todo' = NoLines /\ unhandled' = {}
  BY DEF EmptyAtRest, InScope
<1>9. FrozenFirst'
  <2>1. \A m \in Msg : todo'[m] = {}
    BY <1>8 DEF NoLines
  <2>2. \A m \in inHand' : m \in Msg /\ m > watermark /\ ~IsFrozen(m)
    BY MessagesNumbered DEF Offered
  <2>3. \A m \in inHand' : ~IsFrozen(m)'
    BY <2>2, <1>2, <1>3 DEF IsFrozen, Unfrozen
  <2>4. \A m \in replay' : m \in Msg /\ m > watermark /\ IsFrozen(m)
    BY MessagesNumbered DEF Offered
  <2>5. \A m \in replay' : answered'[m] # {} /\ IsFrozen(m)'
    <3>1. \A m \in replay' : ~(m <= watermark)
      BY <2>4, MessagesNumbered
    <3> QED
      BY <2>4, <3>1, <1>2, <1>5 DEF IsFrozen, FrozenIsSaid
  <2> QED
    BY <2>1, <2>3, <2>5 DEF FrozenFirst
<1>10. InScope' = Offered
  <2>1. Offered \subseteq Msg
    BY MessagesNumbered DEF Offered
  <2>2. \A m \in Msg : answered'[m] # {} => m \in replay'
    BY <1>5
  <2>3. replay' \subseteq Offered /\ inHand' = Offered \ replay'
    OBVIOUS
  <2> QED
    BY <1>8, <2>1, <2>2, <2>3 DEF InScope
<1>11. Scoped'
  <2>1. latest' = latest /\ message' = message /\ watermark' = watermark /\ Offered # {}
    BY DEF nightMemory
  <2>2. \A o \in Offered : watermark < o /\ o <= latest
    BY DEF Offered, NightTyped, ExtractionTypeOK, ExtractionAssumption
  <2> QED
    BY <1>10, <2>1, <2>2 DEF Scoped, Offered
<1>12. ScopeDecided'
  <2>1. InScope' \subseteq inHand' \cup replay'
    BY <1>10
  <2>2. stepStage' # "done"
    OBVIOUS
  <2> QED
    BY <1>8, <2>1, <2>2 DEF ScopeDecided
<1>13. ExtractedOnce'
  BY DEF ExtractedOnce, StoredOnce, SettledWasDecided, nightMemory
<1>14. EmptyAtRest'
  BY DEF EmptyAtRest
<1> QED
  BY <1>1, <1>4, <1>6, <1>7, <1>9, <1>11, <1>12, <1>13, <1>14

LEMMA ModelAnswersKeeps ==
  ASSUME ExtractionAssumption, ExtractionInv, ModelAnswers
  PROVE  ExtractionInv'
<1> USE DEF ExtractionInv
<1>1. PICK lines \in [inHand -> Lines] :
        /\ answered' = [m \in Msg |-> IF m \in inHand THEN lines[m] ELSE answered[m]]
        /\ said' = [m \in Msg |-> IF m \in inHand /\ lines[m] # {} THEN lines[m] ELSE said[m]]
        /\ asked' = [m \in Msg |-> IF m \in inHand /\ lines[m] # {} THEN asked[m] + 1 ELSE asked[m]]
  BY DEF ModelAnswers
<1>2. /\ stepStage = "asked" /\ stepStage' = "freezing"
      /\ latest' = latest /\ message' = message /\ watermark' = watermark /\ durables' = durables
      /\ forgotten' = forgotten /\ frozen' = frozen /\ receipts' = receipts /\ run' = run
      /\ prior' = prior /\ replay' = replay /\ inHand' = inHand /\ todo' = todo
      /\ applied' = applied /\ unhandled' = unhandled
  BY DEF ModelAnswers, nightMemory, response
<1>3. \A m \in inHand : m \in Msg /\ lines[m] \in Lines /\ lines[m] \subseteq Line /\ ~IsFrozen(m)
  BY <1>2 DEF NightTyped, ExtractionTypeOK, FrozenFirst, Lines
<1>4. NightTyped'
  <2>1. answered' \in [Msg -> Lines] /\ said' \in [Msg -> SUBSET Line] /\ asked' \in [Msg -> Nat]
    BY <1>1, <1>3 DEF NightTyped, ExtractionTypeOK
  <2> QED
    BY <2>1, <1>2 DEF NightTyped, ExtractionTypeOK, StepStage
<1>5. FrozenIsSaid'
  BY <1>1, <1>2, <1>3 DEF FrozenIsSaid, IsFrozen
<1>6. AnsweredIsSaid'
  BY <1>1, <1>2, <1>3 DEF AnsweredIsSaid
<1>7. \A m \in inHand : ~(m <= watermark)
  BY <1>2 DEF Scoped, InScope, NightTyped, ExtractionTypeOK, ExtractionAssumption, Msg
<1>8. DurablesAsSaid'
  <2>1. \A r \in durables : r.msg \in Msg /\ r.msg \notin inHand
    BY <1>3, <1>7 DEF NightTyped, ExtractionTypeOK, DurablesAsSaid
  <2> QED
    BY <1>1, <1>2, <2>1 DEF DurablesAsSaid, IsFrozen
<1>9. FrozenFirst'
  <2>1. \A m \in replay : m \in Msg /\ m \notin inHand
    BY <1>3 DEF FrozenFirst, NightTyped, ExtractionTypeOK
  <2> QED
    BY <1>1, <1>2, <2>1 DEF FrozenFirst, IsFrozen
<1>10. InScope' = InScope
  BY <1>1, <1>2, <1>3 DEF InScope
<1>11. Scoped'
  BY <1>2, <1>10 DEF Scoped
<1>12. ScopeDecided'
  <2>1. ASSUME NEW m \in InScope \ (inHand \cup replay \cup unhandled) PROVE Decided(m)'
    <3>1. m \in Msg /\ m \notin inHand
      BY DEF InScope
    <3>2. said'[m] = said[m]
      BY <1>1, <3>1
    <3> QED
      BY <1>2, <3>2 DEF ScopeDecided, Decided, Good
  <2> QED
    BY <1>2, <1>10, <2>1 DEF ScopeDecided
<1>13. ExtractedOnce'
  <2>1. \A m \in message : m <= watermark => m \in Msg /\ said'[m] = said[m]
    BY <1>1, <1>7 DEF NightTyped, ExtractionTypeOK, ExtractionAssumption, Msg
  <2> QED
    BY <1>2, <2>1 DEF ExtractedOnce, StoredOnce, SettledWasDecided, Good
<1>14. EmptyAtRest'
  BY <1>2 DEF EmptyAtRest
<1> QED
  BY <1>4, <1>5, <1>6, <1>8, <1>9, <1>11, <1>12, <1>13, <1>14

LEMMA FreezeKeeps ==
  ASSUME ExtractionAssumption, ExtractionInv, Freeze
  PROVE  ExtractionInv'
<1> USE DEF ExtractionInv
<1>1. /\ stepStage = "freezing" /\ latest' = latest /\ message' = message /\ watermark' = watermark
      /\ durables' = durables /\ forgotten' = forgotten /\ receipts' = receipts /\ run' = run
      /\ prior' = prior /\ replay' = replay /\ answered' = answered /\ inHand' = inHand
      /\ applied' = applied /\ unhandled' = unhandled /\ asked' = asked /\ said' = said
  BY DEF Freeze, nightMemory
<1>2. InScope' = InScope
  BY <1>1 DEF InScope
<1>3. AnsweredIsSaid' /\ ExtractedOnce'
  BY <1>1 DEF AnsweredIsSaid, ExtractedOnce, StoredOnce, SettledWasDecided, Good
<1>4. CASE ToFreeze = {}
  <2>1. /\ stepStage' = "applying" /\ frozen' = frozen
        /\ todo' = [m \in Msg |-> IF m \in inHand THEN answered[m] ELSE {}]
    BY <1>4 DEF Freeze
  <2>2. NightTyped'
    BY <1>1, <2>1, LinesSmaller DEF NightTyped, ExtractionTypeOK, StepStage
  <2>3. FrozenIsSaid' /\ DurablesAsSaid'
    BY <1>1, <2>1 DEF FrozenIsSaid, DurablesAsSaid, IsFrozen
  <2>4. \A m \in inHand : answered[m] # {} => IsFrozen(m)
    BY <1>4 DEF ToFreeze
  <2>5. FrozenFirst'
    BY <1>1, <2>1, <2>4 DEF FrozenFirst, IsFrozen
  <2>6. Scoped' /\ ScopeDecided' /\ EmptyAtRest'
    BY <1>1, <1>2, <2>1 DEF Scoped, ScopeDecided, Decided, Good, EmptyAtRest
  <2> QED
    BY <1>3, <2>2, <2>3, <2>5, <2>6
<1>5. CASE ToFreeze # {}
  <2>1. PICK m \in ToFreeze : frozen' = [frozen EXCEPT ![m] = [run |-> run, lines |-> answered[m]]]
    BY <1>5 DEF Freeze
  <2>2. stepStage' = "freezing" /\ todo' = todo
    BY <1>1, <1>5 DEF Freeze
  <2>3. m \in Msg /\ answered[m] # {} /\ answered[m] \in Lines /\ run \in 0..MaxRun /\ run # 0
    BY <1>1 DEF ToFreeze, NightTyped, ExtractionTypeOK
  <2>4. frozen \in [Msg -> [run : 0..MaxRun, lines : Lines]]
    BY DEF NightTyped, ExtractionTypeOK
  <2>5. /\ frozen' \in [Msg -> [run : 0..MaxRun, lines : Lines]]
        /\ frozen'[m].run # 0 /\ frozen'[m].lines = answered[m]
        /\ \A o \in Msg \ {m} : frozen'[o] = frozen[o]
    BY <2>1, <2>3, <2>4
  <2>6. NightTyped'
    BY <1>1, <2>2, <2>5 DEF NightTyped, ExtractionTypeOK
  <2>7. FrozenIsSaid'
    BY <1>1, <2>3, <2>5 DEF FrozenIsSaid, AnsweredIsSaid, IsFrozen
  <2>8. \A o \in Msg : IsFrozen(o) => IsFrozen(o)'
    BY <2>5 DEF IsFrozen
  <2>9. DurablesAsSaid'
    <3>1. \A r \in durables : r.msg \in Msg
      BY DEF NightTyped, ExtractionTypeOK
    <3> QED
      BY <1>1, <2>8, <3>1 DEF DurablesAsSaid
  <2>10. FrozenFirst'
    <3>1. replay \subseteq Msg
      BY DEF NightTyped, ExtractionTypeOK
    <3> QED
      BY <1>1, <2>2, <2>8, <3>1 DEF FrozenFirst
  <2>11. Scoped' /\ ScopeDecided' /\ EmptyAtRest'
    BY <1>1, <1>2, <2>2 DEF Scoped, ScopeDecided, Decided, Good, EmptyAtRest
  <2> QED
    BY <1>3, <2>6, <2>7, <2>9, <2>10, <2>11
<1> QED
  BY <1>4, <1>5

LEMMA ApplyKeeps ==
  ASSUME ExtractionAssumption, ExtractionInv, NEW m \in Msg, NEW l \in Line, Apply(m, l)
  PROVE  ExtractionInv'
<1> USE DEF ExtractionInv
<1>1. /\ stepStage = "applying" /\ stepStage' = stepStage /\ l \in todo[m]
      /\ todo' = [todo EXCEPT ![m] = @ \ {l}]
      /\ latest' = latest /\ message' = message /\ watermark' = watermark
      /\ forgotten' = forgotten /\ frozen' = frozen /\ receipts' = receipts /\ run' = run
      /\ prior' = prior /\ replay' = replay /\ answered' = answered /\ inHand' = inHand
      /\ unhandled' = unhandled /\ asked' = asked /\ said' = said
  BY DEF Apply
<1>2. \/ durables' = durables
      \/ /\ l \in Fact /\ ~Stored(l)
         /\ durables' = durables \cup {[fact |-> l, msg |-> m, run |-> run, of |-> asked[m]]}
  BY DEF Apply
<1>3. \/ applied' = applied
      \/ applied' = applied \cup {[msg |-> m, line |-> l, disp |-> Disposition(m, l)]}
  BY DEF Apply
<1>4. InScope' = InScope
  BY <1>1 DEF InScope
<1>5. IsFrozen(m)
  BY <1>1 DEF FrozenFirst
<1>6. run \in NightRun /\ asked[m] \in Nat
  BY <1>1 DEF NightTyped, ExtractionTypeOK, NightRun, ExtractionAssumption
<1>7. NightTyped'
  <2>1. durables' \subseteq [fact : Fact, msg : Msg, run : NightRun, of : Nat]
    BY <1>2, <1>6 DEF NightTyped, ExtractionTypeOK
  <2>2. Disposition(m, l) \in {"accepted", "declined", "rejected"}
    BY DEF Disposition
  <2>3. applied' \subseteq Receipt
    BY <1>3, <2>2 DEF NightTyped, ExtractionTypeOK, Receipt
  <2>4. todo' \in [Msg -> Lines]
    BY <1>1, LinesSmaller DEF NightTyped, ExtractionTypeOK
  <2> QED
    BY <1>1, <2>1, <2>3, <2>4 DEF NightTyped, ExtractionTypeOK
<1>8. FrozenIsSaid' /\ AnsweredIsSaid'
  BY <1>1 DEF FrozenIsSaid, AnsweredIsSaid, IsFrozen
<1>9. DurablesAsSaid'
  BY <1>1, <1>2, <1>5 DEF DurablesAsSaid, IsFrozen
<1>10. FrozenFirst'
  <2>1. \A o \in Msg : todo'[o] \subseteq todo[o]
    BY <1>1 DEF NightTyped, ExtractionTypeOK
  <2> QED
    BY <1>1, <2>1 DEF FrozenFirst, IsFrozen
<1>11. Scoped' /\ ScopeDecided' /\ EmptyAtRest'
  BY <1>1, <1>4 DEF Scoped, ScopeDecided, Decided, Good, EmptyAtRest
<1>12. ExtractedOnce'
  <2>1. StoredOnce'
    BY <1>2 DEF ExtractedOnce, StoredOnce, DurablesAsSaid, Stored
  <2> QED
    BY <1>1, <2>1 DEF ExtractedOnce, SettledWasDecided, Good
<1> QED
  BY <1>7, <1>8, <1>9, <1>10, <1>11, <1>12

\* What a response has handled is decided once its receipts are on disk, and what
\* was decided before stays so.
LEMMA RecordedIsDecided ==
  ASSUME ExtractionAssumption, ExtractionInv, RecordReceipts
  PROVE  /\ \A m \in Msg : Decided(m) => Decided(m)'
         /\ \A m \in inHand : Handled(m) => Decided(m)'
         /\ receipts' \in [NightRun -> SUBSET Receipt]
<1>1. /\ stepStage = "applying" /\ receipts' = [receipts EXCEPT ![run] = @ \cup applied]
      /\ said' = said
  BY DEF RecordReceipts
<1>2. run \in NightRun /\ receipts \in [NightRun -> SUBSET Receipt] /\ applied \subseteq Receipt
  BY <1>1 DEF ExtractionInv, NightTyped, ExtractionTypeOK, NightRun, ExtractionAssumption
<1>3. receipts' \in [NightRun -> SUBSET Receipt] /\ applied \subseteq receipts'[run]
  BY <1>1, <1>2
<1>4. \A r \in NightRun : receipts[r] \subseteq receipts'[r]
  BY <1>1, <1>2
<1>5. \A m \in Msg : Decided(m) => Decided(m)'
  BY <1>1, <1>4 DEF Decided, Good
<1>6. ASSUME NEW m \in inHand, Handled(m) PROVE Decided(m)'
  <2>1. m \in Msg /\ answered[m] = said[m]
    BY <1>6 DEF Handled, ExtractionInv, AnsweredIsSaid, NightTyped, ExtractionTypeOK
  <2>2. \A l \in said'[m] : \E e \in receipts'[run] : Good(e, m, l)
    BY <1>1, <1>3, <1>6, <2>1 DEF Handled
  <2> QED
    BY <1>2, <2>2 DEF Decided, Good
<1> QED
  BY <1>3, <1>5, <1>6

LEMMA RecordReceiptsKeeps ==
  ASSUME ExtractionAssumption, ExtractionInv, RecordReceipts
  PROVE  ExtractionInv'
<1> DEFINE missed == unhandled \cup {m \in inHand : ~Handled(m)}
<1>1. /\ stepStage = "applying" /\ todo = NoLines /\ latest' = latest /\ message' = message
      /\ watermark' = watermark /\ durables' = durables /\ forgotten' = forgotten
      /\ frozen' = frozen /\ run' = run /\ prior' = prior /\ asked' = asked /\ said' = said
  BY DEF RecordReceipts, nightMemory
<1>2. /\ \A m \in Msg : Decided(m) => Decided(m)'
      /\ \A m \in inHand : Handled(m) => Decided(m)'
      /\ receipts' \in [NightRun -> SUBSET Receipt]
  BY RecordedIsDecided
<1>3. ExtractedOnce'
  <2>1. StoredOnce'
    BY <1>1 DEF ExtractionInv, ExtractedOnce, StoredOnce
  <2>2. ASSUME NEW m \in message, m <= watermark PROVE said[m] # {} /\ Decided(m)'
    <3>1. m \in Msg /\ Decided(m) /\ said[m] # {}
      BY <2>2, MessagesNumbered DEF ExtractionInv, ExtractedOnce, SettledWasDecided, Decided
    <3> QED
      BY <3>1, <1>2
  <2> QED
    BY <1>1, <2>1, <2>2 DEF ExtractedOnce, SettledWasDecided, Decided
<1>4. FrozenIsSaid' /\ DurablesAsSaid'
  BY <1>1 DEF ExtractionInv, FrozenIsSaid, DurablesAsSaid, IsFrozen
<1>5. InScope \subseteq Msg /\ inHand \subseteq Msg /\ replay \subseteq Msg /\ unhandled \subseteq Msg
  BY DEF ExtractionInv, NightTyped, ExtractionTypeOK, InScope
<1>6. \A m \in InScope \ (replay \cup missed) : Decided(m)' /\ answered[m] # {}
  <2>1. ASSUME NEW m \in InScope \ (replay \cup missed) PROVE Decided(m)' /\ answered[m] # {}
    <3>1. CASE m \in inHand
      BY <1>2, <2>1, <3>1 DEF Handled
    <3>2. CASE m \notin inHand
      BY <1>2, <1>5, <2>1, <3>2 DEF InScope, ExtractionInv, ScopeDecided
    <3> QED
      BY <3>1, <3>2
  <2> QED
    BY <2>1
<1>7. \/ replay = {} /\ missed # {} /\ StepEnds
      \/ /\ replay = {} /\ missed = {} /\ stepStage' = "done"
         /\ inHand' = {} /\ applied' = {} /\ replay' = replay /\ answered' = answered
         /\ todo' = todo /\ unhandled' = unhandled
      \/ \E m \in replay :
           /\ replay' = replay \ {m} /\ inHand' = {m} /\ todo' = [NoLines EXCEPT ![m] = answered[m]]
           /\ applied' = {} /\ unhandled' = missed /\ stepStage' = stepStage /\ answered' = answered
  BY DEF RecordReceipts
<1>8. CASE replay = {} /\ missed # {} /\ StepEnds
  <2> USE DEF StepEnds
  <2>1. NightTyped'
    BY <1>1, <1>2, <1>8, LinesSmaller DEF ExtractionInv, NightTyped, ExtractionTypeOK,
       ExtractionAssumption, NoLines, Receipt, StepStage
  <2>2. (AnsweredIsSaid /\ FrozenFirst)'
    BY <1>8 DEF AnsweredIsSaid, FrozenFirst, NoLines
  <2>3. (Scoped /\ ScopeDecided /\ EmptyAtRest)'
    BY <1>8 DEF Scoped, ScopeDecided, InScope, NoLines, EmptyAtRest
  <2> QED
    BY <1>3, <1>4, <2>1, <2>2, <2>3 DEF ExtractionInv
<1>9. CASE /\ replay = {} /\ missed = {} /\ stepStage' = "done"
           /\ inHand' = {} /\ applied' = {} /\ replay' = replay /\ answered' = answered
           /\ todo' = todo /\ unhandled' = unhandled
  <2>1. NightTyped'
    BY <1>1, <1>2, <1>9 DEF ExtractionInv, NightTyped, ExtractionTypeOK, StepStage
  <2>2. (AnsweredIsSaid /\ FrozenFirst)'
    BY <1>1, <1>9 DEF ExtractionInv, AnsweredIsSaid, FrozenFirst, IsFrozen
  <2>3. InScope' = InScope
    BY <1>6, <1>9, <1>5 DEF InScope
  <2>4. (Scoped /\ EmptyAtRest)'
    BY <1>1, <1>9, <2>3 DEF ExtractionInv, Scoped, EmptyAtRest
  <2>5. ScopeDecided'
    BY <1>6, <1>9, <2>3 DEF ScopeDecided
  <2> QED
    BY <1>3, <1>4, <2>1, <2>2, <2>4, <2>5 DEF ExtractionInv
<1>10. ASSUME NEW m \in replay,
              /\ replay' = replay \ {m} /\ inHand' = {m}
              /\ todo' = [NoLines EXCEPT ![m] = answered[m]] /\ applied' = {}
              /\ unhandled' = missed /\ stepStage' = stepStage /\ answered' = answered
       PROVE  ExtractionInv'
  <2>1. m \in Msg /\ answered[m] \in Lines /\ answered[m] # {} /\ IsFrozen(m)
    BY <1>5 DEF ExtractionInv, NightTyped, ExtractionTypeOK, FrozenFirst
  <2>2. /\ todo' \in [Msg -> Lines] /\ todo'[m] = answered[m]
        /\ \A o \in Msg \ {m} : todo'[o] = {}
    BY <1>10, <2>1, LinesSmaller DEF NoLines
  <2>3. missed \subseteq Msg
    BY <1>5
  <2>4. NightTyped'
    BY <1>1, <1>2, <1>10, <1>5, <2>2, <2>3 DEF ExtractionInv, NightTyped, ExtractionTypeOK
  <2>5. (AnsweredIsSaid /\ FrozenFirst)'
    BY <1>1, <1>10, <2>1, <2>2 DEF ExtractionInv, AnsweredIsSaid, FrozenFirst, IsFrozen
  <2>6. InScope' = InScope
    <3>1. InScope' \subseteq InScope
      BY <1>10 DEF InScope
    <3>2. InScope \subseteq InScope'
      BY <1>6, <1>10, <1>5 DEF InScope
    <3> QED
      BY <3>1, <3>2
  <2>7. (Scoped /\ EmptyAtRest)'
    BY <1>1, <1>10, <2>6 DEF ExtractionInv, Scoped, EmptyAtRest
  <2>8. ScopeDecided'
    BY <1>1, <1>6, <1>10, <2>6 DEF ScopeDecided
  <2> QED
    BY <1>3, <1>4, <2>4, <2>5, <2>7, <2>8 DEF ExtractionInv
<1> QED
  BY <1>7, <1>8, <1>9, <1>10

\* A step that breaks leaves what it has frozen and recorded.
LEMMA BreaksKeeps ==
  ASSUME ExtractionAssumption, ExtractionInv, Breaks
  PROVE  ExtractionInv'
<1>1. StepEnds /\ UNCHANGED <<message, durables, frozen, asked, said>>
      /\ UNCHANGED <<latest, forgotten, run, prior, receipts>> /\ watermark' = watermark
  BY DEF Breaks, nightMemory
<1>2. /\ watermark' \in watermark..latest
      /\ \A m \in message : ~(m > watermark /\ m <= watermark')
  BY <1>1, MessagesNumbered DEF ExtractionInv
<1> QED
  BY <1>1, <1>2, StepEndsKeeps

LEMMA SettleKeeps ==
  ASSUME ExtractionAssumption, ExtractionInv, NEW moved \in BOOLEAN, Settle(moved)
  PROVE  ExtractionInv'
<1> DEFINE S == {w \in Msg : answered[w] # {}}
<1>1. StepEnds /\ UNCHANGED <<message, durables, frozen, asked, said>>
      /\ UNCHANGED <<latest, forgotten, run, prior, receipts>> /\ stepStage = "done"
  BY DEF Settle
<1>2. CASE ~moved
  <2>1. watermark' = watermark
    BY <1>2 DEF Settle
  <2>2. /\ watermark' \in watermark..latest
        /\ \A m \in message : ~(m > watermark /\ m <= watermark')
    BY <2>1, MessagesNumbered DEF ExtractionInv
  <2> QED
    BY <1>1, <2>2, StepEndsKeeps
<1>3. CASE moved
  <2>1. InScope = S /\ S # {}
    BY <1>1 DEF ExtractionInv, ScopeDecided, Scoped, InScope
  <2>2. watermark' = CHOOSE w \in Msg :
          answered[w] # {} /\ \A m \in Msg : answered[m] # {} => m <= w
    BY <1>3 DEF Settle
  <2>3. \E w \in Msg : answered[w] # {} /\ \A m \in Msg : answered[m] # {} => m <= w
    BY <2>1, LastMessage
  <2>4. watermark' \in S /\ \A m \in S : m <= watermark'
    BY <2>2, <2>3
  <2>5. watermark' \in watermark..latest /\ watermark' \in Nat
    BY <1>1, <2>1, <2>4, MessagesNumbered DEF ExtractionInv, Scoped
  <2>6. ASSUME NEW m \in message, m > watermark, m <= watermark'
        PROVE  said[m] # {} /\ Decided(m)
    <3>1. m \in S
      <4>1. stepStage # "idle" /\ watermark' \in InScope
        BY <1>1, <2>1, <2>4
      <4>2. m \in InScope \/ watermark' < m
        BY <2>6, <4>1 DEF ExtractionInv, Scoped
      <4>3. m \in Nat
        BY MessagesNumbered DEF ExtractionInv
      <4> QED
        BY <2>1, <2>5, <2>6, <4>2, <4>3
    <3>2. Decided(m) /\ answered[m] = said[m]
      BY <1>1, <2>1, <3>1 DEF ExtractionInv, ScopeDecided, AnsweredIsSaid
    <3> QED
      BY <3>1, <3>2
  <2> QED
    BY <1>1, <2>5, <2>6, StepEndsKeeps
<1> QED
  BY <1>2, <1>3

LEMMA ArrivesKeeps ==
  ASSUME ExtractionAssumption, ExtractionInv, Arrives
  PROVE  ExtractionInv'
<1> USE DEF ExtractionInv
<1>1. /\ latest < MaxMsg /\ latest' = latest + 1 /\ message' = message \cup {latest'}
      /\ watermark' = watermark /\ durables' = durables /\ forgotten' = forgotten
      /\ frozen' = frozen /\ receipts' = receipts /\ run' = run /\ prior' = prior
      /\ stepStage' = stepStage /\ replay' = replay /\ answered' = answered /\ inHand' = inHand
      /\ todo' = todo /\ applied' = applied /\ unhandled' = unhandled
      /\ asked' = asked /\ said' = said
  BY DEF Arrives, stepState, response
<1>2. latest' \in Msg /\ latest' \in Nat /\ latest < latest' /\ watermark < latest'
  BY <1>1, MessagesNumbered DEF Msg, ExtractionAssumption
<1>3. NightTyped'
  <2>1. latest' \in 0..MaxMsg /\ message' \subseteq 1..latest' /\ watermark' \in 0..latest'
    BY <1>1, MessagesNumbered DEF ExtractionAssumption
  <2> QED
    BY <1>1, <2>1 DEF NightTyped, ExtractionTypeOK
<1>4. (FrozenIsSaid /\ AnsweredIsSaid /\ DurablesAsSaid /\ FrozenFirst)'
  BY <1>1 DEF FrozenIsSaid, AnsweredIsSaid, DurablesAsSaid, FrozenFirst, IsFrozen
<1>5. InScope' = InScope /\ InScope \subseteq Msg
  BY <1>1 DEF InScope, NightTyped, ExtractionTypeOK
<1>6. Scoped'
  <2> SUFFICES ASSUME stepStage # "idle"
               PROVE  /\ InScope # {}
                      /\ \A o \in InScope : watermark < o /\ o <= latest'
                      /\ \A m \in message', o \in InScope : m > watermark => m \in InScope \/ o < m
    BY <1>1, <1>5 DEF Scoped
  <2>1. InScope # {} /\ \A o \in InScope : watermark < o /\ o <= latest /\ o \in Nat
    BY <1>5, MessagesNumbered DEF Scoped
  <2>2. \A o \in InScope : watermark < o /\ o <= latest' /\ o < latest'
    BY <1>2, <2>1, MessagesNumbered
  <2> QED
    BY <1>1, <2>1, <2>2 DEF Scoped
<1>7. (ScopeDecided /\ EmptyAtRest)'
  BY <1>1, <1>5 DEF ScopeDecided, Decided, Good, EmptyAtRest
<1>8. ExtractedOnce'
  <2>1. \A m \in message' : m <= watermark => m \in message
    BY <1>1, <1>2, MessagesNumbered
  <2> QED
    BY <1>1, <2>1 DEF ExtractedOnce, StoredOnce, SettledWasDecided, Good
<1> QED
  BY <1>3, <1>4, <1>6, <1>7, <1>8

\* What is forgotten takes messages and durables away and adds none.
LEMMA ForgettingKeeps ==
  ASSUME ExtractionAssumption, ExtractionInv,
         message' \subseteq message, durables' \subseteq durables,
         UNCHANGED <<latest, watermark, frozen, receipts, run, prior, stepStage, stepState>>,
         UNCHANGED <<asked, said>>
  PROVE  ExtractionInv'
<1> USE DEF ExtractionInv
<1>1. /\ latest' = latest /\ watermark' = watermark
      /\ frozen' = frozen /\ receipts' = receipts /\ run' = run /\ prior' = prior
      /\ stepStage' = stepStage /\ replay' = replay /\ answered' = answered /\ inHand' = inHand
      /\ todo' = todo /\ applied' = applied /\ unhandled' = unhandled
      /\ asked' = asked /\ said' = said
  BY DEF stepState, response
<1>2. NightTyped'
  BY <1>1 DEF NightTyped, ExtractionTypeOK
<1>3. (FrozenIsSaid /\ AnsweredIsSaid /\ DurablesAsSaid /\ FrozenFirst)'
  BY <1>1 DEF FrozenIsSaid, AnsweredIsSaid, DurablesAsSaid, FrozenFirst, IsFrozen
<1>4. InScope' = InScope
  BY <1>1 DEF InScope
<1>5. (Scoped /\ ScopeDecided /\ EmptyAtRest)'
  BY <1>1, <1>4 DEF Scoped, ScopeDecided, Decided, Good, EmptyAtRest
<1>6. ExtractedOnce'
  BY <1>1 DEF ExtractedOnce, StoredOnce, SettledWasDecided, Good
<1> QED
  BY <1>2, <1>3, <1>5, <1>6

LEMMA ExtractionStepKeeps ==
  ASSUME ExtractionAssumption, ExtractionInv, [ExtractionNext]_extractionVars
  PROVE  ExtractionInv'
<1>1. CASE UNCHANGED extractionVars
  BY <1>1, ForgettingKeeps DEF extractionVars, nightMemory
<1>2. ASSUME NEW takesUp \in BOOLEAN, StartRun(takesUp) PROVE ExtractionInv'
  BY <1>2, StartRunKeeps
<1>3. CASE ModelAnswers
  BY <1>3, ModelAnswersKeeps
<1>4. CASE Freeze
  BY <1>4, FreezeKeeps
<1>5. ASSUME NEW m \in Msg, NEW l \in Line, Apply(m, l) PROVE ExtractionInv'
  BY <1>5, ApplyKeeps
<1>6. CASE RecordReceipts
  BY <1>6, RecordReceiptsKeeps
<1>7. CASE Breaks
  BY <1>7, BreaksKeeps
<1>8. ASSUME NEW moved \in BOOLEAN, Settle(moved) PROVE ExtractionInv'
  BY <1>8, SettleKeeps
<1>9. CASE Arrives
  BY <1>9, ArrivesKeeps
<1>10. ASSUME NEW m \in Msg, ForgetMessage(m) PROVE ExtractionInv'
  <2>1. message' \subseteq message /\ durables' \subseteq durables
    BY <1>10 DEF ForgetMessage
  <2> QED
    BY <1>10, <2>1, ForgettingKeeps DEF ForgetMessage
<1>11. ASSUME NEW r \in durables, ForgetDurable(r) PROVE ExtractionInv'
  <2>1. message' \subseteq message /\ durables' \subseteq durables
    BY <1>11 DEF ForgetDurable
  <2> QED
    BY <1>11, <2>1, ForgettingKeeps DEF ForgetDurable
<1> QED
  BY <1>1, <1>2, <1>3, <1>4, <1>5, <1>6, <1>7, <1>8, <1>9, <1>10, <1>11 DEF ExtractionNext

\* However the runs of the nights break and are taken up again, a fact is stored
\* once, from one answer of the model, and a message that is settled has every line
\* of it decided on disk.
THEOREM LinesAreExtractedOnce ==
  ASSUME ExtractionAssumption
  PROVE  ExtractionSpec => []ExtractedOnce
<1>1. ExtractionInit => ExtractionInv
  BY ExtractionStarts
<1>2. ExtractionInv /\ [ExtractionNext]_extractionVars => ExtractionInv'
  BY ExtractionStepKeeps
<1>3. ExtractionInv => ExtractedOnce
  BY DEF ExtractionInv
<1> QED
  BY <1>1, <1>2, <1>3, PTL DEF ExtractionSpec

-----------------------------------------------------------------------------
(* What hosts hand over of their turns: HostCapture. *)

\* The two halves of CapturedOnce.
RowsOnce ==
  \A i, j \in 1..Len(sessionRows) :
    /\ i < j
    /\ sessionRows[i].execution = sessionRows[j].execution
    /\ sessionRows[i].generation = sessionRows[j].generation
    /\ sessionRows[i].message = sessionRows[j].message
    /\ sessionRows[i].kind = "checkpoint"
    => ~sessionRows[j].sighted
CountedOnce ==
  \A i, j \in 1..Len(counted) :
    i < j /\ counted[i].event = counted[j].event =>
      \/ counted[j].time - counted[i].time > SinkTtl
      \/ j - i > SinkWindow

\* A capture that has compared with all of its checkpoint session knows what is in it.
Knows ==
  capture.sight = "all" =>
    \A i \in Session(capture.execution, capture.generation, "checkpoint") :
      sessionRows[i].message \in capture.known

RowsInv ==
  /\ sessionRows \in Seq(SessionRow) /\ capture \in Captures \cup {NoCapture}
  /\ RowsOnce /\ Knows

\* The window is the end of what was counted; an event that left it is over, or as
\* many came after it as the window holds.
Shift == Len(counted) - Len(seenEvents)
WindowInv ==
  /\ sinkTime \in 0..MaxSinkTime /\ seenEvents \in Seq(Entry) /\ counted \in Seq(Entry)
  /\ Shift >= 0 /\ \A i \in 1..Len(seenEvents) : seenEvents[i] = counted[Shift + i]
  /\ \A i \in 1..Shift :
       sinkTime - counted[i].time > SinkTtl \/ Len(counted) + 1 - i > SinkWindow
  /\ CountedOnce

CaptureInv == RowsInv /\ WindowInv

(* Rows *)

\* What a capture is given to compare with.
LEMMA KnownTyped ==
  ASSUME RowsInv, NEW e, NEW g, NEW kind, NEW known \in Known(e, g, kind)
  PROVE  known \subseteq Message
<1>1. \A i \in 1..Len(sessionRows) : sessionRows[i] \in SessionRow
  BY DEF RowsInv
<1>2. \A i \in 1..Len(sessionRows) : sessionRows[i].message \in Message
  BY <1>1 DEF SessionRow
<1>3. PICK read \in SUBSET Session(e, g, "checkpoint") :
        known = {sessionRows[i].message : i \in read}
  BY DEF Known, RecentMessages
<1>4. read \subseteq 1..Len(sessionRows)
  BY DEF Session
<1> QED
  BY <1>2, <1>3, <1>4

\* A session that is no longer than what is read of it is read in full.
LEMMA KnownIsAll ==
  ASSUME RowsInv, NEW e, NEW g, NEW kind, NEW known \in Known(e, g, kind),
         Cardinality(Session(e, g, "checkpoint")) <= Recent,
         NEW k \in Session(e, g, "checkpoint")
  PROVE  sessionRows[k].message \in known
<1> DEFINE session == Session(e, g, "checkpoint")
<1>1. PICK read \in SUBSET session :
        /\ Cardinality(read) = Cardinality(session)
        /\ known = {sessionRows[i].message : i \in read}
  BY DEF Known, RecentMessages
<1>2. IsFiniteSet(session)
  <2>1. Len(sessionRows) \in Nat
    BY DEF RowsInv
  <2>2. IsFiniteSet(1..Len(sessionRows)) /\ session \subseteq 1..Len(sessionRows)
    BY <2>1, FS_Interval DEF Session
  <2> QED
    BY <2>2, FS_Subset
<1>3. read = session
  BY <1>1, <1>2, FS_Subset
<1> QED
  BY <1>1, <1>3

LEMMA BeginKeeps ==
  ASSUME CaptureAssumption, RowsInv, UNCHANGED sessionRows, NEW e \in Execution,
         NEW g \in Generation, NEW kind \in SessionKind, NEW n \in 0..Len(Spoken[e]),
         BeginCapture(e, g, kind, n)
  PROVE  RowsInv'
<1>1. Spoken[e] \in Seq(Message) /\ Len(Spoken[e]) \in Nat
  BY DEF CaptureAssumption
<1>2. SubSeq(Spoken[e], 1, n) \in Seq(Message)
  BY <1>1
<1>3. capture' \in Captures /\ capture'.sight = "none"
  BY <1>2 DEF BeginCapture, Captures, Sight
<1> QED
  BY <1>3 DEF RowsInv, RowsOnce, Knows

LEMMA LoadKeeps ==
  ASSUME RowsInv, LoadKnown \/ LoadFails
  PROVE  RowsInv'
<1>0. capture.left # <<>> /\ UNCHANGED sessionRows
  BY DEF LoadKnown, LoadFails
<1>1. capture \in Captures /\ UNCHANGED sessionRows
  BY <1>0 DEF RowsInv, NoCapture
<1>2. CASE LoadKnown
  <2> DEFINE e == capture.execution
             g == capture.generation
  <2>1. PICK known \in Known(e, g, capture.kind) :
          capture' = [capture EXCEPT !.known = known,
            !.sight = IF Cardinality(Session(e, g, "checkpoint")) <= Recent THEN "all" ELSE "part"]
    BY <1>2 DEF LoadKnown
  <2>2. known \subseteq Message
    BY KnownTyped
  <2>3. /\ capture' \in Captures /\ capture'.known = known
        /\ capture'.execution = e /\ capture'.generation = g
        /\ capture'.sight = "all" => Cardinality(Session(e, g, "checkpoint")) <= Recent
    BY <1>1, <2>1, <2>2 DEF Captures, Sight
  <2> HIDE DEF e, g
  <2>4. \A k : k \in Session(e, g, "checkpoint") /\ capture'.sight = "all" =>
          sessionRows[k].message \in known
    BY <2>3, KnownIsAll
  <2>5. Session(e, g, "checkpoint")' = Session(e, g, "checkpoint")
    BY <1>1, <2>3 DEF Session, e, g
  <2> QED
    BY <1>1, <2>3, <2>4 DEF RowsInv, RowsOnce, Knows, Session
<1>3. CASE LoadFails
  <2>1. capture' \in Captures /\ capture'.sight = "part"
    BY <1>1, <1>3 DEF LoadFails, Captures, Sight
  <2> QED
    BY <1>1, <2>1 DEF RowsInv, RowsOnce, Knows
<1> QED
  BY <1>2, <1>3

LEMMA CaptureKeeps == ASSUME RowsInv, Capture PROVE RowsInv'
<1> DEFINE m == Head(capture.left)
           row == [execution |-> capture.execution, generation |-> capture.generation,
                   kind |-> capture.kind, message |-> m, sighted |-> capture.sight = "all"]
<1>1. capture \in Captures /\ capture.left # <<>>
  BY DEF Capture, RowsInv, NoCapture
<1>2. /\ capture.left \in Seq(Message) /\ capture.kind \in SessionKind
      /\ capture.execution \in Execution /\ capture.generation \in Generation
      /\ capture.known \subseteq Message /\ capture.sight \in Sight
  BY <1>1 DEF Captures
<1>3. m \in Message /\ Tail(capture.left) \in Seq(Message)
  BY <1>1, <1>2
<1> HIDE DEF m
<1>4. PICK known : /\ known \subseteq Message /\ capture.known \subseteq known
                   /\ capture' = [capture EXCEPT !.left = Tail(@), !.known = known]
                   /\ \/ UNCHANGED sessionRows
                      \/ /\ m \notin capture.known /\ m \in known
                         /\ sessionRows' = Append(sessionRows, row)
  <2>1. CASE /\ m \notin capture.known /\ RecordRow(row)
             /\ capture' = [[capture EXCEPT !.left = Tail(@)] EXCEPT !.known = @ \cup {m}]
    <3>1. capture' = [capture EXCEPT !.left = Tail(@), !.known = capture.known \cup {m}]
      BY <2>1, <1>1 DEF Captures
    <3> QED
      BY <2>1, <3>1, <1>2, <1>3 DEF RecordRow
  <2>2. CASE capture' = [capture EXCEPT !.left = Tail(@)] /\ UNCHANGED sessionRows
    <3>1. capture' = [capture EXCEPT !.left = Tail(@), !.known = capture.known]
      BY <2>2, <1>1 DEF Captures
    <3> QED
      BY <2>2, <3>1, <1>2
  <2> QED
    BY <2>1, <2>2 DEF Capture, m
<1>5. /\ capture' \in Captures /\ capture'.known = known /\ capture'.sight = capture.sight
      /\ capture'.execution = capture.execution /\ capture'.generation = capture.generation
  BY <1>1, <1>2, <1>3, <1>4 DEF Captures
<1>6. CASE UNCHANGED sessionRows
  BY <1>4, <1>5, <1>6 DEF RowsInv, RowsOnce, Knows, Session
<1>7. CASE /\ m \notin capture.known /\ m \in known
           /\ sessionRows' = Append(sessionRows, row)
  <2>1. /\ row \in SessionRow /\ row.execution = capture.execution /\ row.message = m
        /\ row.generation = capture.generation /\ row.sighted = (capture.sight = "all")
    BY <1>2, <1>3 DEF SessionRow
  <2> HIDE DEF row
  <2>2. /\ sessionRows' \in Seq(SessionRow) /\ Len(sessionRows) \in Nat
        /\ Len(sessionRows') = Len(sessionRows) + 1
        /\ sessionRows'[Len(sessionRows) + 1] = row
        /\ \A i \in 1..Len(sessionRows) : sessionRows'[i] = sessionRows[i]
    BY <1>7, <2>1 DEF RowsInv
  <2>3. \A i \in 1..Len(sessionRows') : i = Len(sessionRows) + 1 \/ i \in 1..Len(sessionRows)
    BY <2>2
  <2>4. Knows'
    <3> SUFFICES ASSUME capture'.sight = "all", NEW i \in 1..Len(sessionRows'),
                        sessionRows'[i].execution = capture'.execution,
                        sessionRows'[i].generation = capture'.generation,
                        sessionRows'[i].kind = "checkpoint"
                 PROVE  sessionRows'[i].message \in capture'.known
      BY DEF Knows, Session
    <3>1. CASE i = Len(sessionRows) + 1
      BY <3>1, <1>5, <1>7, <2>1, <2>2
    <3>2. CASE i \in 1..Len(sessionRows)
      BY <3>2, <1>4, <1>5, <2>2 DEF RowsInv, Knows, Session
    <3> QED
      BY <2>3, <3>1, <3>2
  <2>5. RowsOnce'
    <3> SUFFICES ASSUME NEW i \in 1..Len(sessionRows'), NEW j \in 1..Len(sessionRows'), i < j,
                        sessionRows'[i].execution = sessionRows'[j].execution,
                        sessionRows'[i].generation = sessionRows'[j].generation,
                        sessionRows'[i].message = sessionRows'[j].message,
                        sessionRows'[i].kind = "checkpoint"
                 PROVE  ~sessionRows'[j].sighted
      BY DEF RowsOnce
    <3>1. i \in 1..Len(sessionRows) /\ sessionRows'[i] = sessionRows[i]
      BY <2>2, <2>3
    <3>2. CASE j \in 1..Len(sessionRows)
      BY <3>1, <3>2, <2>2 DEF RowsInv, RowsOnce
    <3>3. CASE j = Len(sessionRows) + 1
      <4> SUFFICES ASSUME sessionRows'[j].sighted PROVE FALSE
        OBVIOUS
      <4>1. sessionRows'[j] = row
        BY <3>3, <2>2
      <4>2. /\ sessionRows[i].execution = capture.execution /\ sessionRows[i].message = m
            /\ sessionRows[i].generation = capture.generation
            /\ sessionRows[i].kind = "checkpoint" /\ capture.sight = "all"
        BY <3>1, <4>1, <2>1
      <4> QED
        BY <3>1, <4>2, <1>7 DEF RowsInv, Knows, Session
    <3> QED
      BY <2>3, <3>2, <3>3
  <2> QED
    BY <1>5, <2>2, <2>4, <2>5 DEF RowsInv
<1> QED
  BY <1>4, <1>6, <1>7

LEMMA PruneKeeps == ASSUME RowsInv, PruneRow PROVE RowsInv'
<1>1. PICK k \in 1..Len(sessionRows) :
        sessionRows' = SubSeq(sessionRows, 1, k - 1) \o SubSeq(sessionRows, k + 1, Len(sessionRows))
  BY DEF PruneRow
<1>2. Len(sessionRows) \in Nat /\ sessionRows \in Seq(SessionRow)
  BY DEF RowsInv
<1> DEFINE from(i) == IF i < k THEN i ELSE i + 1
<1>3. /\ sessionRows' \in Seq(SessionRow) /\ Len(sessionRows') = Len(sessionRows) - 1
      /\ \A i \in 1..Len(sessionRows) - 1 : sessionRows'[i] = sessionRows[from(i)]
  <2> DEFINE a == SubSeq(sessionRows, 1, k - 1)
             b == SubSeq(sessionRows, k + 1, Len(sessionRows))
  <2>1. /\ a \in Seq(SessionRow) /\ Len(a) = k - 1 /\ \A i \in 1..(k - 1) : a[i] = sessionRows[i]
    BY <1>2
  <2>2. /\ b \in Seq(SessionRow) /\ Len(b) = Len(sessionRows) - k
        /\ \A i \in 1..(Len(sessionRows) - k) : b[i] = sessionRows[k + i]
    BY <1>2
  <2>3. sessionRows' = a \o b
    BY <1>1
  <2> HIDE DEF a, b
  <2>4. /\ sessionRows' \in Seq(SessionRow) /\ Len(sessionRows') = Len(a) + Len(b)
        /\ \A i \in 1..Len(a) + Len(b) :
             sessionRows'[i] = IF i <= Len(a) THEN a[i] ELSE b[i - Len(a)]
    BY <2>1, <2>2, <2>3, ConcatProperties
  <2>5. ASSUME NEW i \in 1..Len(sessionRows) - 1 PROVE sessionRows'[i] = sessionRows[from(i)]
    <3>0. Len(a) = k - 1 /\ Len(b) = Len(sessionRows) - k /\ i \in 1..Len(a) + Len(b) /\ k \in Nat
      BY <1>2, <2>1, <2>2
    <3>1. CASE i < k
      <4>1. i <= Len(a) /\ i \in 1..(k - 1)
        BY <3>0, <3>1
      <4> QED
        BY <4>1, <3>0, <3>1, <2>1, <2>4
    <3>2. CASE ~(i < k)
      <4>1. ~(i <= Len(a)) /\ i - Len(a) \in 1..(Len(sessionRows) - k) /\ k + (i - Len(a)) = i + 1
        BY <1>2, <3>0, <3>2
      <4> QED
        BY <4>1, <3>0, <3>2, <2>2, <2>4
    <3> QED
      BY <3>1, <3>2
  <2> HIDE DEF from
  <2>6. Len(sessionRows') = Len(sessionRows) - 1
    BY <1>2, <2>1, <2>2, <2>4
  <2> QED
    BY <2>4, <2>5, <2>6
<1>4. \A i \in 1..Len(sessionRows') : from(i) \in 1..Len(sessionRows) /\ sessionRows'[i] = sessionRows[from(i)]
  BY <1>2, <1>3
<1>5. \A i, j \in 1..Len(sessionRows') : i < j => from(i) < from(j)
  BY <1>2, <1>3
<1>6. UNCHANGED capture
  BY DEF PruneRow
<1> HIDE DEF from
<1>7. RowsOnce'
  <2> SUFFICES ASSUME NEW i \in 1..Len(sessionRows'), NEW j \in 1..Len(sessionRows'), i < j,
                      sessionRows'[i].execution = sessionRows'[j].execution,
                      sessionRows'[i].generation = sessionRows'[j].generation,
                      sessionRows'[i].message = sessionRows'[j].message,
                      sessionRows'[i].kind = "checkpoint"
               PROVE  ~sessionRows'[j].sighted
    BY DEF RowsOnce
  <2>1. /\ from(i) \in 1..Len(sessionRows) /\ sessionRows'[i] = sessionRows[from(i)]
        /\ from(j) \in 1..Len(sessionRows) /\ sessionRows'[j] = sessionRows[from(j)]
        /\ from(i) < from(j)
    BY <1>4, <1>5
  <2> QED
    BY <2>1 DEF RowsInv, RowsOnce
<1>8. Knows'
  BY <1>4, <1>6 DEF RowsInv, Knows, Session
<1> QED
  BY <1>3, <1>6, <1>7, <1>8 DEF RowsInv

(* The window *)

LEMMA SinkBounds ==
  ASSUME CaptureAssumption
  PROVE  SinkWindow \in Nat \ {0} /\ SinkTtl \in Nat \ {0} /\ MaxSinkTime \in Nat
BY DEF CaptureAssumption

LEMMA EntryTimes ==
  ASSUME CaptureAssumption, NEW s \in Seq(Entry), NEW i \in 1..Len(s)
  PROVE  s[i] \in Entry /\ s[i].time \in Int /\ Len(s) \in Nat
<1>1. s[i] \in Entry /\ Len(s) \in Nat
  OBVIOUS
<1>2. MaxSinkTime \in Nat
  BY DEF CaptureAssumption
<1> QED
  BY <1>1, <1>2 DEF Entry

\* The first of some positions.
LEMMA FirstThere ==
  ASSUME NEW S, S \subseteq Nat, S # {}
  PROVE  \E x \in S : \A y \in S : x <= y
<1> DEFINE R == OpToRel(<, Nat)
<1>1. IsWellFoundedOn(R, Nat)
  BY NatLessThanWellFounded DEF OpToRel
<1>2. ASSUME NEW a \in Nat, NEW b \in Nat, a < b PROVE <<a, b>> \in R
  <2>1. <<a, b>> \in Nat \X Nat /\ <<a, b>>[1] = a /\ <<a, b>>[2] = b
    OBVIOUS
  <2> QED
    BY <1>2, <2>1 DEF OpToRel
<1> HIDE DEF R
<1>3. PICK x \in S : \A y \in S : <<y, x>> \notin R
  BY <1>1, WFMin
<1>4. ASSUME NEW y \in S PROVE x <= y
  <2>1. x \in Nat /\ y \in Nat /\ <<y, x>> \notin R
    BY <1>3
  <2>2. ~(y < x)
    BY ONLY <2>1, <1>2
  <2> QED
    BY ONLY <2>1, <2>2
<1> QED
  BY <1>4

\* What eviction leaves of the window: its end, of which nothing was lost that still counts.
LEMMA Evicts ==
  ASSUME CaptureAssumption, WindowInv
  PROVE  /\ CurrentEvents \in Seq(Entry) /\ Len(CurrentEvents) <= Len(seenEvents)
         /\ \A i \in 1..Len(CurrentEvents) :
              CurrentEvents[i] = counted[Len(counted) - Len(CurrentEvents) + i]
         /\ \A i \in 1..(Len(counted) - Len(CurrentEvents)) :
              sinkTime - counted[i].time > SinkTtl \/ Len(counted) + 1 - i > SinkWindow
<1> DEFINE current == {i \in 1..Len(seenEvents) : sinkTime - seenEvents[i].time <= SinkTtl}
<1>1. /\ seenEvents \in Seq(Entry) /\ counted \in Seq(Entry) /\ Len(seenEvents) \in Nat
      /\ Len(counted) \in Nat /\ Len(seenEvents) <= Len(counted) /\ sinkTime \in Int
  BY SinkBounds DEF WindowInv, Shift
<1>2. \A i \in 1..Len(seenEvents) : i \notin current =>
        sinkTime - counted[Shift + i].time > SinkTtl
  <2> SUFFICES ASSUME NEW i \in 1..Len(seenEvents), i \notin current
               PROVE  sinkTime - counted[Shift + i].time > SinkTtl
    OBVIOUS
  <2>1. seenEvents[i] = counted[Shift + i]
    BY DEF WindowInv
  <2>2. seenEvents[i].time \in Int /\ ~(sinkTime - seenEvents[i].time <= SinkTtl)
    BY <1>1, EntryTimes
  <2> QED
    BY <1>1, <2>1, <2>2, SinkBounds
<1>3. CASE current = {}
  <2>1. CurrentEvents = <<>>
    BY <1>3 DEF CurrentEvents
  <2>2. \A i \in 1..Len(counted) :
          sinkTime - counted[i].time > SinkTtl \/ Len(counted) + 1 - i > SinkWindow
    <3> SUFFICES ASSUME NEW i \in 1..Len(counted), i > Shift
                 PROVE  sinkTime - counted[i].time > SinkTtl
      BY <1>1 DEF WindowInv, Shift
    <3>1. i - Shift \in 1..Len(seenEvents) /\ Shift + (i - Shift) = i
      BY <1>1 DEF Shift
    <3> QED
      BY <3>1, <1>2, <1>3
  <2> QED
    BY <1>1, <2>1, <2>2
<1>4. CASE current # {}
  <2> DEFINE first == CHOOSE i \in current : \A j \in current : i <= j
  <2>1. first \in current /\ \A j \in current : first <= j
    <3>1. current \subseteq Nat
      BY <1>1
    <3> HIDE DEF current
    <3> QED
      BY <1>4, <3>1, FirstThere
  <2>2. CurrentEvents = SubSeq(seenEvents, first, Len(seenEvents))
    BY <1>4 DEF CurrentEvents
  <2>3. first \in 1..Len(seenEvents)
    BY <2>1
  <2>4. \A i \in 1..(first - 1) : i \notin current
    <3> HIDE DEF current, first
    <3> SUFFICES ASSUME NEW i \in 1..(first - 1), i \in current PROVE FALSE
      OBVIOUS
    <3>1. first <= i
      BY <2>1
    <3> QED
      BY <3>1, <1>1, <2>3
  <2> HIDE DEF first
  <2>5. /\ CurrentEvents \in Seq(Entry) /\ Len(CurrentEvents) = Len(seenEvents) - first + 1
        /\ \A i \in 1..(Len(seenEvents) - first + 1) : CurrentEvents[i] = seenEvents[first + i - 1]
    BY <1>1, <2>2, <2>3
  <2>6. ASSUME NEW i \in 1..Len(CurrentEvents)
        PROVE  CurrentEvents[i] = counted[Len(counted) - Len(CurrentEvents) + i]
    <3>1. first + i - 1 \in 1..Len(seenEvents) /\ CurrentEvents[i] = seenEvents[first + i - 1]
      BY <1>1, <2>3, <2>5
    <3>2. Shift + (first + i - 1) = Len(counted) - Len(CurrentEvents) + i
      BY <1>1, <2>3, <2>5 DEF Shift
    <3>3. seenEvents[first + i - 1] = counted[Shift + (first + i - 1)]
      BY <3>1 DEF WindowInv
    <3> QED
      BY <3>1, <3>2, <3>3
  <2>7. ASSUME NEW i \in 1..(Len(counted) - Len(CurrentEvents))
        PROVE  sinkTime - counted[i].time > SinkTtl \/ Len(counted) + 1 - i > SinkWindow
    <3>1. CASE i <= Shift
      BY <3>1, <1>1 DEF WindowInv, Shift
    <3>2. CASE i > Shift
      <4>1. i - Shift \in 1..(first - 1) /\ Shift + (i - Shift) = i /\ i - Shift \in 1..Len(seenEvents)
        BY <3>2, <1>1, <2>3, <2>5 DEF Shift
      <4> QED
        BY <4>1, <1>2, <2>4
    <3> QED
      BY <3>1, <3>2, <1>1 DEF Shift
  <2> QED
    BY <1>1, <2>3, <2>5, <2>6, <2>7
<1> QED
  BY <1>3, <1>4

LEMMA ObserveKeeps ==
  ASSUME CaptureAssumption, WindowInv, NEW v \in Event, Observe(v)
  PROVE  WindowInv'
<1> DEFINE w == CurrentEvents
           entry == [event |-> v, time |-> sinkTime]
           n == Len(counted)
<1>1. /\ counted \in Seq(Entry) /\ n \in Nat /\ w \in Seq(Entry) /\ Len(w) \in Nat /\ Len(w) <= n
      /\ \A i \in 1..Len(w) : w[i] = counted[n - Len(w) + i]
      /\ \A i \in 1..(n - Len(w)) :
           sinkTime - counted[i].time > SinkTtl \/ n + 1 - i > SinkWindow
      /\ sinkTime \in 0..MaxSinkTime /\ sinkTime' = sinkTime
  <2>1. /\ counted \in Seq(Entry) /\ n \in Nat /\ Len(seenEvents) \in Nat /\ Len(seenEvents) <= n
        /\ sinkTime \in 0..MaxSinkTime
    BY DEF WindowInv, Shift
  <2>2. sinkTime' = sinkTime
    BY DEF Observe
  <2>3. /\ w \in Seq(Entry) /\ Len(w) <= Len(seenEvents)
        /\ \A i \in 1..Len(w) : w[i] = counted[n - Len(w) + i]
        /\ \A i \in 1..(n - Len(w)) :
             sinkTime - counted[i].time > SinkTtl \/ n + 1 - i > SinkWindow
    BY Evicts
  <2> HIDE DEF w, n
  <2>4. Len(w) \in Nat /\ Len(w) <= n
    BY <2>1, <2>3
  <2> QED
    BY <2>1, <2>2, <2>3, <2>4 DEF n
<1>2. CASE seenEvents' = w /\ counted' = counted
  <2> HIDE DEF w
  <2>1. CountedOnce' /\ sinkTime' \in 0..MaxSinkTime
    BY <1>1, <1>2 DEF WindowInv, CountedOnce
  <2>2. Shift' = n - Len(w) /\ Shift' >= 0
    BY <1>1, <1>2 DEF Shift
  <2> QED
    BY <1>1, <1>2, <2>1, <2>2 DEF WindowInv
<1>3. CASE /\ \A i \in 1..Len(w) : w[i].event # v
           /\ seenEvents' = (IF Len(Append(w, entry)) > SinkWindow THEN Tail(Append(w, entry))
                             ELSE Append(w, entry))
           /\ counted' = Append(counted, entry)
  <2>1. entry \in Entry /\ entry.event = v /\ entry.time = sinkTime
    BY <1>1 DEF Entry
  <2> HIDE DEF entry, w
  <2>2. /\ counted' \in Seq(Entry) /\ Len(counted') = n + 1 /\ counted'[n + 1] = entry
        /\ \A i \in 1..n : counted'[i] = counted[i]
    BY <1>1, <1>3, <2>1
  <2> DEFINE x == Append(w, entry)
  <2>3. /\ x \in Seq(Entry) /\ Len(x) = Len(w) + 1 /\ x[Len(w) + 1] = entry
        /\ \A i \in 1..Len(w) : x[i] = w[i]
    BY <1>1, <2>1
  <2>4. \A i \in 1..Len(x) : x[i] = counted'[n + 1 - Len(x) + i]
    <3> SUFFICES ASSUME NEW i \in 1..Len(x) PROVE x[i] = counted'[n + 1 - Len(x) + i]
      OBVIOUS
    <3>1. CASE i = Len(w) + 1
      BY <3>1, <1>1, <2>2, <2>3
    <3>2. CASE i \in 1..Len(w)
      <4>1. n - Len(w) + i \in 1..n /\ n + 1 - Len(x) + i = n - Len(w) + i
        BY <3>2, <1>1, <2>3
      <4>2. x[i] = counted[n - Len(w) + i]
        BY <3>2, <1>1, <2>3
      <4> QED
        BY <4>1, <4>2, <2>2
    <3> QED
      BY <3>1, <3>2, <1>1, <2>3
  <2> HIDE DEF x
  <2>5. /\ seenEvents' \in Seq(Entry) /\ Len(seenEvents') <= n + 1 /\ Len(seenEvents') \in Nat
        /\ \A i \in 1..Len(seenEvents') : seenEvents'[i] = counted'[n + 1 - Len(seenEvents') + i]
        /\ \/ Len(seenEvents') = Len(w) + 1
           \/ Len(seenEvents') = Len(w) /\ Len(w) + 1 > SinkWindow
    <3>1. CASE Len(x) > SinkWindow
      <4>1. seenEvents' = Tail(x)
        BY <1>3, <3>1 DEF x
      <4>2. /\ Tail(x) \in Seq(Entry) /\ Len(Tail(x)) = Len(x) - 1
            /\ \A i \in 1..(Len(x) - 1) : Tail(x)[i] = x[i + 1]
        BY <1>1, <2>3
      <4>3. \A i \in 1..(Len(x) - 1) : Tail(x)[i] = counted'[n + 1 - (Len(x) - 1) + i]
        <5> SUFFICES ASSUME NEW i \in 1..(Len(x) - 1)
                     PROVE  Tail(x)[i] = counted'[n + 1 - (Len(x) - 1) + i]
          OBVIOUS
        <5>1. i + 1 \in 1..Len(x) /\ n + 1 - Len(x) + (i + 1) = n + 1 - (Len(x) - 1) + i
          BY <1>1, <2>3
        <5> QED
          BY <5>1, <2>4, <4>2
      <4>4. Len(x) - 1 = Len(w) /\ Len(w) + 1 > SinkWindow
        BY <3>1, <1>1, <2>3
      <4>5. Len(seenEvents') = Len(w) /\ seenEvents' \in Seq(Entry)
        BY <4>1, <4>2, <4>4
      <4>6. \A i \in 1..Len(seenEvents') : seenEvents'[i] = counted'[n + 1 - Len(seenEvents') + i]
        BY <4>1, <4>3, <4>4, <4>5
      <4> QED
        BY <4>4, <4>5, <4>6, <1>1
    <3>2. CASE ~(Len(x) > SinkWindow)
      <4>1. seenEvents' = x
        BY <1>3, <3>2 DEF x
      <4> QED
        BY <4>1, <1>1, <2>3, <2>4
    <3> QED
      BY <3>1, <3>2
  <2>6. \A i \in 1..(n + 1 - Len(seenEvents')) :
          sinkTime' - counted'[i].time > SinkTtl \/ Len(counted') + 1 - i > SinkWindow
    <3> SUFFICES ASSUME NEW i \in 1..(n + 1 - Len(seenEvents'))
                 PROVE  sinkTime' - counted'[i].time > SinkTtl \/ Len(counted') + 1 - i > SinkWindow
      OBVIOUS
    <3>0. SinkWindow \in Nat \ {0}
      BY SinkBounds
    <3>1. CASE i \in 1..(n - Len(w))
      <4>1. counted'[i] = counted[i]
        BY <3>1, <1>1, <2>2
      <4>2. sinkTime - counted[i].time > SinkTtl \/ n + 1 - i > SinkWindow
        BY <3>1, <1>1
      <4> QED
        BY <3>0, <3>1, <4>1, <4>2, <1>1, <2>2
    <3>2. CASE i = n + 1 - Len(w) /\ Len(w) + 1 > SinkWindow
      BY <3>0, <3>2, <1>1, <2>2
    <3>3. i \in 1..(n - Len(w)) \/ (i = n + 1 - Len(w) /\ Len(w) + 1 > SinkWindow)
      <4>1. n \in Nat /\ Len(w) \in Nat /\ Len(w) <= n
        BY <1>1
      <4>2. CASE Len(seenEvents') = Len(w) + 1
        BY <4>1, <4>2
      <4>3. CASE Len(seenEvents') = Len(w) /\ Len(w) + 1 > SinkWindow
        BY <4>1, <4>3
      <4> QED
        BY <2>5, <4>2, <4>3
    <3> QED
      BY <3>1, <3>2, <3>3
  <2>7. CountedOnce'
    <3> SUFFICES ASSUME NEW i \in 1..Len(counted'), NEW j \in 1..Len(counted'), i < j,
                        counted'[i].event = counted'[j].event
                 PROVE  counted'[j].time - counted'[i].time > SinkTtl \/ j - i > SinkWindow
      BY DEF CountedOnce
    <3>1. i \in 1..n /\ counted'[i] = counted[i]
      BY <1>1, <2>2
    <3>2. CASE j \in 1..n
      BY <3>1, <3>2, <2>2 DEF WindowInv, CountedOnce
    <3>3. CASE j = n + 1
      <4>1. counted'[j].time = sinkTime /\ counted[i].event = v
        BY <3>1, <3>3, <2>1, <2>2
      <4>2. i \in 1..(n - Len(w))
        <5> SUFFICES ASSUME i > n - Len(w) PROVE FALSE
          BY <1>1, <3>1
        <5>1. i - (n - Len(w)) \in 1..Len(w) /\ n - Len(w) + (i - (n - Len(w))) = i
          BY <1>1, <3>1
        <5> QED
          BY <5>1, <4>1, <1>1, <1>3
      <4> QED
        BY <1>1, <3>1, <3>3, <4>1, <4>2
    <3>4. j \in 1..n \/ j = n + 1
      <4>1. n \in Nat /\ j \in 1..(n + 1)
        BY <1>1, <2>2
      <4> QED
        BY ONLY <4>1
    <3> QED
      BY <3>2, <3>3, <3>4
  <2> QED
    BY <1>1, <2>2, <2>5, <2>6, <2>7 DEF WindowInv, Shift
<1> QED
  BY <1>2, <1>3 DEF Observe

\* Time passes, or the service dies and its window with it.
LEMMA SinkKeeps ==
  ASSUME CaptureAssumption, WindowInv, SinkTick \/ CaptureDies \/ UNCHANGED sinkVars
  PROVE  WindowInv'
<1>1. CASE SinkTick
  <2>1. sinkTime' = sinkTime + 1 /\ sinkTime' \in 0..MaxSinkTime /\ UNCHANGED <<seenEvents, counted>>
    BY <1>1, SinkBounds DEF SinkTick, WindowInv
  <2>2. \A i \in 1..Shift :
          sinkTime' - counted[i].time > SinkTtl \/ Len(counted) + 1 - i > SinkWindow
    <3> SUFFICES ASSUME NEW i \in 1..Shift
                 PROVE  sinkTime' - counted[i].time > SinkTtl \/ Len(counted) + 1 - i > SinkWindow
      OBVIOUS
    <3>1. i \in 1..Len(counted)
      BY DEF WindowInv, Shift
    <3>2. counted[i].time \in Int /\ sinkTime \in Int /\ SinkTtl \in Int
      BY <3>1, EntryTimes, SinkBounds DEF WindowInv
    <3>3. sinkTime - counted[i].time > SinkTtl \/ Len(counted) + 1 - i > SinkWindow
      BY DEF WindowInv
    <3> QED
      BY <2>1, <3>2, <3>3
  <2> QED
    BY <2>1, <2>2 DEF WindowInv, Shift, CountedOnce
<1>2. CASE CaptureDies
  BY <1>2 DEF CaptureDies, WindowInv, Shift, CountedOnce
<1>3. CASE UNCHANGED sinkVars
  BY <1>3 DEF sinkVars, WindowInv, Shift, CountedOnce
<1> QED
  BY <1>1, <1>2, <1>3

LEMMA RowsStay ==
  ASSUME RowsInv, UNCHANGED sessionRows, capture' = capture \/ capture' = NoCapture
  PROVE  RowsInv'
BY DEF RowsInv, RowsOnce, Knows, NoCapture, Session

\* For every number of executions, generations, messages, checkpoints, deaths and reads
\* that fail: what is among the checkpoints of an execution is recorded again only by a
\* capture that did not see all of them, and an event that is counted again is over or
\* had a window of others after it.
THEOREM NothingCapturedTwice ==
  ASSUME CaptureAssumption
  PROVE  CaptureSpec => []CapturedOnce
<1>1. CaptureInit => CaptureInv
  BY SinkBounds DEF CaptureInit, CaptureInv, RowsInv, WindowInv, RowsOnce, Knows, NoCapture, Shift,
                    CountedOnce
<1>2. CaptureInv /\ [CaptureNext]_captureVars => CaptureInv'
  <2> SUFFICES ASSUME CaptureInv, [CaptureNext]_captureVars PROVE CaptureInv'
    OBVIOUS
  <2> USE DEF CaptureInv
  <2>1. ASSUME NEW e \in Execution, NEW g \in Generation, Checkpoint(e, g) \/ CompleteTurn(e, g)
        PROVE  CaptureInv'
    <3>1. UNCHANGED <<sessionRows, sinkVars>>
      BY <2>1 DEF Checkpoint, CompleteTurn
    <3>2. Len(Spoken[e]) \in Nat
      BY DEF CaptureAssumption
    <3>3. PICK kind \in SessionKind, n \in 0..Len(Spoken[e]) : BeginCapture(e, g, kind, n)
      BY <2>1, <3>2 DEF Checkpoint, CompleteTurn, SessionKind
    <3> QED
      BY <3>1, <3>3, BeginKeeps, SinkKeeps
  <2>2. CASE LoadKnown \/ LoadFails \/ Capture
    <3>1. UNCHANGED sinkVars
      BY <2>2 DEF LoadKnown, LoadFails, Capture
    <3> QED
      BY <2>2, <3>1, LoadKeeps, CaptureKeeps, SinkKeeps
  <2>3. CASE PruneRow
    <3>1. UNCHANGED sinkVars
      BY <2>3 DEF PruneRow
    <3> QED
      BY <2>3, <3>1, PruneKeeps, SinkKeeps
  <2>4. CASE CaptureAnswered \/ CaptureDies \/ SinkTick \/ UNCHANGED captureVars
    <3>1. UNCHANGED sessionRows /\ (capture' = capture \/ capture' = NoCapture)
      BY <2>4 DEF CaptureAnswered, CaptureDies, SinkTick, captureVars
    <3>2. SinkTick \/ CaptureDies \/ UNCHANGED sinkVars
      BY <2>4 DEF CaptureAnswered, captureVars
    <3> QED
      BY <3>1, <3>2, RowsStay, SinkKeeps
  <2>5. ASSUME NEW v \in Event, Observe(v) PROVE CaptureInv'
    <3>1. UNCHANGED <<sessionRows, capture>>
      BY <2>5 DEF Observe
    <3> QED
      BY <2>5, <3>1, RowsStay, ObserveKeeps
  <2> QED
    BY <2>1, <2>2, <2>3, <2>4, <2>5 DEF CaptureNext
<1>3. CaptureInv => CapturedOnce
  BY DEF CaptureInv, RowsInv, WindowInv, RowsOnce, CountedOnce, CapturedOnce
<1> QED
  BY <1>1, <1>2, <1>3, PTL DEF CaptureSpec

=============================================================================
