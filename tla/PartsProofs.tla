----------------------------- MODULE PartsProofs -----------------------------
(* Proofs about nine components that share no state, each checked for every   *)
(* value of its constants: an inductive invariant of the component, that its  *)
(* steps keep it (a lemma for each action), and that the property a run       *)
(* checks follows from it.                                                    *)
EXTENDS SecretKeyRotation, LocalTransport, OperationalMemory, DreamQuestions, McpHost, SleepBudget,
        SleepCoordinator, NativeGroup, StorageBoot, FiniteSetTheorems, SequenceTheorems, TLAPS

------------------------------------------------------------------------------
(* The rotation of the secret key: SecretKeyRotation.                       *)

\* What the proof asks of the commands: only `passwd` runs, and not beside the
\* service.  Without either, TLC finds KeyOpensAll violated.
RotationAlone == Kinds \subseteq {"passwd"} /\ ~Together

Recovering == {"recover", "key", "gen", "files", "journal", "drop", "dropFiles"}
Staging == {"stageFiles", "stageKey", "stageGen", "write"}
Staged == {"stageKey", "stageGen", "write", "commit"}

RotationRecord ==
  [kind : {"none", "passwd"}, old : SecretKey \cup {Unset}, new : SecretKey \cup {Unset},
   rows : SUBSET SecretRow, files : SUBSET File, gen : 0..MaxGeneration]

\* One of the two processes is at rest.
Places ==
  /\ doing["service"] \in {"down", "up"} \cup Recovering
  /\ doing["command"] \in {"idle", "commit"} \cup Recovering \cup Staging
  /\ doing["command"] = "idle" \/ doing["service"] = "down"

RotationTypes == RotationTypeOK /\ rotation \in RotationRecord /\ Places

\* The key on disk is of the generation of the database and opens everything.
Whole ==
  /\ keyGen = dbGen
  /\ \A r \in SecretRow : sealed[r] \in {Unset, key}
  /\ \A f \in File : file[f] = key

\* The same of what there is once the stage is promoted.
Either(s, x) == IF s # Unset THEN s ELSE x
NewKey == Either(staged.key, key)
Promised ==
  /\ Either(staged.gen, keyGen) = dbGen
  /\ \A r \in SecretRow : sealed[r] \in {Unset, NewKey}
  /\ \A f \in File : Either(staged.file[f], file[f]) = NewKey

\* What a journal says of the transaction that it goes with.
Committed == journal # NoJournal /\ dbGen = journal.gen
Uncommitted == journal # NoJournal /\ dbGen = journal.gen - 1

Journalled ==
  /\ journal # NoJournal => journal.files = File /\ (Committed \/ Uncommitted)
  /\ ~Committed => Whole
  /\ Committed => Promised

\* How far a promotion or a removal of the stage has come.
Promoting ==
  \A p \in Process :
    /\ doing[p] \in {"key", "gen", "files"} => Committed
    /\ doing[p] \in {"gen", "files"} => staged.key = Unset
    /\ doing[p] = "files" => staged.gen = Unset
    /\ doing[p] \in {"drop", "dropFiles"} => Uncommitted
    /\ doing[p] = "journal" => journal # NoJournal /\ Whole

\* A service that is up has the key on disk, or none.
Serving ==
  /\ doing["service"] = "up" => journal = NoJournal /\ cached \in {Unset, key}
  /\ doing["service"] # "up" => cached = Unset

\* How far a rotation has come.
RotationGoes ==
  /\ doing["command"] # "idle" => rotation.kind = "passwd" /\ rotation.new # Unset
  /\ doing["command"] # "idle" /\ (rotation.gen = Unset \/ doing["command"] \in Staged) =>
       dbGen < MaxGeneration /\ rotation.rows = {r \in SecretRow : sealed[r] # Unset}
  /\ doing["command"] \in Staging => journal = NoJournal
  /\ doing["command"] \in {"recover", "stageFiles"} => rotation.gen = Unset
  /\ doing["command"] \in Staged =>
       rotation.gen = dbGen + 1 /\ \A f \in File : staged.file[f] = rotation.new
  /\ doing["command"] # "idle" /\ rotation.gen # Unset => rotation.files = File
  /\ doing["command"] \in {"stageGen", "write", "commit"} => staged.key = rotation.new
  /\ doing["command"] \in {"write", "commit"} => staged.gen = rotation.gen
  /\ doing["command"] = "commit" => journal = [gen |-> rotation.gen, files |-> rotation.files]

RotationInv == RotationTypes /\ Journalled /\ Promoting /\ Serving /\ RotationGoes

LEMMA RotationInvIsEnough == RotationInv => KeyOpensAll
BY DEF RotationInv, KeyOpensAll, AtRest, Journalled, Committed, Whole

LEMMA RotationInitInv == RotationInit => RotationInv
<1> SUFFICES ASSUME RotationInit PROVE RotationInv
  OBVIOUS
<1>1. RotationTypes
  BY RotationAssumption DEF RotationInit, RotationTypes, RotationTypeOK, RotationRecord, Places,
     Process, Doing, NoStage, NoJournal, NoRotation, Unset
<1>2. Journalled
  BY DEF RotationInit, Journalled, Committed, Whole
<1>3. Promoting /\ Serving /\ RotationGoes
  BY DEF RotationInit, Promoting, Process, Serving, RotationGoes, Staged
<1> QED
  BY <1>1, <1>2, <1>3 DEF RotationInv

LEMMA RecoverInv == ASSUME RotationInv, NEW p \in Process, Recover(p) PROVE RotationInv'
<1> USE DEF RotationInv
<1>1. RotationTypes'
  BY DEF RotationTypes, RotationTypeOK, Places, Process, Doing, Recovering, Staging, Recover, Goto,
     Done, disk, material, Journalled, Committed, Uncommitted
<1>2. Journalled'
  BY DEF Journalled, Committed, Uncommitted, Whole, Promised, NewKey, Recover, disk, material
<1>3. Promoting'
  BY DEF RotationTypes, RotationTypeOK, Promoting, Recover, Goto, disk, material, Journalled,
     Committed, Uncommitted, Whole
<1>4. Serving'
  BY DEF RotationTypes, RotationTypeOK, Places, Process, Serving, Recover, Goto
<1>5. RotationGoes'
  BY DEF RotationTypes, RotationTypeOK, Process, RotationGoes, Recover, Goto, disk, Journalled,
     Committed, Uncommitted, Whole, Staging, Staged
<1> QED
  BY <1>1, <1>2, <1>3, <1>4, <1>5

LEMMA PromoteKeyInv == ASSUME RotationInv, NEW p \in Process, PromoteKey(p) PROVE RotationInv'
<1> USE DEF RotationInv
<1>1. RotationTypes'
  BY DEF RotationTypes, RotationTypeOK, Places, Doing, Recovering, PromoteKey, Goto, disk
<1>2. Journalled'
  BY DEF Journalled, Committed, Promised, Either, NewKey, Promoting, PromoteKey, disk
<1>3. Promoting'
  BY DEF RotationTypes, Places, Process, Committed, Promoting, PromoteKey, Goto, disk
<1>4. Serving'
  BY DEF Serving, Committed, Promoting, PromoteKey, Goto
<1>5. RotationGoes'
  BY DEF RotationTypes, Places, Process, RotationGoes, Staging, Staged, PromoteKey, Goto, disk
<1> QED
  BY <1>1, <1>2, <1>3, <1>4, <1>5

LEMMA PromoteGenerationInv ==
  ASSUME RotationInv, NEW p \in Process, PromoteGeneration(p) PROVE RotationInv'
<1> USE DEF RotationInv
<1>1. RotationTypes'
  BY RotationAssumption DEF RotationTypes, RotationTypeOK, Places, Doing, Recovering,
     PromoteGeneration, Goto, disk, Unset
<1>2. Journalled'
  BY DEF Journalled, Committed, Promised, Either, NewKey, Promoting, PromoteGeneration, disk
<1>3. Promoting'
  BY DEF Journalled, Committed, Uncommitted, Whole, Promised, Either, Promoting, PromoteGeneration,
     Goto, disk
<1>4. Serving'
  BY DEF Serving, PromoteGeneration, Goto
<1>5. RotationGoes'
  BY DEF RotationTypes, Places, Process, RotationGoes, Staging, Staged, PromoteGeneration, Goto,
     disk
<1> QED
  BY <1>1, <1>2, <1>3, <1>4, <1>5

LEMMA PromoteFilesInv == ASSUME RotationInv, NEW p \in Process, PromoteFiles(p) PROVE RotationInv'
<1> USE DEF RotationInv
<1>1. RotationTypes'
  BY DEF RotationTypes, RotationTypeOK, Places, Process, Doing, Recovering, PromoteFiles, Goto,
     material, Rotating
<1>2. Journalled'
  BY DEF RotationTypes, RotationTypeOK, Journalled, Committed, Promised, Either, NewKey, Promoting,
     PromoteFiles, material
<1>3. Promoting'
  BY DEF RotationTypes, RotationTypeOK, Journalled, Committed, Uncommitted, Whole, Promised, Either,
     NewKey, Promoting, RotationGoes, PromoteFiles, Goto, material, Named, Rotating
<1>4. Serving'
  BY DEF RotationTypes, RotationTypeOK, Places, Process, Serving, PromoteFiles, Goto
<1>5. RotationGoes'
  BY DEF RotationTypes, RotationTypeOK, Places, Process, RotationGoes, Staging, Staged,
     PromoteFiles, Goto
<1> QED
  BY <1>1, <1>2, <1>3, <1>4, <1>5

LEMMA DropKeyInv == ASSUME RotationInv, NEW p \in Process, DropKey(p) PROVE RotationInv'
<1> USE DEF RotationInv
<1>1. RotationTypes'
  <2>1. staged' \in [key : SecretKey \cup {Unset}, gen : 0..MaxGeneration, file : [File -> SecretKey \cup {Unset}]]
    <3>1. staged' = [key |-> Unset, gen |-> Unset, file |-> staged.file]
      BY DEF RotationTypes, RotationTypeOK, DropKey
    <3>2. staged.file \in [File -> SecretKey \cup {Unset}] /\ Unset \in 0..MaxGeneration
      BY RotationAssumption DEF RotationTypes, RotationTypeOK, Unset
    <3> QED
      BY <3>1, <3>2
  <2>2. Places' /\ doing' \in [Process -> Doing]
    BY DEF RotationTypes, RotationTypeOK, Places, Doing, Recovering, DropKey, Goto
  <2> QED
    BY <2>1, <2>2 DEF RotationTypes, RotationTypeOK, DropKey, disk, material
<1>2. Journalled'
  BY DEF RotationTypes, RotationTypeOK, Journalled, Committed, Uncommitted, Whole, Promoting,
     DropKey, disk, material
<1>3. Promoting'
  BY DEF RotationTypes, Places, Process, Uncommitted, Promoting, DropKey, Goto, disk
<1>4. Serving'
  BY DEF Serving, DropKey, Goto, material
<1>5. RotationGoes'
  BY DEF RotationTypes, Places, Process, RotationGoes, Staging, Staged, DropKey, Goto, disk
<1> QED
  BY <1>1, <1>2, <1>3, <1>4, <1>5

LEMMA DropFilesInv == ASSUME RotationInv, NEW p \in Process, DropFiles(p) PROVE RotationInv'
<1> USE DEF RotationInv
<1>1. RotationTypes'
  BY DEF RotationTypes, RotationTypeOK, Places, Doing, Recovering, DropFiles, Goto, disk, material
<1>2. Journalled'
  BY DEF RotationTypes, RotationTypeOK, Journalled, Committed, Uncommitted, Whole, Promoting,
     DropFiles, disk, material
<1>3. Promoting'
  BY DEF RotationTypes, RotationTypeOK, Journalled, Committed, Uncommitted, Whole, Promoting,
     DropFiles, Goto, disk, material
<1>4. Serving'
  BY DEF Serving, Uncommitted, Promoting, DropFiles, Goto
<1>5. RotationGoes'
  BY DEF RotationTypes, Places, Process, RotationGoes, Staging, Staged, DropFiles, Goto, disk
<1> QED
  BY <1>1, <1>2, <1>3, <1>4, <1>5

LEMMA RemoveJournalInv == ASSUME RotationInv, NEW p \in Process, RemoveJournal(p) PROVE RotationInv'
<1> USE DEF RotationInv
<1>1. RotationTypes'
  BY RotationAssumption DEF RotationTypes, RotationTypeOK, Places, Doing, Staging, RemoveJournal,
     Goto, disk, material, NoJournal, Unset
<1>2. Journalled'
  BY DEF Journalled, Committed, Whole, Promoting, RemoveJournal, disk, material
<1>3. Promoting'
  BY DEF RotationTypes, RotationTypeOK, Places, Process, Promoting, RemoveJournal, Goto
<1>4. Serving'
  BY DEF Serving, Promoting, RemoveJournal
<1>5. RotationGoes'
  BY DEF RotationTypes, Places, Process, RotationGoes, Staged, RemoveJournal, Goto, disk, Rotating
<1> QED
  BY <1>1, <1>2, <1>3, <1>4, <1>5

LEMMA BeginInv ==
  ASSUME RotationInv, RotationAlone, NEW kind \in Kinds, NEW old \in SecretKey, NEW new \in SecretKey, Begin(kind, old, new)
  PROVE RotationInv'
<1> USE DEF RotationInv
<1>1. RotationTypes'
  <2>1. rotation' \in RotationRecord
    <3> DEFINE rows == {r \in SecretRow : sealed[r] # Unset}
    <3>1. rotation' = [kind |-> kind, old |-> old, new |-> new, rows |-> rows, files |-> {}, gen |-> Unset]
      BY DEF Begin, NoRotation
    <3>2. rows \in SUBSET SecretRow /\ Unset \in 0..MaxGeneration /\ kind = "passwd"
      BY RotationAssumption DEF RotationAlone, Unset
    <3> HIDE DEF rows
    <3> QED
      BY <3>1, <3>2 DEF RotationRecord
  <2>2. Places' /\ doing' \in [Process -> Doing]
    BY DEF RotationTypes, RotationTypeOK, Places, Process, Doing, Recovering, Begin, Goto,
       RotationAlone
  <2> QED
    BY <2>1, <2>2 DEF RotationTypes, RotationTypeOK, Begin, disk, material
<1>2. Journalled'
  BY DEF Journalled, Committed, Uncommitted, Whole, Promised, NewKey, Begin, disk, material
<1>3. Promoting'
  BY DEF Committed, Uncommitted, Whole, Promoting, Begin, Goto, disk, material
<1>4. Serving'
  BY DEF Serving, Begin, Goto, RotationAlone
<1>5. RotationGoes'
  BY RotationAssumption DEF RotationGoes, Staging, Staged, Unset, Begin, Goto, disk, RotationAlone,
     NoRotation
<1> QED
  BY <1>1, <1>2, <1>3, <1>4, <1>5

LEMMA StagesAll ==
  ASSUME RotationInv, StageFiles
  PROVE  \/ Goto("command", "idle") /\ UNCHANGED <<staged, rotation>>
         \/ /\ Goto("command", "stageKey")
            /\ staged' = [staged EXCEPT !.file = [f \in File |-> rotation.new]]
            /\ rotation' = [rotation EXCEPT !.files = File, !.gen = dbGen + 1]
<1>1. rotation.kind = "passwd"
  BY DEF RotationInv, RotationGoes, StageFiles
<1>2. CASE \E f \in File : file[f] # rotation.old
  BY <1>1, <1>2 DEF StageFiles
<1>3. CASE ~ \E f \in File : file[f] # rotation.old
  <2>1. staged.file = [f \in File |-> staged.file[f]]
    BY DEF RotationInv, RotationTypes, RotationTypeOK
  <2>2. [f \in File |-> IF f \in File THEN rotation.new ELSE staged.file[f]] = [f \in File |-> rotation.new]
    OBVIOUS
  <2> QED
    BY <1>1 DEF StageFiles, NextGen
<1> QED
  BY <1>2, <1>3

LEMMA StageFilesInv == ASSUME RotationInv, StageFiles PROVE RotationInv'
<1> USE DEF RotationInv
<1>1. RotationTypes'
  <2>1. /\ staged' \in [key : SecretKey \cup {Unset}, gen : 0..MaxGeneration, file : [File -> SecretKey \cup {Unset}]]
        /\ rotation' \in RotationRecord
    <3>1. CASE UNCHANGED <<staged, rotation>>
      BY <3>1 DEF RotationTypes, RotationTypeOK
    <3>2. CASE /\ staged' = [staged EXCEPT !.file = [f \in File |-> rotation.new]]
               /\ rotation' = [rotation EXCEPT !.files = File, !.gen = dbGen + 1]
      <4>1. dbGen + 1 \in 0..MaxGeneration /\ rotation.new \in SecretKey
        BY RotationAssumption DEF RotationTypes, RotationTypeOK, RotationRecord, RotationGoes,
           StageFiles
      <4>2. staged' \in [key : SecretKey \cup {Unset}, gen : 0..MaxGeneration, file : [File -> SecretKey \cup {Unset}]]
        BY <3>2, <4>1 DEF RotationTypes, RotationTypeOK
      <4> QED
        BY <3>2, <4>1, <4>2 DEF RotationTypes, RotationRecord
    <3> QED
      BY <3>1, <3>2, StagesAll
  <2>2. Places' /\ doing' \in [Process -> Doing]
    BY DEF RotationTypes, RotationTypeOK, Places, Process, Doing, Staging, StageFiles, Goto
  <2> QED
    BY <2>1, <2>2 DEF RotationTypes, RotationTypeOK, StageFiles, disk, material
<1>2. Journalled'
  BY DEF Journalled, Committed, Whole, RotationGoes, Staging, StageFiles, disk, material
<1>3. Promoting'
  BY DEF RotationTypes, RotationTypeOK, Places, Process, Promoting, StageFiles, Goto
<1>4. Serving'
  BY DEF RotationTypes, RotationTypeOK, Places, Process, Serving, StageFiles, Goto
<1>5. RotationGoes'
  <2>1. CASE Goto("command", "idle") /\ UNCHANGED <<staged, rotation>>
    BY <2>1 DEF RotationTypes, RotationTypeOK, Process, Staging, Staged, Goto, RotationGoes
  <2>2. CASE /\ Goto("command", "stageKey")
             /\ staged' = [staged EXCEPT !.file = [f \in File |-> rotation.new]]
             /\ rotation' = [rotation EXCEPT !.files = File, !.gen = dbGen + 1]
    <3>1. doing'["command"] = "stageKey"
      BY <2>2 DEF RotationTypes, RotationTypeOK, Process, Goto
    <3>2. /\ rotation'.kind = rotation.kind /\ rotation'.new = rotation.new /\ rotation'.rows = rotation.rows
          /\ rotation'.files = File /\ rotation'.gen = dbGen + 1
      BY <2>2
    <3>3. \A f \in File : staged'.file[f] = rotation.new
      BY <2>2
    <3> QED
      BY <3>1, <3>2, <3>3 DEF RotationGoes, Staging, StageFiles, disk
  <2> QED
    BY <2>1, <2>2, StagesAll
<1> QED
  BY <1>1, <1>2, <1>3, <1>4, <1>5

LEMMA StageKeyInv == ASSUME RotationInv, StageKey PROVE RotationInv'
<1> USE DEF RotationInv
<1>1. RotationTypes'
  BY DEF RotationTypes, RotationTypeOK, Places, Process, RotationRecord, Doing, Staging, StageKey,
     Goto, disk, material
<1>2. Journalled'
  BY DEF Journalled, Committed, Whole, RotationGoes, Staging, StageKey, disk, material
<1>3. Promoting'
  BY DEF Committed, Uncommitted, Promoting, RotationGoes, Staging, StageKey, Goto
<1>4. Serving'
  BY DEF Serving, StageKey, Goto, material
<1>5. RotationGoes'
  BY DEF RotationGoes, Staging, Staged, StageKey, Goto, disk
<1> QED
  BY <1>1, <1>2, <1>3, <1>4, <1>5

LEMMA StageGenerationInv == ASSUME RotationInv, StageGeneration PROVE RotationInv'
<1> USE DEF RotationInv
<1>1. RotationTypes'
  BY DEF RotationTypes, RotationTypeOK, Places, Process, RotationRecord, Doing, Staging,
     StageGeneration, Goto, disk, material
<1>2. Journalled'
  BY DEF Journalled, Committed, Whole, RotationGoes, Staging, StageGeneration, disk, material
<1>3. Promoting'
  BY DEF Committed, Uncommitted, Promoting, RotationGoes, Staging, StageGeneration, Goto
<1>4. Serving'
  BY DEF Serving, StageGeneration, Goto, material
<1>5. RotationGoes'
  BY DEF RotationGoes, Staging, Staged, StageGeneration, Goto, disk
<1> QED
  BY <1>1, <1>2, <1>3, <1>4, <1>5

LEMMA WriteJournalInv == ASSUME RotationInv, WriteJournal PROVE RotationInv'
<1> USE DEF RotationInv
<1>1. RotationTypes'
  BY DEF RotationTypes, RotationTypeOK, Places, Process, RotationRecord, Doing, WriteJournal, Goto,
     disk, material
<1>2. Journalled'
  BY DEF RotationTypes, RotationTypeOK, Journalled, Committed, Uncommitted, Whole, RotationGoes,
     Staging, Staged, Unset, WriteJournal, disk, material
<1>3. Promoting'
  BY DEF Committed, Uncommitted, Promoting, RotationGoes, Staging, WriteJournal, Goto
<1>4. Serving'
  BY DEF RotationTypes, Places, Serving, WriteJournal, Goto
<1>5. RotationGoes'
  BY DEF RotationTypes, RotationTypeOK, Process, RotationGoes, Staging, Staged, WriteJournal, Goto,
     disk
<1> QED
  BY <1>1, <1>2, <1>3, <1>4, <1>5

LEMMA CommitInv == ASSUME RotationInv, Commit PROVE RotationInv'
<1> USE DEF RotationInv
<1>1. RotationTypes'
  BY DEF RotationTypes, RotationTypeOK, Places, Process, Doing, Recovering, Staged, Commit, Goto,
     material, RotationGoes
<1>2. Journalled'
  BY DEF RotationTypes, RotationTypeOK, Journalled, Committed, Uncommitted, Whole, Promised, Either,
     NewKey, RotationGoes, Staged, NoJournal, Unset, Commit, material
<1>3. Promoting'
  BY DEF RotationTypes, RotationTypeOK, Places, Process, Committed, Uncommitted, Promoting,
     RotationGoes, Staged, NoJournal, Unset, Commit, Goto
<1>4. Serving'
  BY DEF RotationTypes, RotationTypeOK, Places, Process, Serving, Commit, Goto
<1>5. RotationGoes'
  BY DEF RotationTypes, RotationTypeOK, Process, RotationGoes, Staging, Staged, Unset, Commit, Goto
<1> QED
  BY <1>1, <1>2, <1>3, <1>4, <1>5

LEMMA StartServiceInv == ASSUME RotationInv, RotationAlone, StartService PROVE RotationInv'
<1> USE DEF RotationInv
<1>1. RotationTypes'
  BY DEF RotationTypes, RotationTypeOK, Places, Process, Doing, Recovering, StartService, Goto,
     disk, material, RotationAlone
<1>2. Journalled'
  BY DEF Journalled, Committed, Uncommitted, Whole, Promised, NewKey, StartService, disk, material
<1>3. Promoting'
  BY DEF Committed, Uncommitted, Whole, Promoting, StartService, Goto, disk, material
<1>4. Serving'
  BY DEF Serving, StartService, Goto
<1>5. RotationGoes'
  BY DEF RotationGoes, StartService, Goto, disk
<1> QED
  BY <1>1, <1>2, <1>3, <1>4, <1>5

LEMMA SealInv == ASSUME RotationInv, NEW r \in SecretRow, Seal(r) PROVE RotationInv'
<1> USE DEF RotationInv
<1>1. RotationTypes'
  BY DEF RotationTypes, RotationTypeOK, Places, Seal, material
<1>2. Journalled'
  <2>1. journal = NoJournal /\ Whole /\ cached' = key
    BY DEF Journalled, Committed, Serving, Seal
  <2>2. \A q \in SecretRow : sealed'[q] \in {Unset, key}
    BY <2>1 DEF Whole, Seal
  <2> QED
    BY <2>1 DEF Journalled, Committed, Whole, Seal, material
<1>3. Promoting'
  BY DEF RotationTypes, Places, Process, Promoting, Seal
<1>4. Serving'
  BY DEF Serving, Seal, material
<1>5. RotationGoes'
  BY DEF RotationTypes, Places, RotationGoes, Seal
<1> QED
  BY <1>1, <1>2, <1>3, <1>4, <1>5

LEMMA StopServiceInv == ASSUME RotationInv, StopService PROVE RotationInv'
<1> USE DEF RotationInv
<1>1. RotationTypes'
  BY DEF RotationTypes, RotationTypeOK, Places, Process, Doing, StopService, Goto, disk, material
<1>2. Journalled'
  BY DEF Journalled, Committed, Uncommitted, Whole, Promised, NewKey, StopService, disk, material
<1>3. Promoting'
  BY DEF RotationTypes, Places, Process, Promoting, StopService, Goto
<1>4. Serving'
  BY DEF Serving, StopService
<1>5. RotationGoes'
  BY DEF RotationGoes, StopService, Goto, disk
<1> QED
  BY <1>1, <1>2, <1>3, <1>4, <1>5

LEMMA CutOffInv == ASSUME RotationInv, NEW p \in Process, CutOff(p) PROVE RotationInv'
<1> USE DEF RotationInv
<1>1. RotationTypes'
  BY RotationAssumption DEF RotationTypes, RotationTypeOK, Places, Doing, CutOff, Goto, disk,
     material
<1>2. Journalled'
  BY DEF Journalled, Committed, Uncommitted, Whole, Promised, NewKey, CutOff, disk, material
<1>3. Promoting'
  BY DEF RotationTypes, RotationTypeOK, Places, Process, Promoting, CutOff, Goto
<1>4. Serving'
  BY DEF Serving, CutOff, Goto, material
<1>5. RotationGoes'
  BY DEF RotationGoes, Staging, Staged, CutOff, Goto, disk
<1> QED
  BY <1>1, <1>2, <1>3, <1>4, <1>5

LEMMA RotationStepInv ==
  ASSUME RotationAlone, RotationInv, [RotationNext]_rotationVars PROVE RotationInv'
<1>1. CASE UNCHANGED rotationVars
  BY <1>1 DEF rotationVars, RotationInv, RotationTypes, RotationTypeOK, Places, Journalled,
     Committed, Uncommitted, Whole, Promised, NewKey, Promoting, Serving, RotationGoes
<1>2. ASSUME NEW p \in Process,
             \/ Recover(p) \/ PromoteKey(p) \/ PromoteGeneration(p) \/ PromoteFiles(p)
             \/ DropKey(p) \/ DropFiles(p) \/ RemoveJournal(p) \/ CutOff(p)
      PROVE  RotationInv'
  BY <1>2, RecoverInv, PromoteKeyInv, PromoteGenerationInv, PromoteFilesInv, DropKeyInv,
     DropFilesInv, RemoveJournalInv, CutOffInv
<1>3. ASSUME StageFiles \/ StageKey \/ StageGeneration \/ WriteJournal \/ Commit PROVE RotationInv'
  BY <1>3, StageFilesInv, StageKeyInv, StageGenerationInv, WriteJournalInv, CommitInv
<1>4. ASSUME StartService \/ StopService \/ \E r \in SecretRow : Seal(r) PROVE RotationInv'
  BY <1>4, StartServiceInv, StopServiceInv, SealInv
<1>5. ASSUME NEW kind \in Kinds, NEW old \in SecretKey, NEW new \in SecretKey, Begin(kind, old, new)
      PROVE  RotationInv'
  BY <1>5, BeginInv
<1> QED
  BY <1>1, <1>2, <1>3, <1>4, <1>5 DEF RotationNext

LEMMA RotationInvariant == ASSUME RotationAlone PROVE RotationSpec => []RotationInv
<1>1. RotationInv /\ [RotationNext]_rotationVars => RotationInv'
  BY RotationStepInv
<1> QED
  BY <1>1, RotationInitInv, PTL DEF RotationSpec

\* For every number of rows, files, keys, rotations and deaths: wherever `passwd` or
\* the recovery of one is cut off, what is left at rest with no journal is a key that
\* opens every sealed row and every file secret and is of the generation of the
\* database (rotateSecretsKeyOnOpen(), recoverSecretKeyRotation()).
THEOREM RotationKeepsKey == ASSUME RotationAlone PROVE RotationSpec => []KeyOpensAll
BY RotationInvariant, RotationInvIsEnough, PTL

------------------------------------------------------------------------------
(* Operational memory: OperationalMemory.                                   *)

Version == [of : Id, prev : Nat, hash : Hash, saw : Hash \cup {<<>>}]
MemoryRow == [status : {"none", "active", "retired"}, hash : Hash \cup {<<>>}, head : Nat, at : 0..MaxClock]

Rows ==
  /\ clock \in 1..MaxClock
  /\ memories \in [Id -> MemoryRow] /\ versions \in Seq(Version)
  /\ seen \in [Writer -> [of : Id \cup {Nil}, hash : Hash \cup {<<>>}]]

\* A memory that is there ends in a version of its own, which says what it says.
Heads ==
  \A m \in Id :
    /\ memories[m].status = "none" <=> memories[m].head = Nil
    /\ memories[m].head # Nil => memories[m].head \in DOMAIN versions /\ versions[memories[m].head].of = m

\* A version follows an earlier one, of the same memory, whose writer it saw.
Follows ==
  \A u \in DOMAIN versions : versions[u].prev < u

LineInv == Rows /\ Heads /\ Follows /\ NothingOverwritten

LEMMA OperationalInitInv == OperationalInit => LineInv
<1> SUFFICES ASSUME OperationalInit PROVE LineInv
  OBVIOUS
<1>1. Rows
  BY OperationalAssumption DEF OperationalInit, Rows, MemoryRow, NoMemory, Nil
<1>2. Heads
  BY DEF OperationalInit, Heads, NoMemory
<1>3. Follows /\ NothingOverwritten
  BY DEF OperationalInit, Follows, NothingOverwritten
<1> QED
  BY <1>1, <1>2, <1>3 DEF LineInv

\* A version that follows the one that is current, written by one who saw it.
LEMMA WritesInv ==
  ASSUME LineInv, NEW m \in Id, NEW status \in {"active", "retired"}, NEW hash \in Hash,
         NEW saw \in Hash \cup {<<>>}, Writes(m, status, hash, saw),
         memories[m].head # Nil => saw = memories[m].hash
  PROVE  /\ memories' \in [Id -> MemoryRow] /\ versions' \in Seq(Version)
         /\ Heads' /\ Follows' /\ NothingOverwritten'
<1> DEFINE n == Len(versions) + 1
           head == memories[m].head
           version == [of |-> m, prev |-> head, hash |-> hash, saw |-> saw]
           row == [status |-> status, hash |-> hash, head |-> n, at |-> clock]
<1>1. /\ versions' = Append(versions, version) /\ versions \in Seq(Version) /\ memories \in [Id -> MemoryRow]
      /\ head \in Nat /\ clock \in 0..MaxClock
  BY OperationalAssumption DEF LineInv, Rows, MemoryRow, Writes
<1>2. version \in Version
  BY <1>1 DEF Version
<1>3. /\ Len(versions') = n /\ n \in Nat \ {0} /\ DOMAIN versions = 1..(n-1) /\ DOMAIN versions' = 1..n
      /\ versions' \in Seq(Version) /\ versions'[n] = version /\ \A v \in 1..(n-1) : versions'[v] = versions[v]
  <2> HIDE DEF version
  <2> QED BY <1>1, <1>2
<1>4. memories' = [memories EXCEPT ![m] = row]
  BY <1>3 DEF Writes
<1>5. row \in MemoryRow
  BY <1>1, <1>3 DEF MemoryRow
<1>6. /\ memories' \in [Id -> MemoryRow] /\ memories'[m] = row
      /\ \A k \in Id : k # m => memories'[k] = memories[k]
  <2> HIDE DEF row
  <2> QED BY <1>1, <1>4, <1>5
<1> HIDE DEF n, version
<1>7. Heads'
  BY <1>3, <1>6 DEF LineInv, Heads, Nil, version
<1>8. Follows'
  BY <1>1, <1>3 DEF LineInv, Heads, Follows, version, Nil
<1>9. NothingOverwritten'
  <2> SUFFICES ASSUME NEW v \in DOMAIN versions'
               PROVE  /\ Cardinality({u \in DOMAIN versions' : versions'[u].prev = v})
                         = (IF memories'[versions'[v].of].head = v THEN 0 ELSE 1)
                      /\ \A u \in {w \in DOMAIN versions' : versions'[w].prev = v} :
                           versions'[u].of = versions'[v].of /\ versions'[u].saw = versions'[v].hash
                      /\ memories'[versions'[v].of].head = v => memories'[versions'[v].of].hash = versions'[v].hash
    BY Zenon DEF NothingOverwritten
  <2> v \in 1..n
    BY <1>3
  <2>1. CASE v = n
    <3>1. {u \in DOMAIN versions' : versions'[u].prev = v} = {}
      BY <1>1, <1>3, <1>8, <2>1 DEF Follows
    <3>2. versions'[v].of = m /\ versions'[v].hash = hash /\ memories'[m].head = n /\ memories'[m].hash = hash
      BY <1>3, <1>6, <2>1 DEF version
    <3>3. Cardinality({u \in DOMAIN versions' : versions'[u].prev = v}) = 0
      BY <3>1, FS_EmptySet
    <3>4. \A u \in {w \in DOMAIN versions' : versions'[w].prev = v} : FALSE
      BY <3>1
    <3> QED
      BY <2>1, <3>2, <3>3, <3>4
  <2>2. CASE v # n
    <3> DEFINE next == {u \in DOMAIN versions : versions[u].prev = v}
               more == {u \in DOMAIN versions' : versions'[u].prev = v}
               k == versions[v].of
    <3>1. v \in DOMAIN versions /\ versions'[v] = versions[v] /\ k \in Id /\ v # Nil
      <4>1. v \in Nat /\ v < n /\ n \in Nat
        BY <1>3, <2>2
      <4>2. v \in 1..(n-1)
        BY <4>1, <2>2
      <4> QED
        <5>1. v # 0 /\ v \in DOMAIN versions /\ versions'[v] = versions[v] /\ versions \in Seq(Version)
          BY <1>1, <1>3, <4>2
        <5>2. versions[v] \in Version
          BY <5>1
        <5> QED
          BY <5>1, <5>2 DEF Version, Nil
    <3>2. /\ Cardinality(next) = (IF memories[k].head = v THEN 0 ELSE 1)
          /\ \A u \in next : versions[u].of = k /\ versions[u].saw = versions[v].hash
          /\ memories[k].head = v => memories[k].hash = versions[v].hash
      BY <3>1 DEF LineInv, NothingOverwritten
    <3>3. CASE head = v
      <4>1. k = m
        BY <3>1, <3>3 DEF LineInv, Heads
      <4>2. IsFiniteSet(next)
        <5>1. IsFiniteSet(1..(n-1))
          BY <1>3, FS_Interval
        <5> QED
          BY <1>3, <5>1, FS_Subset
      <4>3. next = {}
        <5> HIDE DEF next
        <5> QED BY <3>2, <3>3, <4>1, <4>2, FS_EmptySet
      <4>4. more = {n}
        BY <1>3, <3>3, <4>3 DEF version
      <4>5. Cardinality({n}) = 1
        BY FS_Singleton
      <4>6. memories'[k].head # v
        BY <1>6, <2>2, <4>1
      <4>7. versions'[n].of = k /\ versions'[n].saw = versions[v].hash
        BY <1>3, <3>1, <3>2, <3>3, <4>1 DEF version
      <4> QED
        BY <3>1, <4>4, <4>5, <4>6, <4>7
    <3>4. CASE head # v
      <4>1. more = next
        BY <1>3, <3>4 DEF version
      <4>2. memories'[k].head = v <=> memories[k].head = v
        BY <1>6, <2>2, <3>4, <3>1
      <4>3. memories'[k].head = v => memories'[k] = memories[k]
        BY <1>6, <2>2, <3>1
      <4>4. \A u \in more : versions'[u] = versions[u]
        BY <1>3, <4>1
      <4> HIDE DEF next, more
      <4>5. Cardinality(more) = (IF memories'[k].head = v THEN 0 ELSE 1)
        BY <3>2, <4>1, <4>2
      <4>6. \A u \in more : versions'[u].of = k /\ versions'[u].saw = versions[v].hash
        BY <3>2, <4>1, <4>4
      <4> QED
        BY <3>1, <3>2, <4>2, <4>3, <4>5, <4>6 DEF more
    <3> QED BY <3>3, <3>4
  <2> QED BY <2>1, <2>2
<1> QED
  BY <1>3, <1>6, <1>7, <1>8, <1>9

LEMMA UnwrittenInv == ASSUME LineInv, UNCHANGED <<memories, versions>>, Rows' PROVE LineInv'
<1>1. memories' = memories /\ versions' = versions /\ Heads /\ Follows /\ NothingOverwritten
  BY DEF LineInv
<1>2. Heads' /\ Follows'
  BY <1>1 DEF Heads, Follows
<1>3. NothingOverwritten'
  <2> SUFFICES ASSUME NEW v \in DOMAIN versions'
               PROVE  /\ Cardinality({u \in DOMAIN versions' : versions'[u].prev = v})
                         = (IF memories'[versions'[v].of].head = v THEN 0 ELSE 1)
                      /\ \A u \in {w \in DOMAIN versions' : versions'[w].prev = v} :
                           versions'[u].of = versions'[v].of /\ versions'[u].saw = versions'[v].hash
                      /\ memories'[versions'[v].of].head = v => memories'[versions'[v].of].hash = versions'[v].hash
    BY Zenon DEF NothingOverwritten
  <2>1. /\ Cardinality({u \in DOMAIN versions : versions[u].prev = v})
           = (IF memories[versions[v].of].head = v THEN 0 ELSE 1)
        /\ \A u \in {w \in DOMAIN versions : versions[w].prev = v} :
             versions[u].of = versions[v].of /\ versions[u].saw = versions[v].hash
        /\ memories[versions[v].of].head = v => memories[versions[v].of].hash = versions[v].hash
    BY <1>1, Zenon DEF NothingOverwritten
  <2> QED
    BY <1>1, <2>1
<1> QED
  BY <1>2, <1>3 DEF LineInv

LEMMA PromoteDraftInv ==
  ASSUME LineInv, NEW d \in Id, NEW m \in Id, NEW c \in Content, PromoteDraft(d, m, c) PROVE LineInv'
<1>1. memories[m].head = Nil
  BY DEF LineInv, Heads, PromoteDraft
<1>2. <<"active", c>> \in Hash /\ Writes(m, "active", <<"active", c>>, <<>>)
  BY DEF Hash, PromoteDraft
<1>3. /\ memories' \in [Id -> MemoryRow] /\ versions' \in Seq(Version)
      /\ Heads' /\ Follows' /\ NothingOverwritten'
  BY <1>1, <1>2, WritesInv
<1> QED
  BY <1>3 DEF LineInv, Rows, PromoteDraft

\* A writer whose hash is the one the row has writes.
LEMMA ExpectedInv ==
  ASSUME LineInv, NEW w \in Writer, NEW status \in {"active", "retired"}, NEW hash \in Hash,
         Expected(w), Writes(seen[w].of, status, hash, seen[w].hash),
         seen' = [seen EXCEPT ![w] = [of |-> Nil, hash |-> <<>>]], UNCHANGED clock
  PROVE  LineInv'
<1>1. /\ seen[w].of \in Id /\ seen[w].hash \in Hash \cup {<<>>}
      /\ memories[seen[w].of].hash = seen[w].hash
  BY DEF LineInv, Rows, Expected
<1>2. /\ memories' \in [Id -> MemoryRow] /\ versions' \in Seq(Version)
      /\ Heads' /\ Follows' /\ NothingOverwritten'
  BY <1>1, WritesInv
<1>3. seen' \in [Writer -> [of : Id \cup {Nil}, hash : Hash \cup {<<>>}]]
  BY DEF LineInv, Rows
<1> QED
  BY <1>2, <1>3 DEF LineInv, Rows

LEMMA ReviseInv == ASSUME LineInv, NEW w \in Writer, NEW c \in Content, Revise(w, c) PROVE LineInv'
<1>1. <<"active", c>> \in Hash
  BY DEF Hash
<1> QED
  BY <1>1, ExpectedInv DEF Revise

LEMMA RetireInv == ASSUME LineInv, NEW w \in Writer, Retire(w) PROVE LineInv'
<1>1. <<"retired", "empty">> \in Hash
  BY DEF Hash
<1> QED
  BY <1>1, ExpectedInv DEF Retire

LEMMA GetMemoryInv == ASSUME LineInv, NEW w \in Writer, NEW m \in Id, GetMemory(w, m) PROVE LineInv'
<1>1. Rows'
  BY DEF LineInv, Rows, MemoryRow, GetMemory, storeRows
<1> QED
  BY <1>1, UnwrittenInv DEF GetMemory, storeRows

LEMMA OperationalStepInv ==
  ASSUME LineInv, [OperationalNext]_operationalVars PROVE LineInv'
<1>1. CASE UNCHANGED <<memories, versions, seen, clock>>
  BY <1>1, UnwrittenInv DEF LineInv, Rows
<1>2. CASE ClockTick
  <2>1. Rows'
    BY <1>2, OperationalAssumption DEF LineInv, Rows, ClockTick, storeRows
  <2> QED
    BY <1>2, <2>1, UnwrittenInv DEF ClockTick, storeRows
<1>3. ASSUME NEW d \in Id, CreateDraft(d) \/ RejectDraft(d) PROVE UNCHANGED <<memories, versions, seen, clock>>
  BY <1>3 DEF CreateDraft, RejectDraft
<1>4. ASSUME (\E status \in Lists : StartListing(status)) \/ ListDrafts \/ Recall
      PROVE  UNCHANGED <<memories, versions, seen, clock>>
  BY <1>4 DEF StartListing, ListDrafts, Recall, storeRows
<1> QED
  BY <1>1, <1>2, <1>3, <1>4, PromoteDraftInv, GetMemoryInv, ReviseInv, RetireInv DEF
     OperationalNext, operationalVars

LEMMA OperationalInvariant == OperationalSpec => []LineInv
<1>1. LineInv /\ [OperationalNext]_operationalVars => LineInv'
  BY OperationalStepInv
<1> QED
  BY <1>1, OperationalInitInv, PTL DEF OperationalSpec

\* For every number of memories, writers and versions, and any interleaving of their
\* reads and writes: no update is lost.
THEOREM NoUpdateLost == OperationalSpec => []NothingOverwritten
BY OperationalInvariant, PTL DEF LineInv

(* Pages *)

ListKey == [at : Nat, id : Nat]
\* How many rows of the set are newer.
Rank(set, k) == Cardinality({j \in set : Newer(j, k)})

\* One of two rows is the newer, and the order is transitive.
LEMMA NewerOrders ==
  ASSUME NEW a \in ListKey, NEW b \in ListKey
  PROVE  /\ ~Newer(a, a) /\ (a # b => Newer(a, b) \/ Newer(b, a)) /\ ~(Newer(a, b) /\ Newer(b, a))
         /\ \A c \in ListKey : Newer(a, b) /\ Newer(b, c) => Newer(a, c)
<1>1. /\ a.at \in Nat /\ a.id \in Nat /\ b.at \in Nat /\ b.id \in Nat
      /\ (a.at = b.at /\ a.id = b.id => a = b)
  BY DEF ListKey
<1>2. \A c \in ListKey : c.at \in Nat /\ c.id \in Nat
  BY DEF ListKey
<1> QED
  BY <1>1, <1>2 DEF Newer

\* The rank of a row is less than that of any it is newer than.
LEMMA RankOrders ==
  ASSUME NEW set, IsFiniteSet(set), set \subseteq ListKey, NEW a \in set, NEW b \in set
  PROVE  /\ Rank(set, a) \in 0..(Cardinality(set) - 1)
         /\ Newer(a, b) => Rank(set, a) < Rank(set, b)
<1> DEFINE Ahead(k) == {j \in set : Newer(j, k)}
<1>1. \A k \in set : Ahead(k) \subseteq set /\ k \notin Ahead(k)
  BY NewerOrders
<1>2. \A k \in set : IsFiniteSet(Ahead(k)) /\ Cardinality(Ahead(k)) \in Nat
  BY FS_Subset, FS_CardinalityType
<1>3. Cardinality(set) \in Nat
  BY FS_CardinalityType
<1>4. Cardinality(Ahead(a)) < Cardinality(set)
  <2>1. Ahead(a) \in SUBSET set /\ Ahead(a) # set
    BY <1>1
  <2> HIDE DEF Ahead
  <2>2. Cardinality(Ahead(a)) <= Cardinality(set) /\ Cardinality(Ahead(a)) # Cardinality(set)
    BY <2>1, FS_Subset
  <2> QED
    BY <2>2, <1>2, <1>3
<1>5. ASSUME Newer(a, b) PROVE Cardinality(Ahead(a)) < Cardinality(Ahead(b))
  <2>1. Ahead(a) \in SUBSET Ahead(b) /\ a \in Ahead(b) /\ a \notin Ahead(a)
    BY <1>5, NewerOrders
  <2> HIDE DEF Ahead
  <2>2. /\ Cardinality(Ahead(a)) <= Cardinality(Ahead(b))
        /\ Cardinality(Ahead(a)) # Cardinality(Ahead(b))
    BY <2>1, <1>2, FS_Subset
  <2> QED
    BY <2>2, <1>2
<1> QED
  BY <1>2, <1>3, <1>4, <1>5 DEF Rank

\* A sorted list has each row of the set once, the newer first.
LEMMA SortedList ==
  ASSUME NEW set, IsFiniteSet(set), set \subseteq ListKey
  PROVE  LET n == Cardinality(set)
             s == Sorted(set)
         IN /\ n \in Nat /\ Len(s) = n /\ s \in Seq(set)
            /\ \A i \in 1..n : s[i] \in set
            /\ \A i, j \in 1..n : i < j => Newer(s[i], s[j])
            /\ \A k \in set : \E i \in 1..n : s[i] = k
<1> DEFINE n == Cardinality(set)
           s == Sorted(set)
           f == [k \in set |-> Rank(set, k)]
<1>1. n \in Nat
  BY FS_CardinalityType
<1>2. \A k \in set : Rank(set, k) \in 0..(n - 1)
  BY RankOrders
<1>3. ASSUME NEW a \in set, NEW b \in set, Rank(set, a) = Rank(set, b) PROVE a = b
  <2>1. Rank(set, a) \in Int /\ Rank(set, b) \in Int
    BY <1>1, <1>2
  <2>2. ~(Rank(set, a) < Rank(set, b)) /\ ~(Rank(set, b) < Rank(set, a))
    BY <2>1, <1>3
  <2>3. ~Newer(a, b) /\ ~Newer(b, a)
    BY <2>2, RankOrders
  <2>4. a \in ListKey /\ b \in ListKey
    OBVIOUS
  <2> QED
    BY <2>3, <2>4, NewerOrders
<1>4. f \in Injection(set, 0..(n - 1))
  BY <1>2, <1>3 DEF Injection, IsInjective
<1>5. IsFiniteSet(0..(n - 1)) /\ Cardinality(0..(n - 1)) = n
  <2>1. 0 \in Int /\ n - 1 \in Int
    BY <1>1
  <2>2. IsFiniteSet(0..(n - 1)) /\ Cardinality(0..(n - 1)) = IF 0 > n - 1 THEN 0 ELSE n - 1 - 0 + 1
    BY <2>1, FS_Interval
  <2> QED
    BY <2>2, <1>1
<1>6. \A r \in 0..(n - 1) : \E k \in set : Rank(set, k) = r
  <2>1. f \in Surjection(set, 0..(n - 1))
    <3> HIDE DEF f, n
    <3> QED
      BY <1>4, <1>5, FS_Injection DEF n
  <2> QED
    BY <2>1 DEF Surjection
<1>7. ASSUME NEW i \in 1..n PROVE s[i] \in set /\ Rank(set, s[i]) = i - 1
  <2>1. i - 1 \in 0..(n - 1)
    BY <1>1
  <2>2. s[i] = CHOOSE k \in set : Rank(set, k) = i - 1
    BY DEF Sorted, Rank
  <2> HIDE DEF s
  <2> QED
    BY <2>1, <2>2, <1>6
<1>8. Len(s) = n /\ s \in Seq(set)
  <2>1. s = [i \in 1..n |-> CHOOSE k \in set : Rank(set, k) = i - 1]
    BY DEF Sorted, Rank
  <2> HIDE DEF s, n
  <2> QED
    BY <2>1, <1>1, <1>7
<1>9. ASSUME NEW i \in 1..n, NEW j \in 1..n, i < j PROVE Newer(s[i], s[j])
  <2> HIDE DEF s
  <2>1. s[i] \in set /\ s[j] \in set /\ Rank(set, s[i]) = i - 1 /\ Rank(set, s[j]) = j - 1
    BY <1>7
  <2>2. i - 1 < j - 1 /\ i - 1 # j - 1 /\ ~(j - 1 < i - 1)
    BY <1>1, <1>9
  <2>3. s[i] # s[j]
    BY <2>1, <2>2
  <2>4. ~Newer(s[j], s[i])
    BY <2>1, <2>2, RankOrders
  <2> QED
    BY <2>1, <2>3, <2>4, NewerOrders
<1>10. ASSUME NEW k \in set PROVE \E i \in 1..n : s[i] = k
  <2>1. Rank(set, k) + 1 \in 1..n /\ (Rank(set, k) + 1) - 1 = Rank(set, k)
    BY <1>1, <1>2
  <2> HIDE DEF s
  <2>2. s[Rank(set, k) + 1] \in set /\ Rank(set, s[Rank(set, k) + 1]) = Rank(set, k)
    BY <2>1, <1>7
  <2> QED
    BY <2>1, <2>2, <1>3
<1> QED
  BY <1>1, <1>7, <1>8, <1>9, <1>10

DraftRow == [status : {"none", "draft", "promoted", "rejected"}, at : 0..MaxClock, memory : Id \cup {Nil}]
KeyOf(d) == [at |-> drafts[d].at, id |-> d]
ListCursor == [createdAt : Nat, id : Id]
CursorKey(cursor) == [at |-> cursor.createdAt, id |-> cursor.id]
WasGiven(d) == \E i \in 1..Len(listing.given) : listing.given[i] = d

ListingTyped ==
  /\ clock \in 1..MaxClock /\ drafts \in [Id -> DraftRow]
  /\ listing \in [status : {"idle", "all", "draft", "over"}, cursor : {<<>>} \cup ListCursor,
                  given : Seq(Id), whole : SUBSET Id]

\* What was given is not behind the cursor, and none of it twice.
GivenAhead ==
  /\ listing.cursor = <<>> => listing.given = <<>>
  /\ listing.cursor # <<>> =>
       \A i \in 1..Len(listing.given) :
         /\ drafts[listing.given[i]].status # "none"
         /\ ~Newer(CursorKey(listing.cursor), KeyOf(listing.given[i]))
  /\ \A i, j \in 1..Len(listing.given) : listing.given[i] = listing.given[j] => i = j

\* A draft of the first page's time that was not given is behind the cursor.
RestBehind ==
  \A d \in listing.whole :
    drafts[d].status # "none" /\ (drafts[d].status = "draft" =>
      \/ WasGiven(d)
      \/ listing.status \in {"all", "draft"}
         /\ (listing.cursor = <<>> \/ Newer(CursorKey(listing.cursor), KeyOf(d))))

ListingInv == ListingTyped /\ GivenAhead /\ RestBehind

LEMMA CursorIsSet == ASSUME NEW c \in ListCursor PROVE c # <<>>
BY DEF ListCursor

\* A draft keeps its time; a status that is left does not come back.
LEMMA DraftsKeep ==
  ASSUME ListingInv, UNCHANGED listing, drafts' \in [Id -> DraftRow], clock' \in 1..MaxClock,
         \A d \in Id : /\ drafts[d].status # "none" =>
                           drafts'[d].at = drafts[d].at /\ drafts'[d].status # "none"
                       /\ drafts'[d].status = "draft" => drafts[d].status \in {"none", "draft"}
  PROVE  ListingInv'
<1>1. listing.given \in Seq(Id) /\ listing.whole \subseteq Id
  BY DEF ListingInv, ListingTyped
<1>2. \A i \in 1..Len(listing.given) : listing.given[i] \in Id
  BY <1>1
<1>3. \A d \in Id : drafts[d].status # "none" => KeyOf(d)' = KeyOf(d) /\ drafts'[d].status # "none"
  BY DEF KeyOf
<1>4. ListingTyped'
  BY DEF ListingInv, ListingTyped
<1>5. GivenAhead'
  BY <1>2, <1>3 DEF ListingInv, GivenAhead
<1>6. RestBehind'
  <2> SUFFICES ASSUME NEW d \in listing.whole
               PROVE  /\ drafts'[d].status # "none"
                      /\ drafts'[d].status = "draft" =>
                           \/ WasGiven(d)
                           \/ /\ listing.status \in {"all", "draft"}
                              /\ listing.cursor = <<>> \/ Newer(CursorKey(listing.cursor), KeyOf(d)')
    BY DEF RestBehind, WasGiven, CursorKey
  <2>1. d \in Id /\ drafts[d].status # "none"
    BY <1>1 DEF ListingInv, RestBehind
  <2>2. KeyOf(d)' = KeyOf(d) /\ drafts'[d].status # "none"
    BY <2>1, <1>3
  <2>3. drafts'[d].status = "draft" => drafts[d].status = "draft"
    BY <2>1
  <2> QED
    BY <2>2, <2>3 DEF ListingInv, RestBehind
<1> QED
  BY <1>4, <1>5, <1>6 DEF ListingInv

\* A first page has nothing behind it and all of its filter before it.
LEMMA StartKeeps ==
  ASSUME OperationalAssumption, ListingInv, NEW status \in Lists, StartListing(status)
  PROVE  ListingInv'
<1>1. status \in {"all", "draft"} /\ UNCHANGED <<clock, drafts>>
  BY DEF StartListing, storeRows, OperationalAssumption
<1>2. listing' = [status |-> status, cursor |-> <<>>, given |-> <<>>,
                  whole |-> {k.id : k \in Listed(Filter(status))}]
  BY DEF StartListing, NoReader
<1>3. \A d \in {k.id : k \in Listed(Filter(status))} : d \in Id /\ drafts[d].status # "none"
  BY <1>1 DEF Listed, Filter
<1>4. ListingTyped'
  BY <1>1, <1>2, <1>3 DEF ListingInv, ListingTyped
<1>5. GivenAhead'
  BY <1>2 DEF GivenAhead
<1>6. RestBehind'
  BY <1>1, <1>2, <1>3 DEF RestBehind
<1> QED
  BY <1>4, <1>5, <1>6 DEF ListingInv

\* The rows a page starts from.
LEMMA PageRows ==
  ASSUME OperationalAssumption, ListingInv, NEW status \in {"all", "draft"}
  PROVE  LET rows == After(Listed(Filter(status)), listing.cursor)
         IN /\ IsFiniteSet(rows) /\ rows \subseteq ListKey
            /\ \A k \in rows : /\ k.id \in Id /\ k = KeyOf(k.id) /\ drafts[k.id].status # "none"
                               /\ (listing.cursor # <<>> => Newer(CursorKey(listing.cursor), k))
            /\ \A d \in Id :
                 /\ drafts[d].status = "draft"
                 /\ listing.cursor = <<>> \/ Newer(CursorKey(listing.cursor), KeyOf(d))
                 => KeyOf(d) \in rows
<1> DEFINE rows == After(Listed(Filter(status)), listing.cursor)
           some == {e \in Id : drafts[e].status \in Filter(status)}
           f == [d \in some |-> KeyOf(d)]
<1>1. IsFiniteSet(some)
  BY FS_Subset DEF OperationalAssumption
<1>2. Listed(Filter(status)) = {KeyOf(d) : d \in some}
  BY DEF Listed, KeyOf
<1>3. IsFiniteSet(Listed(Filter(status)))
  <2>1. f \in Surjection(some, Listed(Filter(status)))
    BY <1>2 DEF Surjection
  <2> HIDE DEF f, some
  <2> QED
    BY <1>1, <2>1, FS_Surjection
<1>4. rows \in SUBSET Listed(Filter(status))
  BY DEF After
<1>5. \A d \in Id : KeyOf(d) \in ListKey /\ KeyOf(d).id = d
  BY DEF KeyOf, ListKey, ListingInv, ListingTyped, DraftRow, OperationalAssumption
<1>6. \A k \in Listed(Filter(status)) : k.id \in Id /\ k = KeyOf(k.id) /\ drafts[k.id].status # "none"
  BY <1>2, <1>5 DEF Filter
<1>7. \A k \in rows : listing.cursor # <<>> => Newer(CursorKey(listing.cursor), k)
  BY DEF After, CursorKey
<1>8. ASSUME NEW d \in Id, drafts[d].status = "draft",
             listing.cursor = <<>> \/ Newer(CursorKey(listing.cursor), KeyOf(d))
      PROVE  KeyOf(d) \in rows
  <2>1. d \in some
    BY <1>8 DEF Filter
  <2>2. KeyOf(d) \in Listed(Filter(status))
    BY <1>2, <2>1
  <2> QED
    BY <1>8, <2>2 DEF After, CursorKey
<1> HIDE DEF rows
<1>9. IsFiniteSet(rows)
  BY <1>3, <1>4, FS_Subset
<1>10. rows \subseteq ListKey
  BY <1>4, <1>5, <1>6
<1> QED
  BY <1>4, <1>6, <1>7, <1>8, <1>9, <1>10 DEF rows

\* What a page appends comes after what was given before.
LEMMA PageAppended ==
  ASSUME NEW S, NEW a \in Seq(S), NEW b \in Seq(S)
  PROVE  /\ a \o b \in Seq(S) /\ Len(a \o b) = Len(a) + Len(b)
         /\ \A i \in 1..Len(a) : (a \o b)[i] = a[i]
         /\ \A i \in 1..Len(b) : (a \o b)[Len(a) + i] = b[i]
<1>1. /\ a \o b \in Seq(S) /\ Len(a \o b) = Len(a) + Len(b) /\ Len(a) \in Nat /\ Len(b) \in Nat
      /\ \A i \in 1..(Len(a) + Len(b)) : (a \o b)[i] = IF i <= Len(a) THEN a[i] ELSE b[i - Len(a)]
  BY ConcatProperties
<1>2. \A i \in 1..Len(a) : i \in 1..(Len(a) + Len(b)) /\ i <= Len(a)
  BY <1>1
<1>3. \A i \in 1..Len(b) : /\ Len(a) + i \in 1..(Len(a) + Len(b)) /\ ~(Len(a) + i <= Len(a))
                           /\ (Len(a) + i) - Len(a) = i
  BY <1>1
<1> QED
  BY <1>1, <1>2, <1>3

\* A page takes the first of what is behind the cursor, and the cursor to the last of them.
LEMMA PageKeeps == ASSUME OperationalAssumption, ListingInv, ListDrafts PROVE ListingInv'
<1> DEFINE rows == After(Listed(Filter(listing.status)), listing.cursor)
           found == Sorted(rows)
           count == Cardinality(rows)
<1>1. listing.status \in {"all", "draft"} /\ UNCHANGED <<clock, drafts>>
  BY DEF ListDrafts, storeRows
<1>2. /\ IsFiniteSet(rows) /\ rows \subseteq ListKey
      /\ \A k \in rows : /\ k.id \in Id /\ k = KeyOf(k.id) /\ drafts[k.id].status # "none"
                         /\ (listing.cursor # <<>> => Newer(CursorKey(listing.cursor), k))
      /\ \A d \in Id :
           /\ drafts[d].status = "draft"
           /\ listing.cursor = <<>> \/ Newer(CursorKey(listing.cursor), KeyOf(d))
           => KeyOf(d) \in rows
  BY <1>1, PageRows
<1> HIDE DEF rows
<1>3. /\ count \in Nat /\ Len(found) = count /\ found \in Seq(rows)
      /\ \A i \in 1..count : found[i] \in rows
      /\ \A i, j \in 1..count : i < j => Newer(found[i], found[j])
      /\ \A k \in rows : \E i \in 1..count : found[i] = k
  BY <1>2, SortedList
<1>4. /\ listing \in [status : {"idle", "all", "draft", "over"}, cursor : {<<>>} \cup ListCursor,
                     given : Seq(Id), whole : SUBSET Id]
      /\ drafts \in [Id -> DraftRow] /\ clock \in 1..MaxClock
  BY DEF ListingInv, ListingTyped
<1> HIDE DEF found, count
<1>5. CASE found = <<>> /\ listing' = [listing EXCEPT !.status = "over"]
  <2>1. rows = {}
    BY <1>3, <1>5
  <2>2. /\ listing'.status = "over" /\ listing'.cursor = listing.cursor
        /\ listing'.given = listing.given /\ listing'.whole = listing.whole
    BY <1>4, <1>5
  <2>3. ListingTyped'
    BY <1>1, <1>4, <1>5 DEF ListingTyped
  <2>4. GivenAhead'
    BY <1>1, <2>2 DEF ListingInv, GivenAhead, KeyOf
  <2>5. RestBehind'
    BY <1>1, <1>2, <1>4, <2>1, <2>2 DEF ListingInv, RestBehind, WasGiven
  <2> QED
    BY <2>3, <2>4, <2>5 DEF ListingInv
<1>6. ASSUME NEW n \in 1..Limit, n <= Len(found),
             listing' = [listing EXCEPT
               !.given = @ \o [i \in 1..n |-> found[i].id],
               !.cursor = [createdAt |-> found[n].at, id |-> found[n].id],
               !.status = IF n < Len(found) THEN @ ELSE "over"]
      PROVE  ListingInv'
  <2> DEFINE page == [i \in 1..n |-> found[i].id]
             g == Len(listing.given)
  <2>1. n \in 1..count /\ n \in Nat
    BY <1>3, <1>6 DEF OperationalAssumption
  <2>2. /\ page \in Seq(Id) /\ Len(page) = n /\ \A i \in 1..n : page[i] = found[i].id
    BY <1>2, <1>3, <2>1
  <2>3. /\ listing'.given = listing.given \o page /\ listing'.whole = listing.whole
        /\ listing'.cursor = [createdAt |-> found[n].at, id |-> found[n].id]
        /\ listing'.status = IF n < Len(found) THEN listing.status ELSE "over"
    BY <1>4, <1>6
  <2> HIDE DEF page
  <2>4. listing.given \in Seq(Id) /\ g \in Nat /\ \A i \in 1..g : listing.given[i] \in Id
    BY <1>4
  <2>5. /\ listing'.given \in Seq(Id) /\ Len(listing'.given) = g + n
        /\ \A i \in 1..g : listing'.given[i] = listing.given[i]
        /\ \A i \in 1..n : listing'.given[g + i] = page[i]
    <3>1. listing'.given = listing.given \o page /\ listing.given \in Seq(Id) /\ page \in Seq(Id)
      BY <2>2, <2>3, <2>4
    <3> DEFINE had == listing.given
               has == listing'.given
    <3>2. has = had \o page /\ had \in Seq(Id) /\ page \in Seq(Id) /\ g = Len(had) /\ n = Len(page)
      BY <3>1, <2>2
    <3> HIDE DEF had, has, g
    <3>3. /\ has \in Seq(Id) /\ Len(has) = g + n
          /\ \A i \in 1..g : has[i] = had[i]
          /\ \A i \in 1..n : has[g + i] = page[i]
      BY <3>2, PageAppended
    <3> QED
      BY <3>3 DEF had, has
  <2> HIDE DEF g
  <2>6. \A i \in 1..n : found[i] \in rows /\ page[i] \in Id /\ KeyOf(page[i]) = found[i]
    BY <1>2, <1>3, <2>1, <2>2
  <2>7. /\ listing'.cursor \in ListCursor /\ listing'.cursor # <<>>
        /\ CursorKey(listing'.cursor) = found[n] /\ found[n] \in ListKey
    <3>1. found[n] \in rows /\ found[n].id \in Id /\ found[n] = KeyOf(found[n].id)
      BY <1>2, <1>3, <2>1
    <3>2. found[n] \in ListKey /\ found[n].at \in Nat
      BY <3>1, <1>2 DEF ListKey
    <3>3. found[n] = [at |-> found[n].at, id |-> found[n].id]
      BY <3>2 DEF ListKey
    <3> QED
      BY <2>3, <3>1, <3>2, <3>3, CursorIsSet DEF ListCursor, CursorKey
  <2>8. ListingTyped'
    <3>1. listing' \in [status : {"idle", "all", "draft", "over"}, cursor : {<<>>} \cup ListCursor,
                        given : Seq(Id), whole : SUBSET Id]
      <4>1. listing'.status \in {"idle", "all", "draft", "over"}
        BY <1>1, <2>3
      <4>2. listing' = [status |-> listing'.status, cursor |-> listing'.cursor,
                        given |-> listing'.given, whole |-> listing.whole]
        BY <1>4, <1>6, <2>3
      <4> QED
        BY <1>4, <2>5, <2>7, <4>1, <4>2
    <3> QED
      BY <1>1, <1>4, <3>1 DEF ListingTyped
  <2>9. \A i \in 1..g : /\ drafts[listing.given[i]].status # "none" /\ listing.cursor # <<>>
                        /\ ~Newer(CursorKey(listing.cursor), KeyOf(listing.given[i]))
    BY <2>4 DEF ListingInv, GivenAhead, g
  <2>10. \A i \in 1..n, j \in 1..g : page[i] # listing.given[j]
    BY <1>2, <2>6, <2>9
  <2>11. \A i, j \in 1..n : page[i] = page[j] => i = j
    <3> SUFFICES ASSUME NEW i \in 1..n, NEW j \in 1..n, page[i] = page[j] PROVE ~(i < j)
      BY <2>1
    <3>1. i \in 1..count /\ j \in 1..count
      BY <1>3, <2>1
    <3>2. found[i] = found[j] /\ found[i] \in ListKey
      BY <2>6, <1>2
    <3> QED
      BY <3>1, <3>2, <1>3, NewerOrders
  <2>12. \A i \in 1..g : ~Newer(found[n], KeyOf(listing.given[i]))
    <3> SUFFICES ASSUME NEW i \in 1..g, Newer(found[n], KeyOf(listing.given[i])) PROVE FALSE
      OBVIOUS
    <3>1. listing.cursor \in ListCursor /\ CursorKey(listing.cursor) \in ListKey
      <4>1. listing.cursor \in ListCursor
        BY <1>4, <2>9
      <4> QED
        BY <4>1 DEF ListCursor, CursorKey, ListKey, OperationalAssumption
    <3>2. KeyOf(listing.given[i]) \in ListKey
      <4>1. drafts[listing.given[i]] \in DraftRow /\ listing.given[i] \in Id
        BY <1>4, <2>4
      <4>2. \A r \in DraftRow : r.at \in Nat
        BY DEF DraftRow, OperationalAssumption
      <4>3. drafts[listing.given[i]].at \in Nat /\ listing.given[i] \in Nat
        BY <4>1, <4>2 DEF OperationalAssumption
      <4> QED
        BY <4>3 DEF KeyOf, ListKey
    <3>3. Newer(CursorKey(listing.cursor), found[n])
      BY <1>2, <2>1, <2>6, <2>9
    <3> QED
      BY <3>1, <3>2, <3>3, <2>7, <2>9, NewerOrders
  <2>13. \A i \in 1..n : ~Newer(found[n], found[i])
    <3> SUFFICES ASSUME NEW i \in 1..n PROVE ~Newer(found[n], found[i])
      OBVIOUS
    <3>1. found[i] \in ListKey /\ i \in 1..count
      BY <1>2, <1>3, <2>1, <2>6
    <3>2. i = n \/ i < n
      BY <2>1
    <3> QED
      BY <3>1, <3>2, <1>3, <2>1, <2>7, NewerOrders
  <2>14. GivenAhead'
    <3>1. \A i \in 1..(g + n) : i \in 1..g \/ (i - g \in 1..n /\ g + (i - g) = i)
      BY <2>1, <2>4
    <3>2. ASSUME NEW i \in 1..(g + n)
          PROVE  /\ drafts[listing'.given[i]].status # "none"
                 /\ ~Newer(found[n], KeyOf(listing'.given[i]))
      <4>1. CASE i \in 1..g
        BY <4>1, <2>5, <2>9, <2>12
      <4>2. CASE i - g \in 1..n /\ g + (i - g) = i
        <5>1. listing'.given[i] = page[i - g]
          BY <4>2, <2>5
        <5> QED
          BY <4>2, <5>1, <2>2, <2>6, <2>13, <1>2
      <4> QED
        BY <3>1, <4>1, <4>2
    <3>3. ASSUME NEW i \in 1..(g + n), NEW j \in 1..(g + n), listing'.given[i] = listing'.given[j]
          PROVE  i = j
      <4>1. CASE i \in 1..g /\ j \in 1..g
        BY <3>3, <4>1, <2>5 DEF ListingInv, GivenAhead, g
      <4>2. CASE i \in 1..g /\ j - g \in 1..n /\ g + (j - g) = j
        BY <3>3, <4>2, <2>5, <2>10
      <4>3. CASE j \in 1..g /\ i - g \in 1..n /\ g + (i - g) = i
        BY <3>3, <4>3, <2>5, <2>10
      <4>4. CASE /\ i - g \in 1..n /\ g + (i - g) = i /\ j - g \in 1..n /\ g + (j - g) = j
        <5>1. page[i - g] = page[j - g]
          BY <3>3, <4>4, <2>5
        <5> QED
          BY <5>1, <4>4, <2>11
      <4> QED
        BY <3>1, <4>1, <4>2, <4>3, <4>4
    <3> QED
      BY <1>1, <2>5, <2>7, <3>2, <3>3 DEF GivenAhead, KeyOf
  <2>15. RestBehind'
    <3> SUFFICES ASSUME NEW d \in listing.whole, drafts[d].status = "draft", ~WasGiven(d)'
                 PROVE  n < Len(found) /\ Newer(found[n], KeyOf(d))
      BY <1>1, <2>3, <2>7 DEF ListingInv, RestBehind, KeyOf
    <3>1. d \in Id /\ ~WasGiven(d)
      <4>1. d \in Id
        BY <1>4
      <4>2. ASSUME NEW i \in 1..g, listing.given[i] = d PROVE FALSE
        <5>1. i \in 1..Len(listing'.given) /\ listing'.given[i] = d
          BY <2>1, <2>4, <2>5, <4>2
        <5> QED
          BY <5>1 DEF WasGiven
      <4> QED
        BY <4>1, <4>2 DEF WasGiven, g
    <3>2. KeyOf(d) \in rows
      BY <3>1, <1>2 DEF ListingInv, RestBehind
    <3>3. PICK i \in 1..count : found[i] = KeyOf(d)
      BY <3>2, <1>3
    <3>4. i \notin 1..n
      <4> SUFFICES ASSUME i \in 1..n PROVE FALSE
        OBVIOUS
      <4>1. page[i] = d
        BY <3>3, <2>2 DEF KeyOf
      <4>2. g + i \in 1..Len(listing'.given) /\ listing'.given[g + i] = d
        BY <4>1, <2>1, <2>4, <2>5
      <4> QED
        BY <4>2 DEF WasGiven
    <3>5. n < i /\ i <= Len(found)
      BY <3>4, <1>3, <2>1
    <3> QED
      BY <3>3, <3>5, <1>3, <2>1
  <2> QED
    BY <2>8, <2>14, <2>15 DEF ListingInv
<1> QED
  BY <1>5, <1>6 DEF ListDrafts, found, rows

\* For every number of drafts and every size of a page, whatever is created, promoted or
\* rejected between two pages: a reader is given nothing twice and, when the pages end,
\* every draft there was when it began and still is.
THEOREM NothingPagedTwice == OperationalSpec => []PagedOnce
<1> USE OperationalAssumption
<1>1. OperationalInit => ListingInv
  <2> SUFFICES ASSUME OperationalInit PROVE ListingInv
    OBVIOUS
  <2>1. drafts \in [Id -> DraftRow] /\ clock \in 1..MaxClock
    BY DEF OperationalInit, NoLesson, DraftRow, OperationalAssumption, Nil
  <2>2. /\ listing = [status |-> "idle", cursor |-> <<>>, given |-> <<>>, whole |-> {}]
    BY DEF OperationalInit, NoReader
  <2> QED
    BY <2>1, <2>2 DEF ListingInv, ListingTyped, GivenAhead, RestBehind
<1>2. ListingInv /\ [OperationalNext]_operationalVars => ListingInv'
  <2> SUFFICES ASSUME ListingInv, [OperationalNext]_operationalVars PROVE ListingInv'
    OBVIOUS
  <2>0. drafts \in [Id -> DraftRow] /\ clock \in 1..MaxClock
    BY DEF ListingInv, ListingTyped
  <2>1. ASSUME NEW d \in Id, CreateDraft(d) PROVE ListingInv'
    <3>1. drafts' \in [Id -> DraftRow]
      <4>1. clock \in 0..MaxClock
        BY <2>0 DEF OperationalAssumption
      <4>2. [status |-> "draft", at |-> clock, memory |-> Nil] \in DraftRow
        BY <4>1 DEF DraftRow
      <4> QED
        BY <2>0, <2>1, <4>2 DEF CreateDraft
    <3>2. /\ UNCHANGED <<clock, listing>> /\ drafts[d].status = "none"
          /\ \A e \in Id : e # d => drafts'[e] = drafts[e]
      BY <2>0, <2>1 DEF CreateDraft
    <3> QED
      BY <2>0, <3>1, <3>2, DraftsKeep
  <2>2. ASSUME NEW d \in Id, RejectDraft(d) PROVE ListingInv'
    <3>1. /\ drafts' \in [Id -> DraftRow] /\ UNCHANGED <<clock, listing>>
          /\ \A e \in Id : /\ drafts'[e].at = drafts[e].at
                           /\ drafts'[e].status = drafts[e].status
                              \/ (drafts'[e].status = "rejected" /\ drafts[e].status = "draft")
      BY <2>0, <2>2 DEF RejectDraft, DraftRow
    <3> QED
      BY <2>0, <3>1, DraftsKeep
  <2>3. ASSUME NEW d \in Id, NEW m \in Id, NEW c \in Content, PromoteDraft(d, m, c) PROVE ListingInv'
    <3>1. /\ drafts' \in [Id -> DraftRow] /\ UNCHANGED <<clock, listing>>
          /\ \A e \in Id : /\ drafts'[e].at = drafts[e].at
                           /\ drafts'[e].status = drafts[e].status
                              \/ (drafts'[e].status = "promoted" /\ drafts[e].status = "draft")
      BY <2>0, <2>3 DEF PromoteDraft, DraftRow
    <3> QED
      BY <2>0, <3>1, DraftsKeep
  <2>4. CASE UNCHANGED <<drafts, listing, clock>>
    BY <2>0, <2>4, DraftsKeep
  <2>8. ASSUME NEW w \in Writer,
               (\E m \in Id : GetMemory(w, m)) \/ (\E c \in Content : Revise(w, c)) \/ Retire(w)
        PROVE  ListingInv'
    <3>1. UNCHANGED <<drafts, listing, clock>>
      BY <2>8 DEF GetMemory, Revise, Retire, storeRows
    <3> QED
      BY <2>4, <3>1
  <2>9. CASE Recall
    <3>1. UNCHANGED <<drafts, listing, clock>>
      BY <2>9 DEF Recall, storeRows
    <3> QED
      BY <2>4, <3>1
  <2>10. CASE ClockTick
    <3>1. UNCHANGED <<drafts, listing>> /\ clock' \in 1..MaxClock
      BY <2>0, <2>10 DEF ClockTick, storeRows
    <3> QED
      BY <2>0, <3>1, DraftsKeep
  <2>5. ASSUME NEW status \in Lists, StartListing(status) PROVE ListingInv'
    BY <2>5, StartKeeps
  <2>6. CASE ListDrafts
    BY <2>6, PageKeeps
  <2>7. CASE \/ \E d \in Id : CreateDraft(d) \/ RejectDraft(d)
             \/ \E d, m \in Id : \E c \in Content : PromoteDraft(d, m, c)
             \/ \E status \in Lists : StartListing(status)
    BY <2>1, <2>2, <2>3, <2>5, <2>7
  <2> QED
    BY <2>4, <2>6, <2>7, <2>8, <2>9, <2>10 DEF OperationalNext, operationalVars
<1>3. ListingInv => PagedOnce
  <2> SUFFICES ASSUME ListingInv PROVE PagedOnce
    OBVIOUS
  <2>1. DOMAIN listing.given = 1..Len(listing.given)
    BY DEF ListingInv, ListingTyped
  <2> QED
    BY <2>1 DEF ListingInv, GivenAhead, RestBehind, WasGiven, PagedOnce
<1> QED
  BY <1>1, <1>2, <1>3, PTL DEF OperationalSpec

------------------------------------------------------------------------------
(* The local transport: LocalTransport.                                     *)

WireState == {"none", "open", "destroyed", "gone"}
Wire(S, B) == [state : WireState, sent : S, back : B]

\* What the proof knows of the connections, whatever is on their streams.
Wires(w) == \E S, B : w \in [Gen -> Wire(S, B)]

LocalTypes ==
  /\ current \in Gen \cup {NoGen} /\ made \in 0..MaxGen
  /\ connecting \in BOOLEAN /\ closed \in BOOLEAN /\ timer \in {"off", "armed", "awaits"}
  /\ Wires(wire)

\* The current connection is one whose close event is still to come.
CurrentIsThere == current # NoGen => wire[current].state \in {"open", "destroyed"}

\* No second connection is made to one that is up, and a timer that waits for a
\* connection waits for one that is being made.
ConnectsOnce == (connecting => ~Linked) /\ (timer = "awaits" => connecting)

\* What is pending has a connection, or a timer for one; a client that is closed has
\* nothing pending.
PendingGoesOn ==
  /\ outstanding # <<>> => current # NoGen \/ timer \in {"armed", "awaits"}
  /\ closed => outstanding = <<>>

LocalInv == LocalTypes /\ OneConnection /\ CurrentIsThere /\ ConnectsOnce /\ PendingGoesOn

\* A connection whose streams alone change is where it was.
SameStates(w, x) == Wires(x) /\ \A g \in Gen : x[g].state = w[g].state

LEMMA WiresTyped == ASSUME NEW S, NEW B, NEW w \in [Gen -> Wire(S, B)] PROVE Wires(w)
BY DEF Wires

LEMMA StreamWritten ==
  ASSUME NEW w, Wires(w), NEW g \in Gen, NEW s, NEW b
  PROVE  /\ SameStates(w, [w EXCEPT ![g].sent = s]) /\ SameStates(w, [w EXCEPT ![g].back = b])
<1>1. PICK S, B : w \in [Gen -> Wire(S, B)]
  BY DEF Wires
<1> DEFINE S2 == S \cup {s}  B2 == B \cup {b}
           x == [w EXCEPT ![g].sent = s]  y == [w EXCEPT ![g].back = b]
<1>2. x \in [Gen -> Wire(S2, B2)] /\ y \in [Gen -> Wire(S2, B2)]
  BY <1>1 DEF Wire
<1>3. \A h \in Gen : x[h].state = w[h].state /\ y[h].state = w[h].state
  BY <1>1 DEF Wire
<1> HIDE DEF S2, B2, x, y
<1>4. SameStates(w, x) /\ SameStates(w, y)
  BY <1>2, <1>3, WiresTyped DEF SameStates
<1> QED BY <1>4 DEF x, y

\* A connection that is cut or destroyed is no longer open; no other one is touched.
LEMMA DestroyedState ==
  ASSUME NEW w, Wires(w), NEW g \in Gen
  PROVE  /\ Wires(Destroyed(w, g)) /\ \A h \in Gen : h # g => Destroyed(w, g)[h].state = w[h].state
         /\ Destroyed(w, g)[g].state = (IF w[g].state = "open" THEN "destroyed" ELSE w[g].state)
<1>1. CASE w[g].state # "open"
  BY <1>1 DEF Destroyed
<1>2. CASE w[g].state = "open"
  <2>1. PICK S, B : w \in [Gen -> Wire(S, B)]
    BY DEF Wires
  <2> DEFINE B2 == B \cup {<<>>}
  <2>2. Destroyed(w, g) \in [Gen -> Wire(S, B2)]
    BY <1>2, <2>1 DEF Destroyed, Wire, WireState
  <2>3. /\ \A h \in Gen : h # g => Destroyed(w, g)[h].state = w[h].state
        /\ Destroyed(w, g)[g].state = "destroyed"
    BY <1>2, <2>1 DEF Destroyed, Wire
  <2> HIDE DEF B2
  <2> QED
    BY <1>2, <2>2, <2>3, WiresTyped
<1> QED BY <1>1, <1>2

LEMMA CutState ==
  ASSUME NEW w, Wires(w), NEW g \in Gen
  PROVE  /\ Wires(Cut(w, g)) /\ \A h \in Gen : h # g => Cut(w, g)[h].state = w[h].state
         /\ Cut(w, g)[g].state = (IF w[g].state = "open" THEN "destroyed" ELSE w[g].state)
<1>1. PICK S, B : w \in [Gen -> Wire(S, B)]
  BY DEF Wires
<1> DEFINE S2 == S \cup {<<>>}  B2 == B \cup {<<>>}
<1>2. Cut(w, g) \in [Gen -> Wire(S2, B2)]
  <2>1. [w EXCEPT ![g].state = IF @ = "open" THEN "destroyed" ELSE @] \in [Gen -> Wire(S2, B2)]
    BY <1>1 DEF Wire, WireState
  <2> DEFINE x == [w EXCEPT ![g].state = IF @ = "open" THEN "destroyed" ELSE @]
             y == [x EXCEPT ![g].sent = <<>>]
  <2>2. y \in [Gen -> Wire(S2, B2)]
    <3> HIDE DEF x
    <3>1. x \in [Gen -> Wire(S2, B2)]
      BY <2>1 DEF x
    <3> QED BY <3>1 DEF Wire
  <2>3. [y EXCEPT ![g].back = <<>>] \in [Gen -> Wire(S2, B2)]
    <3> HIDE DEF y
    <3> QED BY <2>2 DEF Wire
  <2> QED BY <2>3 DEF Cut
<1>3. /\ \A h \in Gen : h # g => Cut(w, g)[h].state = w[h].state
      /\ Cut(w, g)[g].state = (IF w[g].state = "open" THEN "destroyed" ELSE w[g].state)
  BY <1>1 DEF Cut, Wire
<1> HIDE DEF S2, B2
<1> QED BY <1>2, <1>3, WiresTyped

LEMMA LocalInitInv == LocalInit => LocalInv
<1> SUFFICES ASSUME LocalInit PROVE LocalInv
  OBVIOUS
<1>1. \A g \in Gen : wire[g] = Quiet /\ wire[g].state = "none"
  BY DEF LocalInit, Quiet
<1>2. wire \in [Gen -> Wire({<<>>}, {<<>>})]
  BY DEF LocalInit, Quiet, Wire, WireState
<1>3. LocalTypes
  <2>1. Wires(wire)
    BY <1>2, WiresTyped
  <2>2. current \in Gen \cup {NoGen} /\ made \in 0..MaxGen
    BY LocalAssumption DEF LocalInit
  <2>3. connecting \in BOOLEAN /\ closed \in BOOLEAN /\ timer \in {"off", "armed", "awaits"}
    BY DEF LocalInit
  <2> QED BY <2>1, <2>2, <2>3 DEF LocalTypes
<1> QED
  BY <1>1, <1>3 DEF LocalInv, LocalInit, OneConnection, CurrentIsThere, ConnectsOnce, PendingGoesOn

\* What moves bytes, or a caller, disturbs nothing.
LEMMA StreamsInv ==
  ASSUME LocalInv, SameStates(wire, wire'), UNCHANGED <<current, made, connecting, timer, closed>>,
         outstanding' # <<>> => outstanding # <<>> \/ Linked
  PROVE  LocalInv'
<1>1. outstanding' # <<>> => outstanding # <<>> \/ current # NoGen
  BY DEF Linked
<1>2. Linked' <=> Linked
  BY DEF Linked, LocalInv, LocalTypes, SameStates
<1>3. closed => outstanding' = <<>>
  BY <1>1 DEF LocalInv, OneConnection, PendingGoesOn
<1>4. LocalTypes'
  BY DEF LocalInv, LocalTypes, SameStates
<1>5. OneConnection' /\ CurrentIsThere'
  BY DEF LocalInv, LocalTypes, OneConnection, CurrentIsThere, SameStates
<1>6. ConnectsOnce' /\ PendingGoesOn'
  BY <1>1, <1>2, <1>3 DEF LocalInv, ConnectsOnce, PendingGoesOn
<1> QED
  BY <1>4, <1>5, <1>6 DEF LocalInv

LEMMA StreamsStill == ASSUME Wires(wire), wire' = wire PROVE SameStates(wire, wire')
BY DEF SameStates

\* A connection that is no longer open, of which the close event is to come.
LEMMA LostInv ==
  ASSUME LocalInv, NEW g \in Gen, Wires(wire'), \A h \in Gen : h # g => wire'[h].state = wire[h].state,
         wire'[g].state = (IF wire[g].state = "open" THEN "destroyed" ELSE wire[g].state),
         UNCHANGED <<current, made, connecting, timer, closed>>, outstanding' # <<>> => outstanding # <<>>
  PROVE  LocalInv'
<1>1. Linked' => Linked
  BY DEF Linked, LocalInv, LocalTypes
<1>2. LocalTypes'
  BY DEF LocalInv, LocalTypes
<1>3. OneConnection' /\ CurrentIsThere'
  BY DEF LocalInv, LocalTypes, OneConnection, CurrentIsThere
<1> QED
  BY <1>1, <1>2, <1>3 DEF LocalInv, ConnectsOnce, PendingGoesOn

LEMMA PendingNonempty == ASSUME NEW c \in Pending PROVE outstanding # <<>>
<1> SUFFICES ASSUME outstanding = <<>> PROVE FALSE
  OBVIOUS
<1> QED BY DEF Pending

LEMMA RequestInv == ASSUME LocalInv, NEW c \in LocalCall, Request(c) PROVE LocalInv'
<1>1. CASE closed
  BY <1>1, StreamsStill, StreamsInv DEF Request, LocalInv, LocalTypes
<1>2. CASE ~closed /\ Linked
  <2>1. SameStates(wire, wire')
    <3> DEFINE sent == wire[current].sent \o <<c>>
    <3>1. wire' = [wire EXCEPT ![current].sent = sent] /\ current \in Gen /\ Wires(wire)
      BY <1>2 DEF Request, Written, Linked, LocalInv, LocalTypes
    <3> HIDE DEF sent
    <3> QED BY <3>1, StreamWritten
  <2> QED
    BY <1>2, <2>1, StreamsInv DEF Request
<1>3. CASE ~closed /\ ~Linked
  <2>1. connecting' = TRUE /\ UNCHANGED <<current, made, timer, closed, outstanding, wire>>
    BY <1>3 DEF Request
  <2>2. ~Linked'
    BY <1>3, <2>1 DEF Linked
  <2> QED
    BY <2>1, <2>2 DEF LocalInv, LocalTypes, OneConnection, CurrentIsThere, ConnectsOnce,
       PendingGoesOn
<1> QED BY <1>1, <1>2, <1>3

LEMMA ConnectedInv == ASSUME LocalInv, Connected PROVE LocalInv'
<1>1. CASE closed
  <2>1. connecting' = FALSE /\ UNCHANGED <<current, made, timer, closed, outstanding, wire>> /\ timer = "off"
    BY <1>1 DEF Connected, LocalInv, OneConnection
  <2> QED
    BY <2>1 DEF LocalInv, LocalTypes, OneConnection, CurrentIsThere, ConnectsOnce, PendingGoesOn
<1>2. CASE ~closed
  <2>1. /\ connecting /\ connecting' = FALSE /\ made' = made + 1 /\ current' = made' /\ timer' = "off" /\ closed' = FALSE
        /\ made \in 0..MaxGen /\ made < MaxGen
        /\ wire' = [wire EXCEPT ![made'] = [Quiet EXCEPT !.state = "open", !.sent = outstanding']]
    BY <1>2 DEF Connected, LocalInv, LocalTypes
  <2>2. made' \in Gen /\ made' # NoGen /\ made' \in 0..MaxGen
    BY <2>1, LocalAssumption DEF Gen, NoGen
  <2>3. PICK S, B : wire \in [Gen -> Wire(S, B)]
    BY DEF LocalInv, LocalTypes, Wires
  <2> DEFINE S2 == S \cup {outstanding'}  B2 == B \cup {<<>>}
             fresh == [Quiet EXCEPT !.state = "open", !.sent = outstanding']
  <2>4. fresh \in Wire(S2, B2) /\ fresh.state = "open"
    BY DEF Quiet, Wire, WireState
  <2>a. S \subseteq S2 /\ B \subseteq B2
    OBVIOUS
  <2>5. Wires(wire') /\ wire'[made'].state = "open" /\ \A g \in Gen : g # made' => wire'[g].state = wire[g].state
    <3> HIDE DEF S2, B2, fresh
    <3>1. wire' = [wire EXCEPT ![made'] = fresh]
      BY <2>1 DEF fresh
    <3>2. wire' \in [Gen -> Wire(S2, B2)]
      <4>1. \A g \in Gen : wire[g] \in Wire(S2, B2)
        BY <2>3, <2>a DEF Wire
      <4> QED BY <2>2, <2>3, <2>4, <3>1, <4>1
    <3> QED BY <2>2, <2>3, <2>4, <3>1, <3>2, WiresTyped
  <2>6. \A g \in Gen : wire[g].state # "open"
    <3>1. ~Linked
      BY <2>1 DEF LocalInv, ConnectsOnce
    <3> QED
      BY <3>1 DEF Linked, LocalInv, OneConnection, Gen, NoGen
  <2>7. LocalTypes'
    BY <2>1, <2>2, <2>5 DEF LocalTypes
  <2>8. OneConnection' /\ CurrentIsThere'
    BY <2>1, <2>2, <2>5, <2>6 DEF OneConnection, CurrentIsThere
  <2> QED
    BY <2>1, <2>2, <2>7, <2>8 DEF LocalInv, ConnectsOnce, PendingGoesOn
<1> QED BY <1>1, <1>2

\* A budget that is spent leaves nothing pending.
LEMMA ReconnectLaterInv ==
  ASSUME NEW text, ReconnectLater(text), ~closed
  PROVE  \/ timer = "armed" /\ UNCHANGED <<timer, outstanding>>
         \/ timer' = "off" /\ outstanding' = <<>>
         \/ timer' = "armed" /\ UNCHANGED outstanding
BY DEF ReconnectLater

LEMMA RefusedInv == ASSUME LocalInv, Refused PROVE LocalInv'
<1>1. connecting' = FALSE /\ UNCHANGED <<current, made, closed, wire>>
  BY DEF Refused
<1>2. CASE timer = "awaits"
  <2>1. ~closed
    BY <1>2 DEF LocalInv, OneConnection
  <2>2. \/ timer' = "off" /\ outstanding' = <<>>
        \/ timer' = "armed" /\ UNCHANGED outstanding
    BY <1>2, <2>1, ReconnectLaterInv DEF Refused
  <2> QED
    BY <1>1, <2>1, <2>2 DEF LocalInv, LocalTypes, OneConnection, CurrentIsThere, ConnectsOnce,
       PendingGoesOn
<1>3. CASE timer # "awaits"
  <2>1. UNCHANGED <<timer, outstanding>>
    BY <1>3 DEF Refused
  <2> QED
    BY <1>1, <1>3, <2>1 DEF LocalInv, LocalTypes, OneConnection, CurrentIsThere, ConnectsOnce,
       PendingGoesOn
<1> QED BY <1>2, <1>3

LEMMA ReconnectTimerInv == ASSUME LocalInv, ReconnectTimer PROVE LocalInv'
<1>1. UNCHANGED <<current, made, closed, wire, outstanding>> /\ ~closed
  BY DEF ReconnectTimer, LocalInv, OneConnection
<1>2. Linked' <=> Linked
  BY <1>1 DEF Linked
<1>3. CASE Linked
  <2>1. timer' = "off" /\ UNCHANGED connecting /\ current # NoGen
    BY <1>3 DEF ReconnectTimer, Linked
  <2> QED
    BY <1>1, <1>2, <2>1 DEF LocalInv, LocalTypes, OneConnection, CurrentIsThere, ConnectsOnce,
       PendingGoesOn
<1>4. CASE ~Linked
  <2>1. timer' = "awaits" /\ connecting' = TRUE
    BY <1>4 DEF ReconnectTimer
  <2> QED
    BY <1>1, <1>2, <1>4, <2>1 DEF LocalInv, LocalTypes, OneConnection, CurrentIsThere, ConnectsOnce,
       PendingGoesOn
<1> QED BY <1>3, <1>4

LEMMA SocketGoneInv == ASSUME LocalInv, NEW g \in Gen, SocketGone(g) PROVE LocalInv'
<1>1. wire[g].state = "destroyed" /\ UNCHANGED <<made, connecting, closed>>
      /\ wire' = [wire EXCEPT ![g].state = "gone"]
  BY DEF SocketGone
<1>2. PICK S, B : wire \in [Gen -> Wire(S, B)]
  BY DEF LocalInv, LocalTypes, Wires
<1>3. wire' \in [Gen -> Wire(S, B)]
  BY <1>1, <1>2 DEF Wire, WireState
<1>4. Wires(wire') /\ wire'[g].state = "gone" /\ \A h \in Gen : h # g => wire'[h].state = wire[h].state
  BY <1>1, <1>2, <1>3, WiresTyped DEF Wire
<1>5. CASE closed \/ current # g
  <2>1. UNCHANGED <<outstanding, current, timer>>
    BY <1>5 DEF SocketGone
  <2>2. current # g
    BY <1>5 DEF LocalInv, OneConnection, Gen, NoGen
  <2>3. Linked' <=> Linked
    BY <1>4, <2>1, <2>2 DEF Linked, LocalInv, LocalTypes
  <2>4. LocalTypes' /\ OneConnection' /\ CurrentIsThere'
    BY <1>1, <1>4, <2>1, <2>2 DEF LocalInv, LocalTypes, OneConnection, CurrentIsThere
  <2> QED
    BY <1>1, <2>1, <2>3, <2>4 DEF LocalInv, ConnectsOnce, PendingGoesOn
<1>6. CASE ~closed /\ current = g
  <2>1. current' = NoGen /\ ReconnectLater(callers)
    BY <1>6 DEF SocketGone
  <2>2. \/ timer = "armed" /\ UNCHANGED <<timer, outstanding>>
        \/ timer' = "off" /\ outstanding' = <<>>
        \/ timer' = "armed" /\ UNCHANGED outstanding
    BY <1>6, <2>1, ReconnectLaterInv
  <2>3. timer' \in {"off", "armed"}
    BY <2>2
  <2>4. \A h \in Gen : wire'[h].state # "open"
    BY <1>1, <1>4, <1>6 DEF LocalInv, OneConnection
  <2>5. LocalTypes' /\ OneConnection' /\ CurrentIsThere'
    BY <1>1, <1>4, <1>6, <2>1, <2>3, <2>4 DEF LocalInv, LocalTypes, OneConnection, CurrentIsThere
  <2> QED
    BY <1>1, <1>6, <2>1, <2>2, <2>5 DEF LocalInv, ConnectsOnce, PendingGoesOn, Linked
<1> QED BY <1>5, <1>6

LEMMA CloseClientInv == ASSUME LocalInv, CloseClient PROVE LocalInv'
<1>1. closed' = TRUE /\ current' = NoGen /\ timer' = "off" /\ outstanding' = <<>> /\ UNCHANGED <<made, connecting>>
  BY DEF CloseClient
<1>2. Wires(wire') /\ \A g \in Gen : wire'[g].state # "open"
  <2>1. CASE current = NoGen
    BY <2>1 DEF CloseClient, LocalInv, LocalTypes, OneConnection, Gen, NoGen
  <2>2. CASE current # NoGen
    <3>1. current \in Gen /\ wire' = Destroyed(wire, current)
      BY <2>2 DEF CloseClient, LocalInv, LocalTypes
    <3>2. /\ Wires(wire') /\ \A h \in Gen : h # current => wire'[h].state = wire[h].state
          /\ wire'[current].state # "open"
      BY <3>1, DestroyedState DEF LocalInv, LocalTypes
    <3> QED BY <3>2 DEF LocalInv, OneConnection
  <2> QED BY <2>1, <2>2
<1>3. LocalTypes'
  BY <1>1, <1>2 DEF LocalInv, LocalTypes
<1> QED
  BY <1>1, <1>2, <1>3 DEF LocalInv, OneConnection, CurrentIsThere, ConnectsOnce, PendingGoesOn,
     Linked

LEMMA ResponseInv == ASSUME LocalInv, NEW g \in Gen, Response(g) PROVE LocalInv'
<1>1. SameStates(wire, wire')
  BY StreamWritten DEF Response, LocalInv, LocalTypes
<1>2. outstanding' # <<>> => outstanding # <<>>
  BY PendingNonempty DEF Response
<1> QED
  BY <1>1, <1>2, StreamsInv DEF Response

LEMMA FrameErrorInv == ASSUME LocalInv, NEW g \in Gen, FrameError(g) PROVE LocalInv'
BY DestroyedState, LostInv DEF FrameError, LocalInv, LocalTypes

LEMMA TimeoutInv == ASSUME LocalInv, NEW c \in LocalCall, Timeout(c) PROVE LocalInv'
BY PendingNonempty, StreamsStill, StreamsInv DEF Timeout, LocalInv, LocalTypes

LEMMA WriteFailsInv == ASSUME LocalInv, NEW c \in LocalCall, WriteFails(c) PROVE LocalInv'
<1>1. current \in Gen /\ outstanding # <<>>
  BY PendingNonempty DEF WriteFails, Linked, LocalInv, LocalTypes
<1> QED
  BY <1>1, DestroyedState, LostInv DEF WriteFails, LocalInv, LocalTypes

LEMMA SendsStates ==
  ASSUME NEW w, NEW x, Wires(w), SameStates(w, x), NEW g \in Gen, NEW c, NEW says
  PROVE  SameStates(w, Sends(x, g, c, says))
<1> DEFINE back == Append(x[g].back, [call |-> c, says |-> says])
<1>1. Wires(x)
  BY DEF SameStates
<1>2. Sends(x, g, c, says) = IF x[g].state = "open" THEN [x EXCEPT ![g].back = back] ELSE x
  BY DEF Sends
<1> HIDE DEF back
<1>3. SameStates(x, [x EXCEPT ![g].sent = <<>>]) /\ SameStates(x, [x EXCEPT ![g].back = back])
  BY ONLY <1>1, g \in Gen, StreamWritten
<1>a. SameStates(x, x)
  BY <1>1 DEF SameStates
<1>4. SameStates(x, Sends(x, g, c, says))
  BY <1>2, <1>3, <1>a
<1> QED
  BY <1>4 DEF SameStates

LEMMA DaemonInv == ASSUME LocalInv, Daemon PROVE LocalInv'
<1>1. CASE UNCHANGED <<clientVars, wire>>
  BY <1>1, StreamsStill, StreamsInv DEF clientVars, LocalInv, LocalTypes
<1>2. ASSUME NEW g \in Gen, Reads(g) PROVE LocalInv'
  <2>1. SameStates(wire, Taken(g))
    BY StreamWritten DEF Taken, LocalInv, LocalTypes
  <2>2. SameStates(wire, wire')
    BY <1>2, <2>1, SendsStates DEF Reads, LocalInv, LocalTypes
  <2> QED
    BY <1>2, <2>2, StreamsInv DEF Reads, clientVars
<1>3. ASSUME NEW g \in Gen, NEW c \in LocalCall, Handles(g, c) PROVE LocalInv'
  <2>1. SameStates(wire, wire) /\ Wires(wire)
    BY DEF SameStates, LocalInv, LocalTypes
  <2>2. SameStates(wire, wire')
    BY <1>3, <2>1, SendsStates DEF Handles
  <2> QED
    BY <1>3, <2>2, StreamsInv DEF Handles, clientVars
<1>4. ASSUME NEW g \in Gen, Drops(g) PROVE LocalInv'
  BY <1>4, CutState, LostInv DEF Drops, clientVars, LocalInv, LocalTypes
<1>5. CASE Dies
  <2>1. UNCHANGED clientVars /\ wire' = [g \in Gen |-> Cut(wire, g)[g]]
    BY <1>5 DEF Dies
  <2>2. \A g \in Gen : wire'[g].state = (IF wire[g].state = "open" THEN "destroyed" ELSE wire[g].state)
    BY <2>1, CutState DEF LocalInv, LocalTypes
  <2>3. PICK S, B : wire \in [Gen -> Wire(S, B)]
    BY DEF LocalInv, LocalTypes, Wires
  <2>4. Wires(wire')
    <3> DEFINE S2 == S \cup {<<>>}  B2 == B \cup {<<>>}
    <3>1. \A g \in Gen : Cut(wire, g)[g] \in Wire(S2, B2)
      BY <2>3 DEF Cut, Wire, WireState
    <3>2. wire' \in [Gen -> Wire(S2, B2)]
      <4> HIDE DEF S2, B2
      <4> QED BY <2>1, <3>1
    <3> HIDE DEF S2, B2
    <3> QED BY <3>2, WiresTyped
  <2>5. Linked' => Linked
    BY <2>1, <2>2 DEF Linked, clientVars, LocalInv, LocalTypes
  <2>6. LocalTypes' /\ OneConnection' /\ CurrentIsThere'
    BY <2>1, <2>2, <2>4 DEF clientVars, LocalInv, LocalTypes, OneConnection, CurrentIsThere
  <2> QED
    BY <2>1, <2>5, <2>6 DEF clientVars, LocalInv, ConnectsOnce, PendingGoesOn
<1>6. CASE Quiesce \/ Restart
  BY <1>1, <1>6 DEF Quiesce, Restart
<1> QED
  BY <1>2, <1>3, <1>4, <1>5, <1>6 DEF Daemon

LEMMA LocalStepInv == ASSUME LocalInv, [LocalNext]_localVars PROVE LocalInv'
<1>1. CASE UNCHANGED localVars
  BY <1>1, StreamsStill, StreamsInv DEF localVars, clientVars, LocalInv, LocalTypes
<1>2. CASE Client
  BY <1>2, RequestInv, TimeoutInv, WriteFailsInv, ConnectedInv, RefusedInv, ReconnectTimerInv,
     CloseClientInv, SocketGoneInv, FrameErrorInv, ResponseInv DEF Client
<1> QED
  BY <1>1, <1>2, DaemonInv DEF LocalNext

LEMMA LocalInvariant == LocalSpec => []LocalInv
<1>1. LocalInv /\ [LocalNext]_localVars => LocalInv'
  BY LocalStepInv
<1> QED
  BY <1>1, LocalInitInv, PTL DEF LocalSpec

\* For every number of requests, connections and deaths of the daemon, and every
\* order of close events, errors, failed writes and timers: while a request waits a
\* connection is up or on its way, and never two (scheduleReconnect(), doConnect()).
THEOREM ClientReconnects == LocalSpec => []ReconnectsOnce
<1>1. LocalInv => ReconnectsOnce
  BY DEF LocalInv, ReconnectsOnce, NobodyIdles, CurrentIsThere, ConnectsOnce, PendingGoesOn
<1> QED
  BY <1>1, LocalInvariant, PTL

------------------------------------------------------------------------------
(* Dream questions: DreamQuestions.                                         *)

QuestionRow ==
  [pair : Pair \cup {"none"}, rev : 0..MaxRev, status : QuestionStatus \cup {"none", "deleted"},
   created : Int, asked : Int, ended : Int, key : DeliveryKey \cup {"none"}, blank : BOOLEAN]

QuestionTypes ==
  /\ today \in 0..MaxDay /\ revision \in [Pair -> 0..MaxRev] /\ shunned \subseteq Pair
  /\ told \subseteq [row : Row, pair : Pair, key : DeliveryKey, at : 0..MaxDay]

Ended == {"resolved", "expired", "dismissed"}

\* What a row says of itself: it is asked while it stands, and ends no earlier.
RowHolds(q) ==
  /\ q \in QuestionRow
  /\ q.pair = "none" <=> q.status \in {"none", "deleted"}
  /\ q.pair # "none" => q.created \in 0..today
  /\ q.status = "pending" => q.asked = Never
  /\ q.status = "asked" => q.asked # Never
  /\ q.asked # Never => q.asked \in 0..today /\ q.asked < q.created + Life /\ q.key \in DeliveryKey
  /\ q.status \in Ended => q.asked <= q.ended

RowsHold(rows) == DOMAIN rows = Row /\ rows = [r \in Row |-> rows[r]] /\ \A r \in Row : RowHolds(rows[r])

\* Of a pair one question is under way, made when every other one asked about it
\* had had its time.
OneUnderWay(rows) ==
  \A r, s \in Row :
    r # s /\ rows[r].pair = rows[s].pair /\ Active(rows[r]) =>
      ~Active(rows[s]) /\ (rows[s].asked # Never => rows[r].created - rows[s].asked >= Life)

\* Whoever was told is in the row still, or it is long ago; and a row that is asked
\* was told of.
Recorded(rows) ==
  /\ \A e \in told : /\ e.at <= today
                     /\ today - e.at >= Life \/ (rows[e.row].pair = e.pair /\ rows[e.row].asked = e.at)
  /\ \A r \in Row : rows[r].status = "asked" =>
       [row |-> r, pair |-> rows[r].pair, key |-> rows[r].key, at |-> rows[r].asked] \in told

RowsInv(rows) == RowsHold(rows) /\ OneUnderWay(rows) /\ Recorded(rows)

QuestionInv == QuestionTypes /\ RowsInv(question) /\ AskedOnce

LEMMA NoQuestionRow == NoQuestion \in QuestionRow
BY QuestionAssumption DEF NoQuestion, QuestionRow, Gone, Never

(* Reconciliation *)

\* What becomes of a row: nothing, its end, or its deletion.
BecomesEnded(q, x) ==
  /\ Active(q) /\ x \in QuestionRow /\ x.status \in Ended
  /\ x.pair = q.pair /\ x.created = q.created /\ x.asked = q.asked /\ x.key = q.key
  /\ x.asked <= x.ended
BecomesDeleted(q, x) ==
  /\ q.pair # "none" /\ x = [NoQuestion EXCEPT !.status = "deleted"]
  /\ q.asked # Never => today - q.asked >= Life
Becomes(q, x) == x = q \/ BecomesEnded(q, x) \/ BecomesDeleted(q, x)

LEMMA SettledRow ==
  ASSUME QuestionTypes, NEW q, RowHolds(q)
  PROVE  /\ Settled(q) = q \/ BecomesEnded(q, Settled(q))
         /\ Active(Settled(q)) => Settled(q) = q /\ today < q.created + Life
<1>1. CASE ~Active(q)
  BY <1>1 DEF Settled
<1>2. CASE Active(q)
  <2>1. /\ q \in QuestionRow /\ q.pair # "none" /\ q.created \in Int /\ q.asked <= today /\ today \in Int
        /\ q.asked < q.created + Life /\ q.asked \in Int /\ Life \in Nat
    BY <1>2, QuestionAssumption DEF RowHolds, QuestionRow, QuestionTypes, Active, Never
  <2>2. CASE ~Valid(q)
    <3> DEFINE blank == q.pair \in shunned
               x == [q EXCEPT !.status = "resolved", !.ended = today, !.blank = blank]
    <3>1. Settled(q) = x
      BY <1>2, <2>2 DEF Settled
    <3>2. x \in QuestionRow
      <4>1. blank \in BOOLEAN /\ "resolved" \in QuestionStatus
        BY DEF QuestionStatus
      <4> HIDE DEF blank
      <4> QED BY <2>1, <4>1 DEF QuestionRow
    <3>3. /\ x.status = "resolved" /\ x.pair = q.pair /\ x.created = q.created /\ x.asked = q.asked /\ x.key = q.key
          /\ x.ended = today
      BY <2>1 DEF QuestionRow
    <3> HIDE DEF x
    <3> QED
      BY <1>2, <2>1, <3>1, <3>2, <3>3 DEF BecomesEnded, Ended, Active
  <2>3. CASE Valid(q) /\ q.created + Life <= today
    <3> DEFINE end == q.created + Life
               x == [q EXCEPT !.status = "expired", !.ended = end]
    <3>1. Settled(q) = x
      BY <1>2, <2>3 DEF Settled
    <3>2. x \in QuestionRow
      <4>1. end \in Int /\ "expired" \in QuestionStatus
        BY <2>1 DEF QuestionStatus
      <4> HIDE DEF end
      <4> QED BY <2>1, <4>1 DEF QuestionRow
    <3>3. /\ x.status = "expired" /\ x.pair = q.pair /\ x.created = q.created /\ x.asked = q.asked /\ x.key = q.key
          /\ x.ended = q.created + Life
      BY <2>1 DEF QuestionRow
    <3> HIDE DEF x
    <3> QED
      BY <1>2, <2>1, <3>1, <3>2, <3>3 DEF BecomesEnded, Ended, Active
  <2>4. CASE Valid(q) /\ ~(q.created + Life <= today)
    <3>1. Settled(q) = q
      BY <1>2, <2>4 DEF Settled
    <3> QED
      BY <2>1, <2>4, <3>1
  <2> QED BY <2>2, <2>3, <2>4
<1> QED BY <1>1, <1>2

LEMMA DeletedRow ==
  ASSUME QuestionTypes, NEW q, RowHolds(q)
  PROVE  /\ Becomes(q, Deleted(Settled(q)))
         /\ Active(Deleted(Settled(q))) => Deleted(Settled(q)) = q /\ today < q.created + Life
<1> DEFINE x == Settled(q)
<1>1. /\ x = q \/ BecomesEnded(q, x)
      /\ Active(x) => x = q /\ today < q.created + Life
  BY SettledRow
<1> HIDE DEF x
<1>2. CASE x.status # "none" /\ Stale(x)
  <2>1. Deleted(x) = [NoQuestion EXCEPT !.status = "deleted"] /\ Deleted(x).status = "deleted"
    BY <1>2 DEF Deleted, NoQuestion
  <2>2. x.asked = q.asked /\ x.asked \in Int /\ x.ended \in Int /\ (x.status \in Ended => x.asked <= x.ended)
    BY <1>1 DEF BecomesEnded, RowHolds, QuestionRow
  <2>3. today \in Int /\ Life \in Nat /\ Retention \in Nat /\ Retention >= Life
    BY QuestionAssumption DEF QuestionTypes
  <2>4. today - q.asked >= Life
    BY <1>2, <2>2, <2>3 DEF Stale, Ended
  <2>5. q.pair # "none"
    BY <1>1, <1>2 DEF BecomesEnded, RowHolds, Stale, Active
  <2> QED
    BY <2>1, <2>4, <2>5 DEF Becomes, BecomesDeleted, Active, x
<1>3. CASE ~(x.status # "none" /\ Stale(x))
  <2>1. Deleted(x) = x
    BY <1>3 DEF Deleted
  <2> QED
    BY <1>1, <2>1 DEF Becomes, x
<1> QED BY <1>2, <1>3

\* Rows as they are after a reconciliation for these owners.
LEMMA ReconciledRows ==
  ASSUME QuestionTypes, RowsHold(question), NEW owners
  PROVE  /\ \A r \in Row : Becomes(question[r], Reconciled(owners)[r])
         /\ \A r \in Row : question[r].pair \in Pair /\ OwnerOf[question[r].pair] \in owners
                           /\ Active(Reconciled(owners)[r]) =>
              Reconciled(owners)[r] = question[r] /\ today < question[r].created + Life
         /\ Reconciled(owners) = [r \in Row |-> Reconciled(owners)[r]] /\ DOMAIN Reconciled(owners) = Row
<1>1. \A r \in Row : Reconciled(owners)[r] = (IF question[r].pair \in Pair /\ OwnerOf[question[r].pair] \in owners
                       THEN Deleted(Settled(question[r])) ELSE question[r])
  BY DEF Reconciled
<1>2. \A r \in Row : RowHolds(question[r])
  BY DEF RowsHold
<1>3. \A r \in Row : Becomes(question[r], question[r])
  BY DEF Becomes
<1>4. Reconciled(owners) = [r \in Row |-> Reconciled(owners)[r]] /\ DOMAIN Reconciled(owners) = Row
  BY DEF Reconciled
<1> QED
  BY <1>1, <1>2, <1>3, <1>4, DeletedRow

\* What holds of the rows holds when some have ended and some are gone.
LEMMA BecomeRows ==
  ASSUME QuestionTypes, RowsInv(question), NEW rows, DOMAIN rows = Row, rows = [r \in Row |-> rows[r]],
         \A r \in Row : Becomes(question[r], rows[r])
  PROVE  RowsInv(rows)
<1>1. \A r \in Row : RowHolds(rows[r])
  <2> TAKE r \in Row
  <2>1. RowHolds(question[r])
    BY DEF RowsInv, RowsHold
  <2>2. CASE rows[r] = question[r]
    BY <2>1, <2>2
  <2>3. CASE BecomesEnded(question[r], rows[r])
    BY <2>1, <2>3 DEF BecomesEnded, RowHolds, Active, Ended
  <2>4. CASE BecomesDeleted(question[r], rows[r])
    <3>1. rows[r] = [pair |-> "none", rev |-> 0, status |-> "deleted", created |-> Never, asked |-> Never,
                     ended |-> Never, key |-> "none", blank |-> FALSE]
      BY <2>4 DEF BecomesDeleted, NoQuestion, Gone
    <3>2. rows[r] \in QuestionRow
      BY <2>4, NoQuestionRow DEF BecomesDeleted, QuestionRow
    <3> QED
      BY <3>1, <3>2 DEF RowHolds, Ended
  <2> QED BY <2>2, <2>3, <2>4 DEF Becomes
<1>2. RowsHold(rows)
  BY <1>1 DEF RowsHold
<1>3. \A r \in Row : Active(rows[r]) => rows[r] = question[r]
  BY DEF Becomes, BecomesEnded, BecomesDeleted, Active, Ended, NoQuestion
<1>4. \A r \in Row : rows[r].pair # "none" =>
        rows[r].pair = question[r].pair /\ rows[r].asked = question[r].asked
  BY DEF Becomes, BecomesEnded, BecomesDeleted, NoQuestion
<1>5. OneUnderWay(rows)
  <2> SUFFICES ASSUME NEW r \in Row, NEW s \in Row, r # s, rows[r].pair = rows[s].pair, Active(rows[r])
               PROVE  ~Active(rows[s]) /\ (rows[s].asked # Never => rows[r].created - rows[s].asked >= Life)
    BY DEF OneUnderWay
  <2>1. rows[r] = question[r] /\ rows[r].pair # "none"
    BY <1>1, <1>3 DEF RowHolds, Active
  <2>2. question[r].pair = question[s].pair /\ rows[s].asked = question[s].asked
    BY <1>4, <2>1
  <2> QED
    BY <1>3, <2>1, <2>2 DEF RowsInv, OneUnderWay
<1>6. Recorded(rows)
  <2>1. ASSUME NEW e \in told
        PROVE  e.at <= today /\ (today - e.at >= Life \/ (rows[e.row].pair = e.pair /\ rows[e.row].asked = e.at))
    <3>1. e.row \in Row /\ e.pair \in Pair /\ e.at \in 0..MaxDay /\ e.at <= today
      BY DEF QuestionTypes, RowsInv, Recorded
    <3>2. CASE today - e.at >= Life
      BY <3>1, <3>2
    <3>3. CASE question[e.row].pair = e.pair /\ question[e.row].asked = e.at
      <4>1. e.at # Never
        BY <3>1, QuestionAssumption DEF Never
      <4>2. Becomes(question[e.row], rows[e.row])
        BY <3>1
      <4> QED
        BY <3>1, <3>3, <4>1, <4>2 DEF Becomes, BecomesEnded, BecomesDeleted
    <3> QED BY <3>2, <3>3 DEF RowsInv, Recorded
  <2>2. \A r \in Row : rows[r].status = "asked" =>
          [row |-> r, pair |-> rows[r].pair, key |-> rows[r].key, at |-> rows[r].asked] \in told
    BY <1>3 DEF RowsInv, Recorded, Active
  <2> QED BY <2>1, <2>2 DEF Recorded
<1> QED BY <1>2, <1>5, <1>6 DEF RowsInv

LEMMA ReconciledInv ==
  ASSUME QuestionTypes, RowsInv(question), NEW owners PROVE RowsInv(Reconciled(owners))
<1> DEFINE rows == Reconciled(owners)
<1>1. DOMAIN rows = Row /\ rows = [r \in Row |-> rows[r]] /\ \A r \in Row : Becomes(question[r], rows[r])
  BY ReconciledRows DEF RowsInv
<1> HIDE DEF rows
<1>2. RowsInv(rows)
  BY <1>1, BecomeRows
<1> QED BY <1>2 DEF rows

(* The steps *)

\* When nobody is told and no day passes, the rows say it all.
LEMMA RowsSuffice ==
  ASSUME QuestionInv, UNCHANGED <<memoryVars, told>>, NEW rows, question' = rows, RowsInv(rows)
  PROVE  QuestionInv'
<1>1. UNCHANGED <<today, revision, shunned, told>>
  BY DEF memoryVars
<1>2. QuestionTypes' /\ AskedOnce'
  BY <1>1 DEF QuestionInv, QuestionTypes, AskedOnce
<1>3. RowsInv(question)'
  BY <1>1 DEF RowsInv, RowsHold, RowHolds, OneUnderWay, Recorded
<1> QED BY <1>2, <1>3 DEF QuestionInv

LEMMA QuestionInitInv == QuestionInit => QuestionInv
<1> SUFFICES ASSUME QuestionInit PROVE QuestionInv
  OBVIOUS
<1>1. QuestionTypes
  BY QuestionAssumption DEF QuestionInit, QuestionTypes
<1>2. NoQuestion \in QuestionRow
  BY NoQuestionRow
<1>3. \A r \in Row : question[r] = NoQuestion
  BY DEF QuestionInit
<1>4. RowHolds(NoQuestion) /\ ~Active(NoQuestion) /\ NoQuestion.status # "asked"
  BY <1>2 DEF RowHolds, NoQuestion, Ended, Active
<1>5. DOMAIN question = Row /\ question = [r \in Row |-> question[r]]
  BY DEF QuestionInit
<1>6. RowsInv(question)
  BY <1>3, <1>4, <1>5 DEF RowsInv, RowsHold, OneUnderWay, Recorded, QuestionInit
<1> QED
  BY <1>1, <1>6 DEF QuestionInv, AskedOnce, QuestionInit

LEMMA ReadInv == ASSUME QuestionInv, NEW o, Read(o) PROVE QuestionInv'
BY ReconciledInv, RowsSuffice DEF Read, QuestionInv

LEMMA InsertCandidateInv ==
  ASSUME QuestionInv, NEW p \in Pair, InsertCandidate(p) PROVE QuestionInv'
<1> DEFINE rows == Reconciled(Busy \cup {OwnerOf[p]})
           refused == \/ \E q \in Of(rows, p) : Active(q)
                      \/ LeftAlone(rows, p)
                      \/ Cardinality({r \in Row : Active(rows[r])}) >= Cap
           fresh == [NoQuestion EXCEPT !.pair = p, !.rev = revision[p], !.status = "pending", !.created = today]
<1>1. RowsInv(rows)
  BY ReconciledInv DEF QuestionInv
<1>2. CASE refused
  <2>1. question' = rows /\ UNCHANGED <<memoryVars, told>>
    BY <1>2 DEF InsertCandidate
  <2> QED BY <1>1, <2>1, RowsSuffice
<1>3. CASE ~refused
  <2>1. PICK r \in Row : rows[r].status = "none" /\ question' = [rows EXCEPT ![r] = fresh]
    BY <1>3 DEF InsertCandidate
  <2>2. \A s \in Row : rows[s].pair = p => ~Active(rows[s]) /\ (rows[s].asked # Never => ~(today - rows[s].asked < Life))
    BY <1>3 DEF Of, LeftAlone
  <2>3. UNCHANGED <<memoryVars, told>>
    BY DEF InsertCandidate
  <2>4. /\ today \in 0..MaxDay /\ today \in Int /\ Life \in Nat \ {0} /\ p # "none" /\ revision[p] \in 0..MaxRev
    BY QuestionAssumption DEF QuestionInv, QuestionTypes
  <2>5. fresh \in QuestionRow
    <3>1. "pending" \in QuestionStatus
      BY DEF QuestionStatus
    <3> QED BY <2>4, <3>1, NoQuestionRow DEF QuestionRow
  <2>6. fresh.pair = p /\ fresh.created = today /\ fresh.asked = Never /\ fresh.status = "pending"
    BY DEF NoQuestion
  <2>7. RowHolds(fresh)
    <3> HIDE DEF fresh
    <3> QED BY <2>4, <2>5, <2>6 DEF RowHolds, Ended
  <2> HIDE DEF rows, fresh
  <2> DEFINE now == [rows EXCEPT ![r] = fresh]
  <2>8. /\ now = [s \in Row |-> now[s]] /\ DOMAIN now = Row /\ now[r] = fresh
        /\ \A s \in Row : s # r => now[s] = rows[s]
    BY <1>1 DEF RowsInv, RowsHold
  <2> HIDE DEF now
  <2>9. RowsHold(now)
    BY <1>1, <2>7, <2>8 DEF RowsInv, RowsHold
  <2>10. OneUnderWay(now)
    <3> SUFFICES ASSUME NEW u \in Row, NEW s \in Row, u # s, now[u].pair = now[s].pair, Active(now[u])
                 PROVE  ~Active(now[s]) /\ (now[s].asked # Never => now[u].created - now[s].asked >= Life)
      BY DEF OneUnderWay
    <3>1. CASE u # r /\ s # r
      BY <1>1, <2>8, <3>1 DEF RowsInv, OneUnderWay
    <3>2. CASE u = r
      <4>1. rows[s].asked \in Int
        BY <1>1 DEF RowsInv, RowsHold, RowHolds, QuestionRow
      <4> QED BY <2>2, <2>4, <2>6, <2>8, <3>2, <4>1
    <3>3. CASE s = r
      BY <2>2, <2>6, <2>8, <3>3
    <3> QED BY <3>1, <3>2, <3>3
  <2>11. Recorded(now)
    <3>1. rows[r].pair = "none"
      BY <1>1, <2>1 DEF RowsInv, RowsHold, RowHolds
    <3>2. \A e \in told : e.row \in Row /\ e.pair # "none"
      BY QuestionAssumption DEF QuestionInv, QuestionTypes
    <3>3. \A e \in told : e.at <= today /\ (today - e.at >= Life \/ (now[e.row].pair = e.pair /\ now[e.row].asked = e.at))
      BY <1>1, <2>8, <3>1, <3>2 DEF RowsInv, Recorded
    <3>4. \A s \in Row : now[s].status = "asked" =>
            [row |-> s, pair |-> now[s].pair, key |-> now[s].key, at |-> now[s].asked] \in told
      BY <1>1, <2>6, <2>8 DEF RowsInv, Recorded
    <3> QED BY <3>3, <3>4 DEF Recorded
  <2> QED
    BY <2>1, <2>3, <2>9, <2>10, <2>11, RowsSuffice DEF RowsInv, now
<1> QED BY <1>2, <1>3

LEMMA DismissInv == ASSUME QuestionInv, NEW r \in Row, Dismiss(r) PROVE QuestionInv'
<1> DEFINE rows == Reconciled({OwnerOf[question[r].pair]})
           x == [rows[r] EXCEPT !.status = "dismissed", !.ended = today]
<1>1. RowsInv(rows)
  BY ReconciledInv DEF QuestionInv
<1>2. UNCHANGED <<memoryVars, told>>
  BY DEF Dismiss
<1>3. CASE ~Active(rows[r])
  BY <1>1, <1>2, <1>3, RowsSuffice DEF Dismiss
<1>4. CASE Active(rows[r])
  <2>1. question' = [rows EXCEPT ![r].status = "dismissed", ![r].ended = today]
    BY <1>4 DEF Dismiss
  <2> HIDE DEF rows
  <2>2. RowHolds(rows[r]) /\ today \in 0..MaxDay /\ today \in Int /\ rows = [s \in Row |-> rows[s]]
    BY <1>1, QuestionAssumption DEF RowsInv, RowsHold, QuestionInv, QuestionTypes
  <2>3. question' = [rows EXCEPT ![r] = x]
    BY <2>1, <2>2
  <2>4. x \in QuestionRow
    BY <2>2 DEF RowHolds, QuestionRow, QuestionStatus
  <2>5. /\ x.status = "dismissed" /\ x.ended = today /\ x.pair = rows[r].pair /\ x.created = rows[r].created
        /\ x.asked = rows[r].asked /\ x.key = rows[r].key
    BY <2>2 DEF RowHolds, QuestionRow
  <2>6. RowHolds(x)
    BY <1>4, <2>2, <2>4, <2>5 DEF RowHolds, Active, Ended, Never
  <2> HIDE DEF x
  <2> DEFINE now == [rows EXCEPT ![r] = x]
  <2>7. now = [s \in Row |-> now[s]] /\ DOMAIN now = Row /\ now[r] = x /\ \A s \in Row : s # r => now[s] = rows[s]
    BY <1>1, <2>2 DEF RowsInv, RowsHold
  <2> HIDE DEF now
  <2>8. RowsHold(now)
    BY <1>1, <2>6, <2>7 DEF RowsInv, RowsHold
  <2>9. \A s \in Row : /\ now[s].pair = rows[s].pair /\ now[s].asked = rows[s].asked /\ now[s].created = rows[s].created
                       /\ Active(now[s]) => now[s] = rows[s]
    BY <2>5, <2>7 DEF Active
  <2>10. OneUnderWay(now)
    <3> SUFFICES ASSUME NEW u \in Row, NEW s \in Row, u # s, now[u].pair = now[s].pair, Active(now[u])
                 PROVE  ~Active(now[s]) /\ (now[s].asked # Never => now[u].created - now[s].asked >= Life)
      BY DEF OneUnderWay
    <3> QED BY <1>1, <2>9 DEF RowsInv, OneUnderWay
  <2>11. Recorded(now)
    <3>1. \A e \in told : e.row \in Row
      BY DEF QuestionInv, QuestionTypes
    <3>2. \A e \in told : e.at <= today /\ (today - e.at >= Life \/ (now[e.row].pair = e.pair /\ now[e.row].asked = e.at))
      BY <1>1, <2>9, <3>1 DEF RowsInv, Recorded
    <3>3. \A s \in Row : now[s].status = "asked" =>
            [row |-> s, pair |-> now[s].pair, key |-> now[s].key, at |-> now[s].asked] \in told
      BY <1>1, <2>9 DEF RowsInv, Recorded, Active
    <3> QED BY <3>2, <3>3 DEF Recorded
  <2> QED
    BY <1>2, <2>3, <2>8, <2>10, <2>11, RowsSuffice DEF RowsInv, now
<1> QED BY <1>3, <1>4

LEMMA MarkAskedInv ==
  ASSUME QuestionInv, NEW r \in Row, NEW k \in DeliveryKey, MarkAsked(r, k) PROVE QuestionInv'
<1> DEFINE p == question[r].pair
           rows == Reconciled({OwnerOf[p]})
           x == [rows[r] EXCEPT !.status = "asked", !.asked = today, !.key = k]
           entry == [row |-> r, pair |-> p, key |-> k, at |-> question'[r].asked]
<1>1. RowsInv(rows) /\ p \in Pair
  BY ReconciledInv DEF QuestionInv, MarkAsked
<1>2. UNCHANGED memoryVars
  BY DEF MarkAsked
<1>3. Active(rows[r]) => rows[r] = question[r] /\ today < question[r].created + Life
  BY <1>1, ReconciledRows DEF QuestionInv, RowsInv
<1>4. CASE rows[r].status # "pending"
  <2>1. question' = rows
    BY <1>4 DEF MarkAsked
  <2>2. told' = told
    <3>1. CASE ~(rows[r].status = "asked" /\ rows[r].key = k)
      BY <2>1, <3>1 DEF MarkAsked
    <3>2. CASE rows[r].status = "asked" /\ rows[r].key = k
      <4>1. told' = told \cup {entry} /\ rows[r].pair = p
        BY <1>3, <2>1, <3>2 DEF MarkAsked, Active
      <4>2. entry \in told
        <5> HIDE DEF rows
        <5> QED BY <1>1, <2>1, <3>2, <4>1 DEF RowsInv, Recorded
      <4> QED BY <4>1, <4>2
    <3> QED BY <3>1, <3>2
  <2> QED
    BY <1>1, <1>2, <2>1, <2>2, RowsSuffice
<1>5. CASE rows[r].status = "pending"
  <2>1. question' = [rows EXCEPT ![r].status = "asked", ![r].asked = today, ![r].key = k]
    BY <1>5 DEF MarkAsked
  <2>2. rows[r] = question[r] /\ today < rows[r].created + Life
    BY <1>3, <1>5 DEF Active
  <2>3. told' = IF question'[r].status = "asked" /\ question'[r].key = k THEN told \cup {entry} ELSE told
    BY DEF MarkAsked
  <2> HIDE DEF rows
  <2>4. /\ RowHolds(rows[r]) /\ today \in 0..MaxDay /\ today \in Int /\ today >= 0 /\ MaxDay \in Nat
        /\ rows = [s \in Row |-> rows[s]] /\ DOMAIN rows = Row
    BY <1>1, QuestionAssumption DEF RowsInv, RowsHold, QuestionInv, QuestionTypes
  <2>5. question' = [rows EXCEPT ![r] = x]
    BY <2>1, <2>4
  <2>6. x \in QuestionRow
    BY <2>4 DEF RowHolds, QuestionRow, QuestionStatus
  <2>7. /\ x.status = "asked" /\ x.asked = today /\ x.key = k /\ x.pair = rows[r].pair /\ x.created = rows[r].created
        /\ rows[r].created \in 0..today /\ rows[r].asked = Never /\ rows[r].pair = p
    <3>1. x.status = "asked" /\ x.asked = today /\ x.key = k /\ x.pair = rows[r].pair /\ x.created = rows[r].created
      BY <2>4 DEF RowHolds, QuestionRow
    <3> QED BY <1>5, <2>2, <2>4, <3>1 DEF RowHolds
  <2>8. RowHolds(x)
    BY <1>1, <2>2, <2>4, <2>6, <2>7, QuestionAssumption DEF RowHolds, Ended, Never
  <2> HIDE DEF x
  <2>9. question' = [s \in Row |-> question'[s]] /\ DOMAIN question' = Row /\ question'[r] = x
        /\ \A s \in Row : s # r => question'[s] = rows[s]
    BY <2>4, <2>5
  <2>10. told' = told \cup {entry} /\ entry = [row |-> r, pair |-> p, key |-> k, at |-> today]
    BY <2>3, <2>7, <2>9
  <2> HIDE DEF entry
  <2>11. UNCHANGED <<today, revision, shunned>>
    BY <1>2 DEF memoryVars
  <2>12. QuestionTypes'
    <3>1. entry \in [row : Row, pair : Pair, key : DeliveryKey, at : 0..MaxDay]
      BY <1>1, <2>4, <2>10
    <3> QED BY <2>10, <2>11, <3>1 DEF QuestionInv, QuestionTypes
  <2>13. RowsHold(question)'
    BY <1>1, <2>8, <2>9, <2>11 DEF RowsInv, RowsHold, RowHolds
  <2>14. \A s \in Row : /\ question'[s].pair = rows[s].pair /\ question'[s].created = rows[s].created
                        /\ Active(question'[s]) <=> Active(rows[s])
                        /\ s # r => question'[s] = rows[s]
    BY <1>5, <2>7, <2>9 DEF Active
  <2>15. OneUnderWay(question)'
    <3> SUFFICES ASSUME NEW u \in Row, NEW s \in Row, u # s, question'[u].pair = question'[s].pair, Active(question'[u])
                 PROVE  ~Active(question'[s])
                        /\ (question'[s].asked # Never => question'[u].created - question'[s].asked >= Life)
      BY DEF OneUnderWay, Active
    <3>1. rows[u].pair = rows[s].pair /\ Active(rows[u])
      BY <2>14
    <3>2. ~Active(rows[s])
      BY <1>1, <3>1 DEF RowsInv, OneUnderWay
    <3>3. s # r
      BY <1>5, <3>2 DEF Active
    <3> QED BY <1>1, <2>14, <3>1, <3>2, <3>3 DEF RowsInv, OneUnderWay
  <2>16. \A e \in told : e.row \in Row /\ e.at \in 0..MaxDay /\ e.at # Never
    BY <2>4 DEF QuestionInv, QuestionTypes, Never
  <2>17. \A e \in told : e.row = r => today - e.at >= Life
    <3> TAKE e \in told
    <3> HAVE e.row = r
    <3>1. rows[r].asked # e.at
      BY <2>7, <2>16
    <3> QED BY <1>1, <3>1 DEF RowsInv, Recorded
  <2>18. Recorded(question)'
    <3>1. ASSUME NEW e \in told'
          PROVE  e.at <= today /\ (today - e.at >= Life \/ (question'[e.row].pair = e.pair /\ question'[e.row].asked = e.at))
      <4>1. CASE e = entry
        BY <2>4, <2>7, <2>9, <2>10, <4>1
      <4>2. CASE e \in told /\ e.row = r
        BY <1>1, <2>17, <4>2 DEF RowsInv, Recorded
      <4>3. CASE e \in told /\ e.row # r
        BY <1>1, <2>9, <2>16, <4>3 DEF RowsInv, Recorded
      <4> QED BY <2>10, <4>1, <4>2, <4>3
    <3>2. ASSUME NEW s \in Row, question'[s].status = "asked"
          PROVE  [row |-> s, pair |-> question'[s].pair, key |-> question'[s].key, at |-> question'[s].asked] \in told'
      <4>1. CASE s = r
        BY <2>7, <2>9, <2>10, <4>1
      <4>2. CASE s # r
        BY <1>1, <2>9, <2>10, <3>2, <4>2 DEF RowsInv, Recorded
      <4> QED BY <4>1, <4>2
    <3> QED BY <2>11, <3>1, <3>2 DEF Recorded
  <2>19. \A a \in told : a.pair = p => today - a.at >= Life
    <3> TAKE a \in told
    <3> HAVE a.pair = p
    <3>1. CASE a.row = r
      BY <2>17, <3>1
    <3>2. CASE a.row # r /\ rows[a.row].pair = p /\ rows[a.row].asked = a.at
      <4>1. rows[r].created - a.at >= Life
        BY <1>1, <1>5, <2>7, <2>16, <3>2 DEF RowsInv, OneUnderWay, Active
      <4> QED BY <2>4, <2>7, <2>16, <4>1, QuestionAssumption
    <3> QED BY <1>1, <3>1, <3>2 DEF RowsInv, Recorded
  <2>20. AskedOnce'
    <3> SUFFICES ASSUME NEW a \in told', NEW b \in told', a.pair = b.pair
                 PROVE  (a.row = b.row /\ a.key = b.key) \/ a.at - b.at >= Life \/ b.at - a.at >= Life
      BY DEF AskedOnce
    <3>1. CASE a \in told /\ b \in told
      BY <3>1 DEF QuestionInv, AskedOnce
    <3>2. CASE a = entry /\ b \in told
      BY <2>10, <2>19, <3>2
    <3>3. CASE a \in told /\ b = entry
      BY <2>10, <2>19, <3>3
    <3> QED BY <2>10, <3>1, <3>2, <3>3
  <2> QED
    BY <2>12, <2>13, <2>15, <2>18, <2>20 DEF QuestionInv, RowsInv
<1> QED BY <1>4, <1>5

LEMMA NextDayInv == ASSUME QuestionInv, NextDay PROVE QuestionInv'
<1>1. today' = today + 1 /\ today < MaxDay /\ UNCHANGED <<revision, shunned, question, told>>
  BY DEF NextDay
<1>2. today \in 0..MaxDay /\ MaxDay \in Nat /\ today \in Int /\ Life \in Nat
  BY QuestionAssumption DEF QuestionInv, QuestionTypes
<1>3. QuestionTypes' /\ AskedOnce'
  BY <1>1, <1>2 DEF QuestionInv, QuestionTypes, AskedOnce
<1>4. RowsHold(question)'
  <2>1. \A q : RowHolds(q) => RowHolds(q)'
    BY <1>1, <1>2 DEF RowHolds
  <2> QED BY <1>1, <2>1 DEF QuestionInv, RowsInv, RowsHold, RowHolds
<1>5. OneUnderWay(question)'
  BY <1>1 DEF QuestionInv, RowsInv, OneUnderWay, Active
<1>6. Recorded(question)'
  <2>1. \A e \in told : e.at \in 0..MaxDay
    BY DEF QuestionInv, QuestionTypes
  <2> QED BY <1>1, <1>2, <2>1 DEF QuestionInv, RowsInv, Recorded
<1> QED BY <1>3, <1>4, <1>5, <1>6 DEF QuestionInv, RowsInv

LEMMA MemoryInv ==
  ASSUME QuestionInv, UNCHANGED <<today, question, told>>,
         revision' \in [Pair -> 0..MaxRev], shunned' \subseteq Pair
  PROVE  QuestionInv'
BY DEF QuestionInv, QuestionTypes, RowsInv, RowsHold, RowHolds, OneUnderWay, Active, Recorded,
   AskedOnce

LEMMA QuestionStepInv == ASSUME QuestionInv, [QuestionNext]_questionVars PROVE QuestionInv'
<1>1. revision \in [Pair -> 0..MaxRev] /\ shunned \subseteq Pair
  BY DEF QuestionInv, QuestionTypes
<1>2. CASE UNCHANGED questionVars
  BY <1>1, <1>2, MemoryInv DEF questionVars
<1>3. ASSUME NEW p \in Pair, Corrected(p) PROVE QuestionInv'
  <2>1. revision' \in [Pair -> 0..MaxRev]
    BY <1>1, <1>3, QuestionAssumption DEF Corrected, Gone
  <2> QED BY <1>1, <1>3, <2>1, MemoryInv DEF Corrected
<1>4. ASSUME NEW p \in Pair, Forgotten(p) PROVE QuestionInv'
  BY <1>1, <1>4, MemoryInv DEF Forgotten
<1> QED
  BY <1>2, <1>3, <1>4, InsertCandidateInv, ReadInv, DismissInv, MarkAskedInv, NextDayInv DEF
     QuestionNext

LEMMA QuestionInvariant == QuestionSpec => []QuestionInv
<1>1. QuestionInv /\ [QuestionNext]_questionVars => QuestionInv'
  BY QuestionStepInv
<1> QED
  BY <1>1, QuestionInitInv, PTL DEF QuestionSpec

\* For every set of pairs, owners, hosts and rows, every cap and every time that a
\* question stands or is kept: the owner is asked about a pair by one delivery, and
\* not again while that question stands (insertCandidate(), markAsked()).
THEOREM NobodyAskedTwice == QuestionSpec => []AskedOnce
BY QuestionInvariant, PTL DEF QuestionInv

------------------------------------------------------------------------------
(* The MCP host: McpHost.                                                   *)

McpTypes ==
  /\ server \in [Adapter -> ServerPlace]
  /\ start \in [Adapter -> {"none", "lease", "negotiate", "unwind", "done", "failed"}]
  /\ shut \in [Adapter -> BOOLEAN] /\ client \in [Adapter -> BOOLEAN]
  /\ held \in [Adapter -> BOOLEAN] /\ open \in [Adapter -> BOOLEAN]
  /\ taken \in [Adapter -> [client : BOOLEAN, lease : BOOLEAN]]
  /\ boxLease \in Adapter \cup {"none", "stale"}

Serves == {"starting", "serving", "draining"}

\* How far a process is with its start and its end, and what it has.
Began(p) ==
  /\ server[p] \in {"down", "gone"} =>
       start[p] = "none" /\ ~shut[p] /\ ~held[p] /\ ~taken[p].client /\ ~taken[p].lease
  /\ server[p] \notin {"down", "gone"} => start[p] # "none"
  /\ server[p] \in Serves => ~shut[p]
  /\ server[p] \in {"serving", "draining"} => start[p] = "done"
  /\ server[p] \in {"closing", "releasing"} => shut[p]
  /\ client[p] <=> start[p] = "done"
  /\ start[p] # "done" => ~taken[p].client

Has(p) ==
  /\ start[p] \in {"none", "lease", "failed"} => boxLease # p /\ ~open[p]
  /\ start[p] = "unwind" => ~open[p]
  /\ start[p] = "negotiate" /\ ~shut[p] => boxLease = p /\ open[p] /\ held[p]
  /\ start[p] = "done" => held[p]
  /\ start[p] = "done" /\ server[p] \in Serves \cup {"closing"} => boxLease = p /\ open[p]
  /\ start[p] = "done" /\ server[p] = "closing" => taken[p].client /\ taken[p].lease
  /\ start[p] = "done" /\ server[p] = "releasing" => ~open[p] /\ (~taken[p].lease => boxLease # p)

McpInv == McpTypes /\ \A p \in Adapter : Began(p) /\ Has(p)

LEMMA McpInitInv == McpInit => McpInv
<1> SUFFICES ASSUME McpInit PROVE McpInv
  OBVIOUS
<1>1. McpTypes
  BY DEF McpInit, McpTypes, All, ServerPlace, Nothing
<1>2. ASSUME NEW p \in Adapter PROVE Began(p) /\ Has(p)
  BY McpAssumption DEF McpInit, All, Nothing, Began, Has, Serves
<1> QED BY <1>1, <1>2 DEF McpInv

\* A step of one process takes nothing of another.
LEMMA OthersInv ==
  ASSUME McpInv, NEW p \in Adapter, McpTypes', Began(p)', Has(p)',
         \A q \in Adapter : q # p =>
           /\ server'[q] = server[q] /\ start'[q] = start[q] /\ shut'[q] = shut[q] /\ client'[q] = client[q]
           /\ held'[q] = held[q] /\ open'[q] = open[q] /\ taken'[q] = taken[q]
           /\ boxLease' = q <=> boxLease = q
  PROVE  McpInv'
<1>1. ASSUME NEW q \in Adapter, q # p PROVE Began(q)' /\ Has(q)'
  BY <1>1 DEF McpInv, Began, Has
<1> QED BY <1>1 DEF McpInv

LEMMA CallsInv ==
  ASSUME McpInv, UNCHANGED <<server, startVars, shut, taken>> PROVE McpInv'
BY DEF McpInv, McpTypes, Began, Has, startVars

LEMMA LaunchInv == ASSUME McpInv, NEW p \in Adapter, Launch(p) PROVE McpInv'
<1>1. McpTypes'
  BY DEF McpInv, McpTypes, Launch, Set, ServerPlace
<1>2. Began(p)' /\ Has(p)'
  BY DEF McpInv, McpTypes, Began, Has, Serves, Launch, Set
<1> QED BY <1>1, <1>2, OthersInv DEF McpInv, McpTypes, Launch, Set

LEMMA AcquireInv == ASSUME McpInv, NEW p \in Adapter, Acquire(p) PROVE McpInv'
<1>1. McpTypes'
  BY DEF McpInv, McpTypes, Acquire, Set
<1>2. Began(p)' /\ Has(p)'
  BY DEF McpInv, McpTypes, Began, Has, Serves, Acquire, Set
<1> QED BY <1>1, <1>2, OthersInv, McpAssumption DEF McpInv, McpTypes, Acquire, Set

LEMMA NegotiatedInv == ASSUME McpInv, NEW p \in Adapter, Negotiated(p) PROVE McpInv'
<1>1. McpTypes'
  BY DEF McpInv, McpTypes, Negotiated, Set
<1>2. Began(p)' /\ Has(p)'
  BY DEF McpInv, McpTypes, Began, Has, Serves, ServerPlace, Negotiated, Set
<1> QED BY <1>1, <1>2, OthersInv DEF McpInv, McpTypes, Negotiated, Set

LEMMA UnwindInv == ASSUME McpInv, NEW p \in Adapter, Unwind(p) PROVE McpInv'
<1>1. McpTypes'
  BY DEF McpInv, McpTypes, Unwind, Released, Set
<1>2. Began(p)' /\ Has(p)'
  BY McpAssumption DEF McpInv, McpTypes, Began, Has, Serves, Unwind, Released, Set
<1> QED BY <1>1, <1>2, OthersInv, McpAssumption DEF McpInv, McpTypes, Unwind, Released, Set

LEMMA StartedInv == ASSUME McpInv, NEW p \in Adapter, Started(p) PROVE McpInv'
<1>1. McpTypes'
  BY DEF McpInv, McpTypes, Started, startVars, Set, ServerPlace
<1>2. Began(p)' /\ Has(p)'
  BY DEF McpInv, McpTypes, Began, Has, Serves, Started, startVars, Set
<1> QED BY <1>1, <1>2, OthersInv DEF McpInv, McpTypes, Started, startVars, Set

\* The one cleanup begins, before the start is done or after it.
LEMMA BeginCloseInv ==
  ASSUME McpInv, NEW p \in Adapter, server[p] \in Serves, BeginClose(p), UNCHANGED startVars PROVE McpInv'
<1>1. McpTypes'
  BY DEF McpInv, McpTypes, BeginClose, startVars, Set, ServerPlace
<1>2. Began(p)'
  BY DEF McpInv, McpTypes, Began, Serves, BeginClose, startVars, Set
<1>3. Has(p)'
  BY DEF McpInv, McpTypes, Began, Has, Serves, BeginClose, startVars, Set
<1> QED BY <1>1, <1>2, <1>3, OthersInv DEF McpInv, McpTypes, BeginClose, startVars, Set

LEMMA ShutdownInv == ASSUME McpInv, NEW p \in Adapter, Shutdown(p) PROVE McpInv'
<1>1. McpTypes'
  BY DEF McpInv, McpTypes, Shutdown, startVars, Set, ServerPlace
<1>2. Began(p)' /\ Has(p)'
  BY DEF McpInv, McpTypes, Began, Has, Serves, Shutdown, startVars, Set
<1> QED BY <1>1, <1>2, OthersInv DEF McpInv, McpTypes, Shutdown, startVars, Set

LEMMA EndClientInv == ASSUME McpInv, NEW p \in Adapter, EndClient(p) PROVE McpInv'
<1>1. McpTypes'
  BY DEF McpInv, McpTypes, EndClient, Set, ServerPlace
<1>2. Began(p)' /\ Has(p)'
  BY DEF McpInv, McpTypes, Began, Has, Serves, EndClient, Set
<1> QED BY <1>1, <1>2, OthersInv DEF McpInv, McpTypes, EndClient, Set

LEMMA ReleaseLeaseInv == ASSUME McpInv, NEW p \in Adapter, ReleaseLease(p) PROVE McpInv'
<1>1. McpTypes'
  BY DEF McpInv, McpTypes, ReleaseLease, Released
<1>2. taken'[p].client = taken[p].client /\ taken'[p].lease = FALSE /\ \A q \in Adapter : q # p => taken'[q] = taken[q]
  BY DEF McpInv, McpTypes, ReleaseLease
<1>3. Began(p)'
  BY <1>2 DEF McpInv, Began, Serves, ReleaseLease
<1>4. Has(p)'
  BY <1>2, McpAssumption DEF McpInv, McpTypes, Began, Has, Serves, ReleaseLease, Released
<1> QED BY <1>1, <1>2, <1>3, <1>4, OthersInv, McpAssumption DEF McpInv, McpTypes, ReleaseLease, Released

LEMMA EndsInv == ASSUME McpInv, NEW p \in Adapter, Ends(p) PROVE McpInv'
<1>1. McpTypes'
  BY DEF McpInv, McpTypes, Ends, Set, ServerPlace, Nothing
<1>2. Began(p)' /\ Has(p)'
  BY McpAssumption DEF McpInv, McpTypes, Began, Has, Serves, Ends, Set, Nothing
<1> QED BY <1>1, <1>2, OthersInv, McpAssumption DEF McpInv, McpTypes, Ends, Set

LEMMA McpStepInv == ASSUME McpInv, [McpNext]_mcpVars PROVE McpInv'
<1>1. CASE UNCHANGED mcpVars
  BY <1>1, CallsInv DEF mcpVars, startVars
<1>2. ASSUME NEW p \in Adapter, McpStep(p) PROVE McpInv'
  <2>1. CASE StartFails(p) \/ Drained(p)
    BY <1>2, <2>1, BeginCloseInv DEF StartFails, Drained, Serves
  <2>2. CASE Exit(p)
    BY <2>2, EndsInv DEF Exit
  <2>3. CASE Renegotiate(p)
    BY <2>3, CallsInv DEF Renegotiate
  <2> QED
    BY <1>2, <2>1, <2>2, <2>3, AcquireInv, NegotiatedInv, UnwindInv, StartedInv, EndClientInv,
       ReleaseLeaseInv DEF McpStep
<1>3. ASSUME NEW p \in Adapter, NEW c \in ToolCall, Ask(p, c) \/ DispatchCall(p, c) \/ SettleCall(p, c) \/ TimesOut(p, c)
      PROVE  McpInv'
  BY <1>3, CallsInv DEF Ask, DispatchCall, SettleCall, TimesOut
<1>4. ASSUME NEW p \in Adapter, LoseRoute(p) PROVE McpInv'
  BY <1>4, CallsInv DEF LoseRoute
<1>5. ASSUME NEW p \in Adapter, Kill(p) PROVE McpInv'
  BY <1>5, EndsInv DEF Kill
<1> QED
  BY <1>1, <1>2, <1>3, <1>4, <1>5, LaunchInv, ShutdownInv DEF McpNext

LEMMA McpInvariant == McpSpec => []McpInv
<1>1. McpInv /\ [McpNext]_mcpVars => McpInv'
  BY McpStepInv
<1> QED
  BY <1>1, McpInitInv, PTL DEF McpSpec

\* For every number of processes, calls and launches, wherever a process is shut down
\* or killed: it serves only with the lease of its outbox and an open transport, and
\* leaves neither behind (startMcpServer(), doShutdown(), McpConnectionOwner).
THEOREM OneServesOutbox == McpSpec => []OutboxIsOwned
<1>1. McpInv => OutboxIsOwned
  BY DEF McpInv, McpTypes, Began, Has, Serves, OutboxIsOwned
<1> QED
  BY <1>1, McpInvariant, PTL

------------------------------------------------------------------------------
(* The budget of sleep: SleepBudget.                                        *)

BudgetTypes ==
  /\ elapsed \in Nat /\ calls \in Nat /\ stepEnd \in Nat /\ exhausted \in BOOLEAN
  /\ spent \in [StepId -> Nat] /\ night \in NightPlace /\ step \in 0..Review /\ again \in 0..Steps
  /\ send \in [attempts : Nat, allowance : Nat, window : Int]

AtWork == {"send", "attempt", "inflight", "waiting", "heard"}

\* A step the night has not come to is whole, and only the review repeats one.
StepsInOrder ==
  /\ \A s \in StepId : s > step => spent[s] = 0
  /\ again # 0 => step = Review
  /\ night \in AtWork => step # 0

\* What is left to a send is left of the step's allowance.
Room ==
  /\ \A s \in StepId : spent[s] <= MaxRetries
  /\ night = "send" => spent[Here] < MaxRetries
  /\ night \in {"attempt", "inflight", "waiting"} =>
       send.attempts < send.allowance /\ spent[Here] + send.allowance - send.attempts <= MaxRetries

EndsInTime == night = "inflight" => deadline <= CapAt

BudgetInv == BudgetTypes /\ StepsInOrder /\ Room /\ EndsInTime

LEMMA MaxOfTwo ==
  ASSUME NEW a \in Int, NEW b \in Int
  PROVE  /\ Max({a, b}) \in {a, b} /\ Max({a, b}) >= a /\ Max({a, b}) >= b
<1>1. \E x \in {a, b} : \A y \in {a, b} : x >= y
  <2>1. CASE a >= b
    BY <2>1
  <2>2. CASE b >= a
    BY <2>2
  <2> QED BY <2>1, <2>2
<1> QED BY <1>1 DEF Max

LEMMA BudgetNumbers ==
  /\ Steps \in Nat \ {0} /\ MaxRetries \in Nat \ {0} /\ StepTime \in Nat /\ Headroom \in Nat /\ Cycle \in Nat
  /\ Review \in Nat /\ Review = Steps + 1 /\ StepId = 1..Review
BY BudgetAssumption DEF Review, StepId

LEMMA BudgetInitInv == BudgetInit => BudgetInv
<1> SUFFICES ASSUME BudgetInit PROVE BudgetInv
  OBVIOUS
<1>1. BudgetTypes
  <2>1. spent \in [StepId -> Nat] /\ night \in NightPlace /\ step \in 0..Review /\ again \in 0..Steps
    BY BudgetNumbers DEF BudgetInit, NightPlace
  <2>2. NoSend \in [attempts : Nat, allowance : Nat, window : Int]
    BY DEF NoSend
  <2> QED BY <2>1, <2>2 DEF BudgetInit, BudgetTypes
<1>2. StepsInOrder /\ Room /\ EndsInTime
  BY BudgetNumbers DEF BudgetInit, StepsInOrder, Room, EndsInTime, AtWork
<1> QED BY <1>1, <1>2 DEF BudgetInv

LEMMA HereIsStep ==
  ASSUME BudgetInv, night \in AtWork
  PROVE Here \in StepId /\ spent[Here] \in Nat /\ spent[Here] <= MaxRetries
BY BudgetNumbers DEF BudgetInv, BudgetTypes, StepsInOrder, Room, Here

\* What is left of a step that is not used up, and of a send of it.
LEMMA LeftOver ==
  ASSUME BudgetInv, night = "send" PROVE Max({1, Remaining}) = MaxRetries - spent[Here]
<1>1. spent[Here] \in Nat /\ spent[Here] < MaxRetries /\ MaxRetries \in Nat
  BY HereIsStep, BudgetNumbers DEF AtWork, BudgetInv, Room
<1> DEFINE left == MaxRetries - spent[Here]
<1>2. left \in Int /\ left >= 1
  BY <1>1
<1>3. Remaining = Max({0, left})
  BY DEF Remaining
<1> HIDE DEF left
<1>4. Remaining = left
  BY <1>2, <1>3, MaxOfTwo
<1>5. Max({1, left}) = left
  <2>1. 1 \in Int
    OBVIOUS
  <2>2. Max({1, left}) \in {1, left} /\ Max({1, left}) >= 1 /\ Max({1, left}) >= left
    BY ONLY <1>2, <2>1, MaxOfTwo
  <2> QED BY <1>2, <2>2
<1> QED BY <1>4, <1>5 DEF left

LEMMA DispatchStepInv == ASSUME BudgetInv, DispatchStep PROVE BudgetInv'
<1>1. /\ step' = step + 1 /\ step' \in 1..Steps /\ again' = 0 /\ again = 0 /\ night' = "send"
      /\ stepEnd' = elapsed + StepTime /\ UNCHANGED <<elapsed, calls, spent, exhausted, send, deadline>>
  BY BudgetNumbers DEF BudgetInv, BudgetTypes, DispatchStep, Enter
<1>2. BudgetTypes'
  BY <1>1, BudgetNumbers DEF BudgetInv, BudgetTypes, NightPlace
<1>3. spent[step'] = 0 /\ Here' = step'
  BY <1>1, BudgetNumbers DEF BudgetInv, BudgetTypes, StepsInOrder, Here
<1> QED
  BY <1>1, <1>2, <1>3, BudgetNumbers DEF BudgetInv, BudgetTypes, StepsInOrder, Room, EndsInTime

LEMMA BeginReviewInv == ASSUME BudgetInv, BeginReview PROVE BudgetInv'
<1>1. /\ step' = Review /\ step < Review /\ again' = 0 /\ night' = "send"
      /\ stepEnd' = elapsed + StepTime /\ UNCHANGED <<elapsed, calls, spent, exhausted, send, deadline>>
  BY BudgetNumbers DEF BudgetInv, BudgetTypes, BeginReview, Enter
<1>2. BudgetTypes'
  BY <1>1, BudgetNumbers DEF BudgetInv, BudgetTypes, NightPlace
<1>3. spent[step'] = 0 /\ Here' = step'
  BY <1>1, BudgetNumbers DEF BudgetInv, BudgetTypes, StepsInOrder, Here
<1> QED
  BY <1>1, <1>2, <1>3, BudgetNumbers DEF BudgetInv, BudgetTypes, StepsInOrder, Room, EndsInTime

LEMMA RepeatInv == ASSUME BudgetInv, NEW s \in 1..Steps, Repeat(s) PROVE BudgetInv'
<1>1. /\ step' = step /\ step = Review /\ again' = s /\ night' = "send" /\ spent[s] < MaxRetries
      /\ stepEnd' = elapsed + StepTime /\ UNCHANGED <<elapsed, calls, spent, exhausted, send, deadline>>
  BY DEF Repeat, Enter
<1>2. BudgetTypes'
  BY <1>1, BudgetNumbers DEF BudgetInv, BudgetTypes, NightPlace
<1>3. Here' = s
  BY <1>1, BudgetNumbers DEF Here
<1> QED
  BY <1>1, <1>2, <1>3, BudgetNumbers DEF BudgetInv, BudgetTypes, StepsInOrder, Room, EndsInTime

\* What is spent of the step at work when a call is counted.
LEMMA ConsumeSpends ==
  ASSUME BudgetInv, night = "inflight", Consume
  PROVE  /\ spent' \in [StepId -> Nat] /\ calls' \in Nat /\ exhausted' \in BOOLEAN
         /\ spent'[Here] = spent[Here] + 1
         /\ \A s \in StepId : spent'[s] <= MaxRetries
         /\ \A s \in StepId : s > step => spent'[s] = 0
<1>1. Here \in StepId /\ spent[Here] \in Nat /\ spent' = [spent EXCEPT ![Here] = @ + 1]
      /\ calls \in Nat /\ spent \in [StepId -> Nat] /\ MaxRetries \in Nat
  BY HereIsStep, BudgetNumbers DEF AtWork, Consume, BudgetInv, BudgetTypes
<1>2. spent[Here] < MaxRetries
  BY <1>1 DEF BudgetInv, BudgetTypes, Room
<1>3. Here <= step
  BY BudgetNumbers DEF BudgetInv, BudgetTypes, StepsInOrder, Here
<1>4. calls' \in Nat /\ exhausted' \in BOOLEAN
  BY <1>1 DEF Consume
<1> HIDE DEF Here
<1> QED
  BY <1>1, <1>2, <1>3, <1>4, BudgetNumbers DEF BudgetInv, BudgetTypes, StepsInOrder, Room

\* The night goes on with no step at work, or hears one.
LEMMA LeaveInv ==
  ASSUME BudgetInv, night \in AtWork, UNCHANGED <<elapsed, stepEnd>>,
         night' \in {"between", "heard", "over"}, step' \in step..Review, night' = "heard" => step' = step,
         again' = 0, send' = NoSend,
         \/ UNCHANGED <<calls, spent, exhausted>>
         \/ night = "inflight" /\ Consume
  PROVE  BudgetInv'
<1>1. /\ spent' \in [StepId -> Nat] /\ calls' \in Nat /\ exhausted' \in BOOLEAN
      /\ \A s \in StepId : spent'[s] <= MaxRetries
      /\ \A s \in StepId : s > step => spent'[s] = 0
  BY ConsumeSpends DEF BudgetInv, BudgetTypes, StepsInOrder, Room
<1>2. step \in 1..Review /\ step' \in 1..Review /\ step' >= step
  BY BudgetNumbers DEF BudgetInv, BudgetTypes, StepsInOrder
<1>3. BudgetTypes'
  BY <1>1, <1>2, BudgetNumbers DEF BudgetInv, BudgetTypes, NightPlace, NoSend
<1>4. StepsInOrder'
  BY <1>1, <1>2, BudgetNumbers DEF StepsInOrder
<1> QED
  BY <1>1, <1>3, <1>4 DEF BudgetInv, Room, EndsInTime

LEMMA SettleStepInv ==
  ASSUME BudgetInv, night \in AtWork, SettleStep, Unspent \/ (night = "inflight" /\ Consume) PROVE BudgetInv'
<1>1. step \in 0..Review /\ Review \in Nat
  BY BudgetNumbers DEF BudgetInv, BudgetTypes
<1> QED
  BY <1>1, LeaveInv DEF SettleStep, Unspent

LEMMA StopStepsInv ==
  ASSUME BudgetInv, night \in AtWork, NEW provider \in BOOLEAN, StopSteps(provider),
         Unspent \/ (night = "inflight" /\ Consume)
  PROVE  BudgetInv'
<1>1. step \in 0..Review /\ Review = Steps + 1 /\ Steps \in Nat
  BY BudgetNumbers DEF BudgetInv, BudgetTypes
<1>2. night' \in {"between", "heard", "over"} /\ again' = 0 /\ send' = NoSend /\ UNCHANGED <<elapsed, stepEnd>>
  BY DEF StopSteps
<1>3. step' \in step..Review /\ (night' = "heard" => step' = step)
  BY <1>1 DEF StopSteps
<1> QED
  BY <1>2, <1>3, LeaveInv DEF Unspent

LEMMA CorrectInv == ASSUME BudgetInv, Correct PROVE BudgetInv'
<1>1. /\ night = "heard" /\ night' = "send" /\ Remaining > 0
      /\ UNCHANGED <<elapsed, calls, spent, exhausted, step, again, stepEnd, send, deadline>>
  BY DEF Correct
<1>2. spent[Here] \in Nat /\ MaxRetries \in Nat /\ Here' = Here /\ step # 0
  BY <1>1, HereIsStep, BudgetNumbers DEF AtWork, Here, BudgetInv, StepsInOrder
<1>3. spent[Here] < MaxRetries
  <2> DEFINE left == MaxRetries - spent[Here]
  <2>1. left \in Int /\ Max({0, left}) > 0
    BY <1>1, <1>2 DEF Remaining
  <2>2. left > 0
    <3> HIDE DEF left
    <3> QED BY <2>1, MaxOfTwo
  <2> QED BY <1>2, <2>2
<1>4. BudgetTypes'
  BY <1>1 DEF BudgetInv, BudgetTypes, NightPlace
<1> QED
  BY <1>1, <1>2, <1>3, <1>4 DEF BudgetInv, StepsInOrder, Room, EndsInTime

LEMMA SendInv == ASSUME BudgetInv, Send PROVE BudgetInv'
<1> DEFINE window == stepEnd - elapsed
           allowance == Max({1, Remaining})
<1>1. night = "send" /\ Unspent /\ night \in AtWork
  BY DEF Send, AtWork
<1>2. CASE SettleStep
  BY <1>1, <1>2, SettleStepInv
<1>3. CASE StopSteps(FALSE)
  BY <1>1, <1>3, StopStepsInv
<1>4. CASE night' = "attempt" /\ send' = [attempts |-> 0, allowance |-> allowance, window |-> window]
           /\ UNCHANGED <<elapsed, step, again, stepEnd, deadline>>
  <2>1. allowance = MaxRetries - spent[Here] /\ spent[Here] \in Nat /\ MaxRetries \in Nat /\ spent[Here] < MaxRetries
    BY <1>1, LeftOver, HereIsStep, BudgetNumbers DEF BudgetInv, Room
  <2>2. allowance \in Nat /\ window \in Int
    BY <2>1 DEF BudgetInv, BudgetTypes
  <2> HIDE DEF window, allowance
  <2>3. BudgetTypes'
    BY <1>1, <1>4, <2>2 DEF BudgetInv, BudgetTypes, NightPlace, Unspent
  <2>4. Here' = Here /\ send'.attempts = 0 /\ send'.allowance = allowance /\ UNCHANGED spent
    BY <1>1, <1>4 DEF Here, Unspent
  <2>5. Room'
    BY <1>4, <2>1, <2>4 DEF BudgetInv, Room
  <2> QED
    BY <1>1, <1>4, <2>3, <2>4, <2>5 DEF BudgetInv, StepsInOrder, EndsInTime
<1> QED
  BY <1>2, <1>3, <1>4 DEF Send

\* An attempt that goes on within its send.
LEMMA OnInv ==
  ASSUME BudgetInv, night \in {"attempt", "inflight", "waiting"}, night' \in {"attempt", "inflight", "waiting"},
         UNCHANGED <<elapsed, step, again, stepEnd>>,
         \/ send' = send
         \/ night = "inflight" /\ send' = [send EXCEPT !.attempts = @ + 1] /\ send.attempts + 1 < send.allowance,
         \/ UNCHANGED <<calls, spent, exhausted>>
         \/ night = "inflight" /\ Consume /\ send' # send,
         night' = "inflight" => deadline' <= CapAt
  PROVE  BudgetInv'
<1>1. /\ spent' \in [StepId -> Nat] /\ calls' \in Nat /\ exhausted' \in BOOLEAN
      /\ \A s \in StepId : spent'[s] <= MaxRetries
      /\ \A s \in StepId : s > step => spent'[s] = 0
      /\ spent'[Here] = spent[Here] \/ (send' # send /\ spent'[Here] = spent[Here] + 1)
  BY ConsumeSpends DEF BudgetInv, BudgetTypes, StepsInOrder, Room
<1>2. Here' = Here /\ Here \in StepId /\ spent[Here] \in Nat /\ MaxRetries \in Nat
  <2>1. Here' = Here
    BY DEF Here
  <2> QED BY <2>1, HereIsStep, BudgetNumbers DEF AtWork
<1>3. send \in [attempts : Nat, allowance : Nat, window : Int]
  BY DEF BudgetInv, BudgetTypes
<1>4. /\ send' \in [attempts : Nat, allowance : Nat, window : Int] /\ send'.allowance = send.allowance
      /\ send'.attempts < send'.allowance
      /\ send' = send \/ send'.attempts = send.attempts + 1
  BY <1>3 DEF BudgetInv, Room
<1>5. BudgetTypes'
  BY <1>1, <1>4 DEF BudgetInv, BudgetTypes, NightPlace
<1>6. StepsInOrder'
  BY <1>1 DEF BudgetInv, StepsInOrder, AtWork
<1>7. spent'[Here] + send'.allowance - send'.attempts <= MaxRetries
  <2>1. spent[Here] + send.allowance - send.attempts <= MaxRetries
    BY DEF BudgetInv, Room
  <2>2. send.allowance \in Nat /\ send.attempts \in Nat /\ spent'[Here] \in Nat
    BY <1>1, <1>2, <1>3
  <2> QED BY <1>1, <1>2, <1>4, <2>1, <2>2
<1>8. Room'
  BY <1>1, <1>2, <1>4, <1>7 DEF Room
<1> QED
  BY <1>5, <1>6, <1>8 DEF BudgetInv, EndsInTime, CapAt

LEMMA AttemptInv == ASSUME BudgetInv, Attempt PROVE BudgetInv'
<1>1. CASE SettleStep
  BY <1>1, SettleStepInv DEF Attempt, AtWork
<1>2. CASE night' = "inflight" /\ deadline' = elapsed + Window /\ UNCHANGED <<elapsed, step, again, stepEnd, send>>
  <2>1. Window <= CapAt - elapsed /\ Window \in Int /\ elapsed \in Int /\ CapAt \in Int
    BY BudgetNumbers DEF Window, CapAt, BudgetInv, BudgetTypes
  <2>2. deadline' <= CapAt
    BY <1>2, <2>1
  <2> QED BY <1>2, <2>2, OnInv DEF Attempt, Unspent
<1> QED BY <1>1, <1>2 DEF Attempt

LEMMA AnswersInv == ASSUME BudgetInv, Answers PROVE BudgetInv'
<1>1. CASE SettleStep
  BY <1>1, SettleStepInv DEF Answers, AtWork
<1>2. CASE night' = "heard" /\ UNCHANGED <<elapsed, step, again, stepEnd, send, deadline>>
  <2>1. night = "inflight" /\ Consume
    BY DEF Answers
  <2>2. BudgetTypes'
    BY <1>2, <2>1, ConsumeSpends DEF BudgetInv, BudgetTypes, NightPlace
  <2> QED
    BY <1>2, <2>1, <2>2, ConsumeSpends DEF BudgetInv, StepsInOrder, AtWork, Room, EndsInTime
<1> QED BY <1>1, <1>2 DEF Answers

LEMMA AnswersEmptyInv ==
  ASSUME BudgetInv, NEW essential \in BOOLEAN, AnswersEmpty(essential) PROVE BudgetInv'
<1>1. night = "inflight" /\ Consume /\ night \in AtWork
  BY DEF AnswersEmpty, AtWork
<1>2. CASE SettleStep
  BY <1>1, <1>2, SettleStepInv
<1>3. CASE StopSteps(FALSE)
  BY <1>1, <1>3, StopStepsInv
<1>4. CASE /\ night' = "attempt" /\ send' = [send EXCEPT !.attempts = @ + 1] /\ ~(send.attempts + 1 >= send.allowance)
           /\ UNCHANGED <<elapsed, step, again, stepEnd, deadline>>
  <2>1. send.attempts + 1 < send.allowance /\ send' # send
    BY <1>4 DEF BudgetInv, BudgetTypes
  <2> QED BY <1>1, <1>4, <2>1, OnInv
<1> QED BY <1>2, <1>3, <1>4 DEF AnswersEmpty

LEMMA RejectedInv ==
  ASSUME BudgetInv, NEW reached \in BOOLEAN, NEW final \in BOOLEAN, NEW hint \in Hints, Rejected(reached, final, hint)
  PROVE  BudgetInv'
<1>1. night = "inflight" /\ night \in AtWork /\ (Unspent \/ Consume)
  BY DEF Rejected, AtWork
<1>2. CASE SettleStep
  BY <1>1, <1>2, SettleStepInv
<1>3. CASE StopSteps(TRUE)
  BY <1>1, <1>3, StopStepsInv
<1>4. CASE /\ Retries /\ send' = [send EXCEPT !.attempts = @ + 1] /\ night' = "waiting"
           /\ UNCHANGED <<elapsed, step, again, stepEnd>>
  <2>1. send.attempts + 1 < send.allowance /\ send' # send
    BY <1>4 DEF BudgetInv, BudgetTypes, Retries
  <2> QED BY <1>1, <1>4, <2>1, OnInv DEF Unspent
<1> QED BY <1>2, <1>3, <1>4 DEF Rejected

LEMMA BudgetStepInv == ASSUME BudgetInv, [BudgetNext]_budgetVars PROVE BudgetInv'
<1>1. CASE UNCHANGED budgetVars
  BY <1>1 DEF budgetVars, BudgetInv, BudgetTypes, StepsInOrder, Room, EndsInTime, Here, CapAt
<1>2. CASE Accept
  BY <1>2, SettleStepInv DEF Accept, AtWork
<1>3. CASE DeadlinePasses
  BY <1>3, StopStepsInv DEF DeadlinePasses, AtWork
<1>4. CASE NotAdmitted
  BY <1>4, StopStepsInv DEF NotAdmitted, AtWork
<1>5. CASE WaitEnds
  BY <1>5, OnInv DEF WaitEnds
<1>6. CASE Abort
  <2>1. BudgetTypes'
    BY <1>6, BudgetNumbers DEF Abort, BudgetInv, BudgetTypes, NightPlace, NoSend
  <2> QED
    BY <1>6, <2>1 DEF Abort, BudgetInv, StepsInOrder, Room, EndsInTime, AtWork
<1>7. CASE BudgetTick
  BY <1>7 DEF BudgetTick, BudgetInv, BudgetTypes, StepsInOrder, Room, EndsInTime, Here, CapAt
<1> QED
  BY <1>1, <1>2, <1>3, <1>4, <1>5, <1>6, <1>7, DispatchStepInv, BeginReviewInv, CorrectInv, SendInv,
     AttemptInv, AnswersInv, RepeatInv, AnswersEmptyInv, RejectedInv DEF BudgetNext

LEMMA BudgetInvariant == BudgetSpec => []BudgetInv
<1>1. BudgetInv /\ [BudgetNext]_budgetVars => BudgetInv'
  BY BudgetStepInv
<1> QED
  BY <1>1, BudgetInitInv, PTL DEF BudgetSpec

\* For every number of steps, calls and attempts, every schedule of waits and every
\* length of a cycle: no work item has more attempts than it is allowed, however the
\* refusals, corrections and repetitions fall, and none begins too late to clean up.
THEOREM AllowanceIsKept == BudgetSpec => []AllowanceKept
<1>1. BudgetInv => AllowanceKept
  BY DEF BudgetInv, Room, EndsInTime, AllowanceKept
<1> QED
  BY <1>1, BudgetInvariant, PTL

------------------------------------------------------------------------------
(* The coordinator of sleep: SleepCoordinator.                              *)

CoordinatorTyped ==
  /\ active \in SleepRun \cup {NoRun} /\ last \in RunRecord /\ sidecar \in RunRecord
  /\ result \in [SleepRun -> RunEnded \cup {"none", "running", "lost"}]
  /\ unwritten \subseteq SleepRun

\* The runs are begun in the order of their numbers, and the active one is the last.
RunsBegun ==
  /\ active # NoRun => result[active] = "running"
  /\ active # NoRun => \A s \in SleepRun : s > active => result[s] = "none"
  /\ \A s, t \in SleepRun : s < t /\ result[s] = "none" => result[t] = "none"

\* What a record says of its run.
RecordTrue(record) ==
  record.run # NoRun =>
    /\ record.status # "none" /\ record.status \in {"interrupted", result[record.run]}
    /\ result[record.run] # "none"

\* A run that ended or was replaced has a record, or a newer one has.
RecordsCover ==
  \A r \in SleepRun : result[r] \in RunEnded \cup {"running"} /\ r # active =>
    r \in unwritten \/ (sidecar.run >= r /\ last.run >= r)

RunsInv == CoordinatorTyped /\ RunsBegun /\ RecordTrue(last) /\ RecordTrue(sidecar) /\ RecordsCover

\* The ring keeps the last events there were.
RingType == [id : Nat, items : SUBSET Nat, next : Nat \ {0}, terminal : BOOLEAN]
RingWhole(R) ==
  /\ R \in RingType
  /\ \E n \in 1..R.next : R.items = n..(R.next - 1) /\ (R.next > 1 => n < R.next)

ReaderType == [waits : BOOLEAN, ring : Nat, cursor : Nat, got : SUBSET Nat, gap : BOOLEAN]
ReaderHas(q) == ~q.gap => 1..q.cursor \subseteq q.got
ReaderWaits(q) ==
  /\ q.ring <= ring.id
  /\ q.waits /\ q.ring = ring.id => ~ring.terminal /\ EventsAfter(ring, q.cursor) = {}

RingInv ==
  /\ RingWhole(ring) /\ polls \in [Reader -> ReaderType]
  /\ \A q \in Reader : ReaderHas(polls[q]) /\ ReaderWaits(polls[q])

(* The ring *)

\* The first of a range of events are a range.
LEMMA FirstOfRange ==
  ASSUME CoordinatorAssumption, NEW a \in Nat, NEW b \in Nat, a <= b
  PROVE  \E m \in a..b : FirstOf(a..b) = a..m
<1>1. \A e \in a..b : {f \in a..b : f < e} = a..(e - 1)
  OBVIOUS
<1>2. \A e \in a..b : Cardinality(a..(e - 1)) = e - a
  <2> SUFFICES ASSUME NEW e \in a..b PROVE Cardinality(a..(e - 1)) = e - a
    OBVIOUS
  <2>1. a \in Int /\ e - 1 \in Int
    OBVIOUS
  <2>2. Cardinality(a..(e - 1)) = IF a > e - 1 THEN 0 ELSE (e - 1) - a + 1
    BY <2>1, FS_Interval
  <2> QED
    BY <2>2
<1>3. FirstOf(a..b) = {e \in a..b : e - a < EventLimit}
  BY <1>1, <1>2 DEF FirstOf
<1>4. EventLimit \in Nat /\ EventLimit > 0
  BY DEF CoordinatorAssumption
<1>5. CASE a + EventLimit - 1 <= b
  <2>1. a + EventLimit - 1 \in a..b
    BY <1>4, <1>5
  <2>2. {e \in a..b : e - a < EventLimit} = a..(a + EventLimit - 1)
    BY <1>4, <1>5
  <2> QED
    BY <1>3, <2>1, <2>2
<1>6. CASE ~(a + EventLimit - 1 <= b)
  <2>1. {e \in a..b : e - a < EventLimit} = a..b
    BY <1>4, <1>6
  <2>2. b \in a..b
    OBVIOUS
  <2> QED
    BY <1>3, <2>1, <2>2
<1> QED
  BY <1>5, <1>6

\* A ring that is told one more event is whole again.
LEMMA PushedRing ==
  ASSUME CoordinatorAssumption, NEW R, RingWhole(R)
  PROVE  /\ RingWhole(Pushed(R)) /\ Pushed(R).id = R.id /\ Pushed(R).terminal = R.terminal
         /\ Pushed(R).next \in {R.next, R.next + 1}
         /\ R.terminal \/ Pushed(R).next = R.next + 1
<1>1. CASE R.terminal
  BY <1>1 DEF Pushed, RingWhole, RingType
<1>2. CASE ~R.terminal
  <2> DEFINE more == R.items \cup {R.next}
             items == IF Cardinality(more) > Capacity THEN {e \in more : \E f \in more : f < e}
                      ELSE more
  <2>1. Pushed(R) = [id |-> R.id, next |-> R.next + 1, terminal |-> FALSE, items |-> items]
    BY <1>2 DEF Pushed
  <2>2. R.next \in Nat /\ R.next > 0 /\ R.items \in SUBSET Nat
    BY DEF RingWhole, RingType
  <2>3. PICK n \in 1..R.next : R.items = n..(R.next - 1)
    BY DEF RingWhole
  <2>4. more = n..R.next
    BY <2>2, <2>3
  <2>5. n \in Int /\ R.next \in Int /\ n <= R.next /\ n >= 1
    BY <2>2, <2>3
  <2>6. Cardinality(more) = R.next - n + 1
    <3>1. Cardinality(n..R.next) = IF n > R.next THEN 0 ELSE R.next - n + 1
      BY <2>5, FS_Interval
    <3>2. Cardinality(n..R.next) = R.next - n + 1
      BY <2>5, <3>1
    <3> QED
      BY <2>4, <3>2
  <2>7. \E m \in 1..R.next : items = m..R.next
    <3>1. CASE Cardinality(more) > Capacity
      <4>1. n < R.next
        BY <2>5, <2>6, <3>1 DEF CoordinatorAssumption
      <4>2. {e \in more : \E f \in more : f < e} = (n + 1)..R.next
        <5>1. n \in more /\ \A e \in more : e \in Int /\ n <= e
          BY <2>4, <2>5
        <5>2. \A e \in more : (\E f \in more : f < e) <=> n < e
          BY <5>1, <2>4, <2>5
        <5> QED
          BY <2>4, <2>5, <5>2
      <4>3. n + 1 \in 1..R.next
        BY <2>5, <4>1
      <4> QED
        BY <3>1, <4>2, <4>3
    <3>2. CASE ~(Cardinality(more) > Capacity)
      BY <2>3, <2>4, <3>2
    <3> QED
      BY <3>1, <3>2
  <2> HIDE DEF items
  <2>8. items \in SUBSET Nat
    BY <2>7, <2>2
  <2> DEFINE P == Pushed(R)
  <2> HIDE DEF P
  <2>9. /\ P \in RingType /\ P.next = R.next + 1 /\ P.items = items
        /\ P.id = R.id /\ P.terminal = R.terminal
    <3>1. R.next + 1 \in Nat \ {0} /\ R.id \in Nat /\ R.terminal = FALSE
      BY <1>2, <2>2 DEF RingWhole, RingType
    <3>2. P = [id |-> R.id, next |-> R.next + 1, terminal |-> FALSE, items |-> items]
      BY ONLY <2>1 DEF P
    <3>3. P.next = R.next + 1 /\ P.items = items /\ P.id = R.id /\ P.terminal = FALSE
      BY ONLY <3>2
    <3>4. P \in RingType
      BY ONLY <3>1, <3>2, <2>8 DEF RingType
    <3> QED
      BY ONLY <3>1, <3>3, <3>4
  <2>10. PICK m \in 1..R.next : items = m..R.next
    BY <2>7
  <2>11. m \in 1..(R.next + 1) /\ R.next + 1 - 1 = R.next /\ m < R.next + 1
    BY <2>2
  <2>12. RingWhole(P)
    <3>1. P.next - 1 = R.next
      BY ONLY <2>2, <2>9
    <3>2. m \in 1..P.next /\ m < P.next
      BY ONLY <2>9, <2>11
    <3>3. P.items = m..(P.next - 1)
      BY ONLY <2>9, <2>10, <3>1
    <3> QED
      BY ONLY <2>9, <3>2, <3>3 DEF RingWhole
  <2> QED
    BY <1>2, <2>9, <2>12 DEF P
<1> QED
  BY <1>1, <1>2

\* What a reader is given makes up for what it was not, unless it is told of a gap.
LEMMA GivenRange ==
  ASSUME NEW q \in ReaderType, ReaderHas(q), NEW R, R.id \in Nat, NEW gap \in BOOLEAN,
         NEW a \in Nat, NEW b \in Nat, a <= b,
         gap \/ a <= (IF q.ring = R.id THEN q.cursor ELSE 0) + 1
  PROVE  /\ GivenEvents(q, R, a..b, gap) \in ReaderType
         /\ ReaderHas(GivenEvents(q, R, a..b, gap))
         /\ GivenEvents(q, R, a..b, gap).ring = R.id /\ ~GivenEvents(q, R, a..b, gap).waits
<1> DEFINE same == q.ring = R.id
           c == IF same THEN q.cursor ELSE 0
           had == IF same THEN q.got ELSE {}
           heard == gap \/ (same /\ q.gap)
<1>1. c \in Nat /\ had \in SUBSET Nat /\ heard \in BOOLEAN
  BY DEF ReaderType
<1>2. Newest(a..b) = b
  <2>1. b \in a..b /\ \A f \in a..b : f <= b
    OBVIOUS
  <2>2. \A e \in a..b : (\A f \in a..b : f <= e) => e = b
    OBVIOUS
  <2> QED
    BY <2>1, <2>2 DEF Newest
<1>3. a..b # {} /\ a..b \in SUBSET Nat
  OBVIOUS
<1>4. ~heard => 1..c \subseteq had /\ a <= c + 1
  BY DEF ReaderHas, ReaderType
<1>5. GivenEvents(q, R, a..b, gap) =
        [waits |-> FALSE, ring |-> R.id, cursor |-> b, got |-> had \cup (a..b), gap |-> heard]
  BY <1>2, <1>3 DEF GivenEvents
<1> HIDE DEF c, had, heard
<1>6. ~heard => 1..b \subseteq had \cup (a..b)
  BY <1>1, <1>4
<1> DEFINE g == GivenEvents(q, R, a..b, gap)
<1> HIDE DEF g
<1>7. had \cup (a..b) \in SUBSET Nat
  BY <1>1, <1>3
<1>8. /\ g \in ReaderType /\ g.waits = FALSE /\ g.ring = R.id /\ g.cursor = b
      /\ g.got = had \cup (a..b) /\ g.gap = heard
  <2>1. g = [waits |-> FALSE, ring |-> R.id, cursor |-> b, got |-> had \cup (a..b), gap |-> heard]
    BY ONLY <1>5 DEF g
  <2>2. /\ g.waits = FALSE /\ g.ring = R.id /\ g.cursor = b
        /\ g.got = had \cup (a..b) /\ g.gap = heard
    BY ONLY <2>1
  <2>3. g \in ReaderType
    BY ONLY <1>1, <1>7, <2>1, R.id \in Nat, b \in Nat DEF ReaderType
  <2> QED
    BY ONLY <2>2, <2>3
<1> QED
  BY <1>6, <1>8 DEF g, ReaderHas

LEMMA GivenNothing ==
  ASSUME NEW q \in ReaderType, ReaderHas(q), NEW R, R.id \in Nat, NEW gap \in BOOLEAN
  PROVE  /\ GivenEvents(q, R, {}, gap) \in ReaderType
         /\ ReaderHas(GivenEvents(q, R, {}, gap))
         /\ GivenEvents(q, R, {}, gap).ring = R.id /\ ~GivenEvents(q, R, {}, gap).waits
         /\ GivenEvents(q, R, {}, gap).cursor = (IF q.ring = R.id THEN q.cursor ELSE 0)
<1> DEFINE same == q.ring = R.id
           c == IF same THEN q.cursor ELSE 0
           had == IF same THEN q.got ELSE {}
           heard == gap \/ (same /\ q.gap)
<1>1. c \in Nat /\ had \in SUBSET Nat /\ heard \in BOOLEAN
  BY DEF ReaderType
<1>2. ~heard => 1..c \subseteq had
  BY DEF ReaderHas, ReaderType
<1>3. GivenEvents(q, R, {}, gap) =
        [waits |-> FALSE, ring |-> R.id, cursor |-> c, got |-> had, gap |-> heard]
  BY DEF GivenEvents
<1> HIDE DEF heard, had
<1> DEFINE g == GivenEvents(q, R, {}, gap)
<1> HIDE DEF g, c
<1>4. /\ g \in ReaderType /\ g.waits = FALSE /\ g.ring = R.id /\ g.cursor = c
      /\ g.got = had /\ g.gap = heard
  <2>1. g = [waits |-> FALSE, ring |-> R.id, cursor |-> c, got |-> had, gap |-> heard]
    BY ONLY <1>3 DEF g
  <2>2. /\ g.waits = FALSE /\ g.ring = R.id /\ g.cursor = c
        /\ g.got = had /\ g.gap = heard
    BY ONLY <2>1
  <2>3. g \in ReaderType
    BY ONLY <1>1, <2>1, R.id \in Nat DEF ReaderType
  <2> QED
    BY ONLY <2>2, <2>3
<1> QED
  BY <1>2, <1>4 DEF g, c, ReaderHas

LEMMA FirstOfNone == FirstOf({}) = {}
BY DEF FirstOf

LEMMA EndedRing ==
  ASSUME NEW R, RingWhole(R)
  PROVE  /\ RingWhole([R EXCEPT !.terminal = TRUE]) /\ [R EXCEPT !.terminal = TRUE].id = R.id
<1> DEFINE P == [R EXCEPT !.terminal = TRUE]
<1>1. R \in RingType
  BY DEF RingWhole
<1>2. P \in RingType /\ P.id = R.id /\ P.next = R.next /\ P.items = R.items
  BY <1>1 DEF RingType
<1> HIDE DEF P
<1>3. RingWhole(P)
  BY <1>2 DEF RingWhole
<1> QED
  BY <1>2, <1>3 DEF P

LEMMA FreshRingWhole ==
  ASSUME NEW n \in Nat
  PROVE  /\ RingWhole(FreshRing(n)) /\ FreshRing(n).id = n /\ ~FreshRing(n).terminal
<1> DEFINE P == FreshRing(n)
<1>1. P \in RingType /\ P.id = n /\ P.next = 1 /\ P.items = {} /\ P.terminal = FALSE
  BY DEF FreshRing, RingType
<1> HIDE DEF P
<1>2. P.items = 1..(P.next - 1) /\ 1 \in 1..P.next /\ ~(P.next > 1)
  BY <1>1
<1>3. RingWhole(P)
  BY <1>1, <1>2 DEF RingWhole
<1> QED
  BY <1>1, <1>3 DEF P

\* Nobody misses an event by being woken, and nobody is left waiting.
LEMMA WakeKeeps ==
  ASSUME CoordinatorAssumption, RingInv, NEW R, RingWhole(R), R.id = ring.id,
         R.next \in {ring.next, ring.next + 1}
  PROVE  /\ Woken(R) \in [Reader -> ReaderType]
         /\ \A q \in Reader : /\ ReaderHas(Woken(R)[q]) /\ Woken(R)[q].ring <= ring.id
                              /\ ~(Woken(R)[q].waits /\ Woken(R)[q].ring = ring.id)
<1> DEFINE g(q) == GivenEvents(polls[q], R, FirstOf(R.items), FALSE)
<1>1. ring.id \in Nat /\ ring.next \in Nat /\ ring.next > 0 /\ R.next \in Nat /\ R.next > 0
  BY DEF RingInv, RingWhole, RingType
<1>2. PICK n \in 1..ring.next : ring.items = n..(ring.next - 1) /\ (ring.next > 1 => n < ring.next)
  BY DEF RingInv, RingWhole
<1>3. PICK m \in 1..R.next : R.items = m..(R.next - 1) /\ (R.next > 1 => m < R.next)
  BY DEF RingWhole
<1>4. ASSUME NEW q \in Reader, polls[q].waits, polls[q].ring = R.id
      PROVE  g(q) \in ReaderType /\ ReaderHas(g(q)) /\ g(q).ring = R.id /\ ~g(q).waits
  <2> DEFINE p == polls[q]
             no == FALSE
  <2>0. no \in BOOLEAN
    OBVIOUS
  <2>1. p \in ReaderType /\ ReaderHas(p) /\ p.cursor \in Nat /\ EventsAfter(ring, p.cursor) = {}
    BY <1>4 DEF RingInv, ReaderType, ReaderWaits
  <2>2. \A e \in ring.items : ~(e > p.cursor)
    BY <2>1 DEF EventsAfter
  <2> HIDE DEF p
  <2>3. ring.next - 1 <= p.cursor
    <3>1. CASE ring.next > 1
      <4>1. ring.next - 1 \in ring.items
        BY ONLY <1>1, <1>2, <3>1
      <4> QED
        BY ONLY <1>1, <2>1, <2>2, <4>1
    <3>2. CASE ~(ring.next > 1)
      BY ONLY <1>1, <2>1, <3>2
    <3> QED
      BY <3>1, <3>2
  <2>4. CASE R.next > 1
    <3>1. m \in Nat /\ R.next - 1 \in Nat /\ m <= R.next - 1
      BY <1>1, <1>3, <2>4
    <3>2. PICK k \in m..(R.next - 1) : FirstOf(R.items) = m..k
      BY <1>3, <3>1, FirstOfRange
    <3>3. k \in Nat /\ m <= k /\ m <= p.cursor + 1
      BY <1>1, <2>1, <2>3, <3>1
    <3>4. no \/ m <= (IF p.ring = R.id THEN p.cursor ELSE 0) + 1
      BY <1>4, <3>3 DEF p
    <3>5. R.id \in Nat
      BY <1>1
    <3>6. g(q) = GivenEvents(p, R, m..k, no)
      BY <3>2 DEF p
    <3> HIDE DEF g, no
    <3>7. /\ GivenEvents(p, R, m..k, no) \in ReaderType /\ ReaderHas(GivenEvents(p, R, m..k, no))
          /\ GivenEvents(p, R, m..k, no).ring = R.id /\ ~GivenEvents(p, R, m..k, no).waits
      BY ONLY <2>0, <2>1, <3>1, <3>3, <3>4, <3>5, GivenRange
    <3> QED
      BY ONLY <3>6, <3>7
  <2>5. CASE ~(R.next > 1)
    <3>1. R.items = {}
      BY <1>1, <1>3, <2>5
    <3>2. g(q) = GivenEvents(p, R, {}, no) /\ R.id \in Nat
      BY <1>1, <3>1, FirstOfNone DEF p
    <3> HIDE DEF g, no
    <3> QED
      BY ONLY <2>0, <2>1, <3>2, GivenNothing
  <2> QED
    BY <2>4, <2>5
<1>5. \A q \in Reader :
        Woken(R)[q] = IF polls[q].waits /\ polls[q].ring = R.id THEN g(q) ELSE polls[q]
  BY DEF Woken
<1>6. \A q \in Reader : polls[q] \in ReaderType /\ ReaderHas(polls[q]) /\ polls[q].ring <= ring.id
  BY DEF RingInv, ReaderWaits
<1> HIDE DEF g
<1> DEFINE w(q) == Woken(R)[q]
<1>7. ASSUME NEW q \in Reader
      PROVE  /\ w(q) \in ReaderType /\ ReaderHas(w(q)) /\ w(q).ring <= ring.id
             /\ ~(w(q).waits /\ w(q).ring = ring.id)
  <2>1. CASE polls[q].waits /\ polls[q].ring = R.id
    <3>1. w(q) = g(q)
      BY <1>5, <2>1
    <3> HIDE DEF w
    <3> QED
      BY <1>1, <1>4, <2>1, <3>1
  <2>2. CASE ~(polls[q].waits /\ polls[q].ring = R.id)
    <3>1. w(q) = polls[q]
      BY <1>5, <2>2
    <3> HIDE DEF w
    <3> QED
      BY <1>6, <2>2, <3>1
  <2> QED
    BY <2>1, <2>2
<1>8. Woken(R) = [q \in Reader |-> w(q)]
  BY DEF Woken
<1> HIDE DEF w
<1>9. Woken(R) \in [Reader -> ReaderType]
  BY <1>7, <1>8
<1> QED
  BY <1>7, <1>9 DEF w

LEMMA RingWoken ==
  ASSUME CoordinatorAssumption, RingInv, NEW R, RingWhole(R), R.id = ring.id,
         R.next \in {ring.next, ring.next + 1},
         polls' = Woken(R), RingWhole(ring)', ring'.id = ring.id
  PROVE  RingInv'
<1>1. /\ polls' \in [Reader -> ReaderType]
      /\ \A q \in Reader : /\ ReaderHas(polls'[q]) /\ polls'[q].ring <= ring.id
                           /\ ~(polls'[q].waits /\ polls'[q].ring = ring.id)
  BY WakeKeeps
<1>2. \A q \in Reader : ReaderHas(polls[q])' /\ ReaderWaits(polls[q])'
  BY <1>1 DEF ReaderHas, ReaderWaits
<1> QED
  BY <1>1, <1>2 DEF RingInv

LEMMA RingKept ==
  ASSUME RingInv, UNCHANGED <<ring, polls>>
  PROVE  RingInv'
BY DEF RingInv, RingWhole, ReaderHas, ReaderWaits, EventsAfter

LEMMA RingBegun ==
  ASSUME CoordinatorAssumption, RingInv, BeginRun
  PROVE  RingInv'
<1>1. ring.id + 1 \in Nat /\ ring.id \in Nat
  BY DEF RingInv, RingWhole, RingType
<1>2. RingWhole(FreshRing(ring.id + 1)) /\ FreshRing(ring.id + 1).id = ring.id + 1
  BY <1>1, FreshRingWhole
<1>3. RingWhole(ring') /\ ring'.id = ring.id + 1 /\ UNCHANGED polls
  BY <1>2, PushedRing DEF BeginRun
<1>4. \A q \in Reader : polls[q] \in ReaderType /\ ReaderHas(polls[q]) /\ polls[q].ring <= ring.id
  BY DEF RingInv, ReaderWaits
<1>5. \A q \in Reader : polls[q].ring <= ring'.id /\ polls[q].ring # ring'.id
  BY <1>1, <1>3, <1>4 DEF ReaderType
<1>6. \A q \in Reader : ReaderHas(polls[q])' /\ ReaderWaits(polls[q])'
  BY <1>3, <1>4, <1>5 DEF ReaderWaits, ReaderHas
<1> QED
  BY <1>3, <1>6 DEF RingInv, RingWhole

LEMMA RingTold ==
  ASSUME CoordinatorAssumption, RingInv, ring' = Pushed(ring), polls' = Woken(ring')
  PROVE  RingInv'
<1>1. /\ RingWhole(Pushed(ring)) /\ Pushed(ring).id = ring.id
      /\ Pushed(ring).next \in {ring.next, ring.next + 1}
  BY PushedRing DEF RingInv
<1>2. polls' = Woken(Pushed(ring)) /\ RingWhole(ring)' /\ ring'.id = ring.id
  BY <1>1 DEF RingWhole
<1> QED
  BY <1>1, <1>2, RingWoken

LEMMA RingSettled ==
  ASSUME CoordinatorAssumption, RingInv, NEW heard, NEW left, RingWhole(heard), RingWhole(left),
         heard.id = ring.id, left.id = ring.id, heard.next \in {ring.next, ring.next + 1},
         ring' = [left EXCEPT !.terminal = TRUE], polls' = Woken(heard)
  PROVE  RingInv'
<1>1. RingWhole(ring)' /\ ring'.id = ring.id
  BY EndedRing DEF RingWhole
<1> QED
  BY <1>1, RingWoken

LEMMA RingSettle ==
  ASSUME CoordinatorAssumption, RingInv, NEW r, NEW status, NEW resumable, NEW heard, NEW left,
         RingWhole(heard), RingWhole(left), heard.id = ring.id, left.id = ring.id,
         heard.next \in {ring.next, ring.next + 1}, SettleRun(r, status, resumable, heard, left)
  PROVE  RingInv'
<1>1. CASE Concerns(r)
  BY <1>1, RingSettled DEF SettleRun
<1>2. CASE ~Concerns(r)
  BY <1>2, RingKept DEF SettleRun
<1> QED
  BY <1>1, <1>2

LEMMA RingShut ==
  ASSUME CoordinatorAssumption, RingInv, CoordinatorShutdown
  PROVE  RingInv'
<1>1. /\ RingWhole(Pushed(ring)) /\ Pushed(ring).id = ring.id /\ RingWhole(ring)
      /\ Pushed(ring).next \in {ring.next, ring.next + 1}
  BY PushedRing DEF RingInv
<1>2. PICK R \in {ring, Pushed(ring)} : ring' = [R EXCEPT !.terminal = TRUE]
  BY DEF CoordinatorShutdown
<1>3. RingWhole(R) /\ R.id = ring.id /\ R.next \in {ring.next, ring.next + 1}
  BY <1>1, <1>2
<1>4. R \in RingType
  BY <1>3 DEF RingWhole
<1>5. ring'.next = R.next
  BY <1>2, <1>4 DEF RingType
<1>6. RingWhole(ring') /\ ring'.id = ring.id /\ ring'.next \in {ring.next, ring.next + 1}
  BY <1>2, <1>3, <1>5, EndedRing
<1>7. polls' = Woken(ring') /\ RingWhole(ring)'
  BY <1>6 DEF CoordinatorShutdown, RingWhole
<1> QED
  BY <1>6, <1>7, RingWoken

LEMMA RingRestarted ==
  ASSUME CoordinatorAssumption, RingInv, CoordinatorRestarts
  PROVE  RingInv'
<1>1. ring.id + 1 \in Nat
  BY DEF RingInv, RingWhole, RingType
<1>2. RingWhole(ring') /\ ring'.id = ring.id + 1
  BY <1>1, FreshRingWhole DEF CoordinatorRestarts
<1>3. polls' \in [Reader -> ReaderType] /\ \A q \in Reader : polls'[q] = NewReader
  BY DEF CoordinatorRestarts, NewReader, ReaderType
<1>4. ReaderHas(NewReader) /\ NewReader.ring = 0 /\ ~NewReader.waits
  BY DEF NewReader, ReaderHas
<1>5. \A q \in Reader : ReaderHas(polls[q])' /\ ReaderWaits(polls[q])'
  BY <1>1, <1>2, <1>3, <1>4 DEF ReaderHas, ReaderWaits
<1> QED
  BY <1>2, <1>3, <1>5 DEF RingInv, RingWhole

\* One reader changes, and has what it should.
LEMMA OneReader ==
  ASSUME RingInv, UNCHANGED ring, NEW q \in Reader, NEW g \in ReaderType,
         polls' = [polls EXCEPT ![q] = g], ReaderHas(g), ReaderWaits(g)
  PROVE  RingInv'
<1>1. polls' \in [Reader -> ReaderType]
  BY DEF RingInv
<1>2. \A p \in Reader : polls'[p] = IF p = q THEN g ELSE polls[p]
  BY DEF RingInv
<1>3. \A p \in Reader : ReaderHas(polls'[p]) /\ ReaderWaits(polls'[p])
  BY <1>2 DEF RingInv
<1>4. \A p \in Reader : ReaderHas(polls[p])' /\ ReaderWaits(polls[p])'
  BY <1>3 DEF ReaderHas, ReaderWaits, EventsAfter
<1> QED
  BY <1>1, <1>4 DEF RingInv, RingWhole

LEMMA PollEnded ==
  ASSUME RingInv, NEW q \in Reader, PollEnds(q)
  PROVE  RingInv'
<1> DEFINE g == [polls[q] EXCEPT !.waits = FALSE]
<1>1. polls[q] \in ReaderType /\ ReaderHas(polls[q]) /\ polls[q].ring <= ring.id
  BY DEF RingInv, ReaderWaits
<1>2. /\ g \in ReaderType /\ ~g.waits /\ g.ring = polls[q].ring
      /\ g.cursor = polls[q].cursor /\ g.got = polls[q].got /\ g.gap = polls[q].gap
  BY <1>1 DEF ReaderType
<1>3. polls' = [polls EXCEPT ![q] = g] /\ UNCHANGED ring
  BY DEF PollEnds
<1> HIDE DEF g
<1>4. ReaderHas(g) /\ ReaderWaits(g)
  BY <1>1, <1>2 DEF ReaderHas, ReaderWaits
<1> QED
  BY <1>2, <1>3, <1>4, OneReader

\* A reader that is answered is given the first of what it has not got, or told of a gap.
LEMMA ReadKeeps ==
  ASSUME CoordinatorAssumption, RingInv, NEW q \in Reader, ReadEvents(q)
  PROVE  RingInv'
<1> DEFINE p == polls[q]
           after == IF p.ring = ring.id THEN p.cursor ELSE 0
           events == EventsAfter(ring, after)
           gap == GapAfter(ring, after) \/ (after > 0 /\ events = {})
           no == FALSE
<1>1. /\ polls' = [polls EXCEPT ![q] =
           IF events # {} \/ ring.terminal THEN GivenEvents(p, ring, FirstOf(events), gap)
           ELSE [GivenEvents(p, ring, {}, no) EXCEPT !.waits = TRUE]]
      /\ UNCHANGED ring
  BY DEF ReadEvents
<1>2. /\ p \in ReaderType /\ ReaderHas(p) /\ after \in Nat /\ ring.id \in Nat /\ ring.next \in Nat
      /\ ring.next > 0
  BY DEF RingInv, RingWhole, RingType, ReaderType
<1>3. PICK n \in 1..ring.next : ring.items = n..(ring.next - 1)
  BY DEF RingInv, RingWhole
<1>4. gap \in BOOLEAN /\ no \in BOOLEAN
  BY DEF GapAfter
<1>5. events = {e \in n..(ring.next - 1) : e > after}
  BY <1>3 DEF EventsAfter
<1>6. events # {} /\ ~gap => \E e \in events : e <= after + 1
  <2>1. events # {} /\ ~gap => \E e \in events : ~(e > after + 1)
    BY DEF GapAfter
  <2>2. \A e \in events : e \in Int
    BY <1>5
  <2> HIDE DEF events, gap
  <2> QED
    BY <1>2, <2>1, <2>2
<1>7. after = IF p.ring = ring.id THEN p.cursor ELSE 0
  OBVIOUS
<1>8. CASE events # {}
  <2> DEFINE a == IF n > after THEN n ELSE after + 1
             b == ring.next - 1
  <2> HIDE DEF events, gap, after
  <2>1. a \in Nat /\ b \in Nat
    BY <1>2
  <2>2. events = a..b
    BY ONLY <1>2, <1>5, n \in Nat
  <2> HIDE DEF a, b
  <2>3. a <= b
    BY ONLY <1>8, <2>1, <2>2
  <2>4. \A e \in events : a <= e
    BY ONLY <2>1, <2>2
  <2>5. gap \/ a <= after + 1
    BY <1>2, <1>6, <1>8, <2>1, <2>2, <2>4
  <2>6. PICK k \in a..b : FirstOf(a..b) = a..k
    BY <2>1, <2>3, FirstOfRange
  <2>7. k \in Nat /\ a <= k
    BY <2>1
  <2> DEFINE g == GivenEvents(p, ring, a..k, gap)
  <2>8. polls' = [polls EXCEPT ![q] = g] /\ UNCHANGED ring
    BY <1>1, <1>8, <2>2, <2>6
  <2> HIDE DEF p
  <2>9. gap \/ a <= (IF p.ring = ring.id THEN p.cursor ELSE 0) + 1
    BY ONLY <1>7, <2>5
  <2>10. g \in ReaderType /\ ReaderHas(g) /\ g.ring = ring.id /\ ~g.waits
    BY ONLY <1>2, <1>4, <2>1, <2>7, <2>9, GivenRange
  <2> HIDE DEF g
  <2>11. ReaderWaits(g)
    BY <1>2, <2>10 DEF ReaderWaits
  <2> QED
    BY <2>8, <2>10, <2>11, OneReader
<1>9. CASE events = {} /\ ring.terminal
  <2> HIDE DEF gap
  <2> DEFINE g == GivenEvents(p, ring, {}, gap)
  <2>1. polls' = [polls EXCEPT ![q] = g] /\ UNCHANGED ring
    BY <1>1, <1>9, FirstOfNone
  <2> HIDE DEF p
  <2>2. g \in ReaderType /\ ReaderHas(g) /\ g.ring = ring.id /\ ~g.waits
    BY ONLY <1>2, <1>4, GivenNothing
  <2> HIDE DEF g
  <2>3. ReaderWaits(g)
    BY <1>2, <2>2 DEF ReaderWaits
  <2> QED
    BY <2>1, <2>2, <2>3, OneReader
<1>10. CASE events = {} /\ ~ring.terminal
  <2> DEFINE h == GivenEvents(p, ring, {}, no)
             g == [h EXCEPT !.waits = TRUE]
  <2> HIDE DEF no, events, gap, after
  <2>0. ~(events # {} \/ ring.terminal)
    BY <1>10
  <2>1. polls' = [polls EXCEPT ![q] = g] /\ UNCHANGED ring
    BY ONLY <1>1, <2>0
  <2> HIDE DEF p
  <2>2. h \in ReaderType /\ ReaderHas(h) /\ h.ring = ring.id /\ h.cursor = after
    BY ONLY <1>2, <1>4, <1>7, GivenNothing
  <2> HIDE DEF h
  <2>3. /\ g \in ReaderType /\ g.ring = h.ring /\ g.cursor = h.cursor /\ g.got = h.got
        /\ g.gap = h.gap
    BY <2>2 DEF ReaderType
  <2> HIDE DEF g
  <2>4. ReaderHas(g)
    BY <2>2, <2>3 DEF ReaderHas
  <2>5. EventsAfter(ring, g.cursor) = {}
    BY <1>10, <2>2, <2>3 DEF events
  <2>6. ReaderWaits(g)
    BY <1>2, <1>10, <2>2, <2>3, <2>5 DEF ReaderWaits
  <2> QED
    BY <2>1, <2>3, <2>4, <2>6, OneReader
<1> QED
  BY <1>8, <1>9, <1>10

(* The runs *)

\* What a record says of its run stays true while that goes on, and when it ends.
LEMMA StaysTrue ==
  ASSUME RunsInv, NEW record \in RunRecord, RecordTrue(record),
         \A r \in SleepRun : result[r] \notin {"none", "running"} => result'[r] = result[r],
         \A r \in SleepRun : result[r] = "running" => result'[r] # "none"
  PROVE  RecordTrue(record)'
<1>1. record.run \in SleepRun \cup {NoRun} /\ record.status \notin {"running", "lost"}
  BY DEF RunRecord, RunEnded
<1> QED
  BY <1>1 DEF RecordTrue

LEMMA Persisted ==
  ASSUME NEW record \in RunRecord, RunsInv, Persist(record)
  PROVE  /\ last' = record /\ sidecar' \in {sidecar, record} /\ unwritten \subseteq unwritten'
         /\ last' \in RunRecord /\ sidecar' \in RunRecord /\ unwritten' \subseteq SleepRun
         /\ sidecar' = record \/ record.run = NoRun \/ record.run \in unwritten'
BY DEF Persist, RunsInv, CoordinatorTyped, RunRecord

LEMMA RunsKept ==
  ASSUME RunsInv, UNCHANGED <<active, last, sidecar, result, unwritten>>
  PROVE  RunsInv'
BY DEF RunsInv, CoordinatorTyped, RunsBegun, RecordTrue, RecordsCover

LEMMA RunNumbers == SleepRun \subseteq Nat /\ NoRun \notin SleepRun
BY DEF SleepRun, NoRun

\* The next run begins; the record may be repaired at the same time.
LEMMA RunsBegin ==
  ASSUME RunsInv, BeginRun, last' \in RunRecord, sidecar' \in RunRecord,
         unwritten' \subseteq SleepRun, unwritten \subseteq unwritten',
         RecordTrue(last'), RecordTrue(sidecar'),
         last'.run = last.run, sidecar'.run \in {sidecar.run, last.run}
  PROVE  RunsInv'
<1>1. PICK r \in SleepRun :
        /\ result[r] = "none" /\ \A s \in SleepRun : s < r => result[s] # "none"
        /\ active' = r /\ result' = [result EXCEPT ![r] = "running"] /\ active = NoRun
  BY DEF BeginRun
<1>2. result \in [SleepRun -> RunEnded \cup {"none", "running", "lost"}]
  BY DEF RunsInv, CoordinatorTyped
<1>3. /\ result' \in [SleepRun -> RunEnded \cup {"none", "running", "lost"}]
      /\ \A s \in SleepRun : result'[s] = IF s = r THEN "running" ELSE result[s]
  BY <1>1, <1>2
<1>4. CoordinatorTyped'
  BY <1>1, <1>3 DEF CoordinatorTyped
<1>5. RunsBegun'
  BY <1>1, <1>3, RunNumbers DEF RunsBegun, RunsInv
<1>6. RecordTrue(last)' /\ RecordTrue(sidecar)'
  <2>1. \A s \in SleepRun : result[s] \notin {"none", "running"} => result'[s] = result[s]
    BY <1>1, <1>3
  <2>2. \A s \in SleepRun : result[s] = "running" => result'[s] # "none"
    BY <1>3
  <2>3. \A record \in RunRecord : RecordTrue(record) => RecordTrue(record)'
    BY <2>1, <2>2, StaysTrue
  <2> QED
    BY <2>3 DEF RecordTrue
<1>7. RecordsCover'
  <2> SUFFICES ASSUME NEW s \in SleepRun, result'[s] \in RunEnded \cup {"running"}, s # active'
               PROVE  s \in unwritten' \/ (sidecar'.run >= s /\ last'.run >= s)
    BY DEF RecordsCover
  <2>1. result[s] \in RunEnded \cup {"running"} /\ s # active
    BY <1>1, <1>3, RunNumbers
  <2> QED
    BY <2>1 DEF RunsInv, RecordsCover
<1> QED
  BY <1>4, <1>5, <1>6, <1>7 DEF RunsInv

LEMMA RunStarts == ASSUME RunsInv, Start PROVE RunsInv'
BY RunsBegin DEF Start, RunsInv, CoordinatorTyped

LEMMA RunResumes == ASSUME RunsInv, ResumeRun PROVE RunsInv'
<1>1. BeginRun
  BY DEF ResumeRun
<1>2. CASE UNCHANGED <<last, sidecar, unwritten>>
  BY <1>1, <1>2, RunsBegin DEF RunsInv, CoordinatorTyped
<1>3. CASE Persist([last EXCEPT !.resumable = TRUE, !.version = 2])
  <2> DEFINE record == [last EXCEPT !.resumable = TRUE, !.version = 2]
  <2>1. record \in RunRecord /\ record.run = last.run /\ record.status = last.status
    BY DEF RunsInv, CoordinatorTyped, RunRecord
  <2> HIDE DEF record
  <2>2. RecordTrue(record)
    BY <2>1 DEF RunsInv, RecordTrue
  <2>3. Persist(record)
    BY <1>3 DEF record
  <2>4. /\ last' = record /\ sidecar' \in {sidecar, record} /\ unwritten \subseteq unwritten'
        /\ last' \in RunRecord /\ sidecar' \in RunRecord /\ unwritten' \subseteq SleepRun
    BY <2>1, <2>3, Persisted
  <2>5. RecordTrue(last') /\ RecordTrue(sidecar')
    BY <2>2, <2>4 DEF RunsInv
  <2> QED
    BY <1>1, <2>1, <2>4, <2>5, RunsBegin
<1> QED
  BY <1>2, <1>3 DEF ResumeRun

\* The active run ends or is shut down, and is written of.
LEMMA RunsWritten ==
  ASSUME RunsInv, active # NoRun, active' = NoRun,
         NEW status \in RunEnded \cup {"interrupted"}, NEW resumable \in BOOLEAN,
         Persist([run |-> active, status |-> status, resumable |-> resumable, version |-> 2]),
         NEW end \in RunEnded \cup {"running"}, result' = [result EXCEPT ![active] = end],
         status \in {"interrupted", end}
  PROVE  RunsInv'
<1>1. /\ active \in SleepRun /\ result[active] = "running"
      /\ \A s \in SleepRun : s > active => result[s] = "none"
  BY DEF RunsInv, CoordinatorTyped, RunsBegun
<1>2. PICK record \in RunRecord :
        /\ record = [run |-> active, status |-> status, resumable |-> resumable, version |-> 2]
        /\ record.run = active /\ record.status = status
  BY <1>1 DEF RunRecord
<1>3. Persist(record)
  BY <1>2
<1>4. /\ last' = record /\ sidecar' \in {sidecar, record} /\ unwritten \subseteq unwritten'
      /\ last' \in RunRecord /\ sidecar' \in RunRecord /\ unwritten' \subseteq SleepRun
      /\ sidecar' = record \/ record.run = NoRun \/ record.run \in unwritten'
  BY <1>2, <1>3, Persisted
<1>5. /\ result' \in [SleepRun -> RunEnded \cup {"none", "running", "lost"}]
      /\ \A s \in SleepRun : result'[s] = IF s = active THEN end ELSE result[s]
  BY DEF RunsInv, CoordinatorTyped
<1>6. CoordinatorTyped'
  BY <1>4, <1>5 DEF CoordinatorTyped
<1>7. RunsBegun'
  BY <1>1, <1>5 DEF RunsBegun, RunsInv, RunEnded
<1>8. RecordTrue(record)'
  BY <1>1, <1>2, <1>5 DEF RecordTrue, RunEnded
<1>9. sidecar' # sidecar \/ RecordTrue(sidecar)'
  <2>1. \A s \in SleepRun : result[s] \notin {"none", "running"} => result'[s] = result[s]
    BY <1>1, <1>5
  <2>2. \A s \in SleepRun : result[s] = "running" => result'[s] # "none"
    BY <1>5 DEF RunEnded
  <2>3. \A r \in RunRecord : RecordTrue(r) => RecordTrue(r)'
    BY <2>1, <2>2, StaysTrue
  <2> QED
    BY <2>3 DEF RecordTrue, RunsInv, CoordinatorTyped
<1>10. RecordTrue(last)' /\ RecordTrue(sidecar)'
  BY <1>4, <1>8, <1>9 DEF RecordTrue
<1>11. RecordsCover'
  <2> SUFFICES ASSUME NEW s \in SleepRun, result'[s] \in RunEnded \cup {"running"}
               PROVE  s \in unwritten' \/ (sidecar'.run >= s /\ last'.run >= s)
    BY DEF RecordsCover
  <2>1. CASE s = active
    BY <1>1, <1>2, <1>4, <2>1, RunNumbers
  <2>2. CASE s # active
    <3>1. result[s] \in RunEnded \cup {"running"}
      BY <1>5, <2>2
    <3>2. s \in unwritten \/ (sidecar.run >= s /\ last.run >= s)
      BY <2>2, <3>1 DEF RunsInv, RecordsCover
    <3>3. active >= s
      BY <1>1, <3>1, RunNumbers DEF RunEnded
    <3> QED
      BY <1>2, <1>4, <3>2, <3>3
  <2> QED
    BY <2>1, <2>2
<1> QED
  BY <1>6, <1>7, <1>10, <1>11 DEF RunsInv

LEMMA RunSettles ==
  ASSUME RunsInv, NEW r \in SleepRun, NEW status \in RunEnded, NEW resumable \in BOOLEAN,
         NEW heard, NEW left, SettleRun(r, status, resumable, heard, left)
  PROVE  RunsInv'
<1>1. result[r] = "running" /\ result' = [result EXCEPT ![r] = status]
  BY DEF SettleRun
<1>2. CASE Concerns(r)
  <2>1. active = r /\ active # NoRun
    BY <1>2, RunNumbers DEF Concerns
  <2>2. /\ active' = NoRun
        /\ Persist([run |-> active, status |-> status, resumable |-> resumable, version |-> 2])
    BY <1>2 DEF SettleRun
  <2> QED
    BY <1>1, <2>1, <2>2, RunsWritten
<1>3. CASE ~Concerns(r)
  <2>1. UNCHANGED <<active, last, sidecar, unwritten>> /\ active # r
    BY <1>3 DEF SettleRun, Concerns
  <2>2. /\ result' \in [SleepRun -> RunEnded \cup {"none", "running", "lost"}]
        /\ \A s \in SleepRun : result'[s] = IF s = r THEN status ELSE result[s]
    BY <1>1 DEF RunsInv, CoordinatorTyped
  <2>3. CoordinatorTyped'
    BY <2>1, <2>2 DEF RunsInv, CoordinatorTyped
  <2>4. RunsBegun'
    BY <1>1, <2>1, <2>2 DEF RunsInv, RunsBegun, RunEnded, CoordinatorTyped
  <2>5. RecordTrue(last)' /\ RecordTrue(sidecar)'
    <3>1. \A s \in SleepRun : result[s] \notin {"none", "running"} => result'[s] = result[s]
      BY <1>1, <2>2
    <3>2. \A s \in SleepRun : result[s] = "running" => result'[s] # "none"
      BY <2>2 DEF RunEnded
    <3>3. \A record \in RunRecord : RecordTrue(record) => RecordTrue(record)'
      BY <3>1, <3>2, StaysTrue
    <3> QED
      BY <2>1, <3>3 DEF RecordTrue, RunsInv, CoordinatorTyped
  <2>6. RecordsCover'
    BY <1>1, <2>1, <2>2 DEF RunsInv, RecordsCover
  <2> QED
    BY <2>3, <2>4, <2>5, <2>6 DEF RunsInv
<1> QED
  BY <1>2, <1>3

LEMMA RunsShut == ASSUME RunsInv, CoordinatorShutdown PROVE RunsInv'
<1>1. CASE active # NoRun
  <2>1. /\ active' = NoRun
        /\ Persist([run |-> active, status |-> "interrupted", resumable |-> TRUE, version |-> 2])
    BY <1>1 DEF CoordinatorShutdown, Interrupt
  <2>2. result' = [result EXCEPT ![active] = "running"]
    BY <1>1 DEF CoordinatorShutdown, RunsInv, RunsBegun, CoordinatorTyped
  <2> DEFINE yes == TRUE
  <2>3. /\ Persist([run |-> active, status |-> "interrupted", resumable |-> yes, version |-> 2])
        /\ yes \in BOOLEAN
    BY <2>1
  <2> HIDE DEF yes
  <2> QED
    BY <1>1, <2>1, <2>2, <2>3, RunsWritten
<1>2. CASE active = NoRun
  BY <1>2, RunsKept DEF CoordinatorShutdown
<1> QED
  BY <1>1, <1>2

LEMMA RunsRestart == ASSUME RunsInv, CoordinatorRestarts PROVE RunsInv'
<1>1. /\ active' = NoRun /\ last' = sidecar /\ UNCHANGED <<sidecar, unwritten>>
      /\ result' = [r \in SleepRun |-> IF result[r] = "running" THEN "lost" ELSE result[r]]
  BY DEF CoordinatorRestarts
<1>2. result \in [SleepRun -> RunEnded \cup {"none", "running", "lost"}]
  BY DEF RunsInv, CoordinatorTyped
<1>3. result' \in [SleepRun -> RunEnded \cup {"none", "running", "lost"}]
  BY <1>1, <1>2
<1>4. CoordinatorTyped'
  BY <1>1, <1>3 DEF RunsInv, CoordinatorTyped
<1>5. RunsBegun'
  BY <1>1, <1>2 DEF RunsInv, RunsBegun
<1>6. RecordTrue(last)' /\ RecordTrue(sidecar)'
  <2>1. \A s \in SleepRun : result[s] \notin {"none", "running"} => result'[s] = result[s]
    BY <1>1
  <2>2. \A s \in SleepRun : result[s] = "running" => result'[s] # "none"
    BY <1>1
  <2>3. \A record \in RunRecord : RecordTrue(record) => RecordTrue(record)'
    BY <2>1, <2>2, StaysTrue
  <2> QED
    BY <1>1, <2>3 DEF RecordTrue, RunsInv, CoordinatorTyped
<1>7. RecordsCover'
  <2> SUFFICES ASSUME NEW s \in SleepRun, result'[s] \in RunEnded \cup {"running"}
               PROVE  s \in unwritten' \/ (sidecar'.run >= s /\ last'.run >= s)
    BY DEF RecordsCover
  <2>1. result[s] \in RunEnded
    BY <1>1, <1>2 DEF RunEnded
  <2>2. s # active
    BY <2>1, RunNumbers DEF RunsInv, RunsBegun, RunEnded
  <2> QED
    BY <1>1, <2>1, <2>2 DEF RunsInv, RecordsCover
<1> QED
  BY <1>4, <1>5, <1>6, <1>7 DEF RunsInv

CoordinatorInv == RunsInv /\ RingInv

LEMMA CoordinatorStarts == ASSUME CoordinatorAssumption, CoordinatorInit PROVE CoordinatorInv
<1>1. sidecar \in RunRecord /\ sidecar.run = NoRun
  <2>1. NoRecord \in RunRecord /\ NoRecord.run = NoRun
    BY DEF NoRecord, RunRecord
  <2>2. Legacy \in RunRecord /\ Legacy.run = NoRun
    BY DEF Legacy, RunRecord, RunEnded
  <2> QED
    BY <2>1, <2>2 DEF CoordinatorInit
<1>2. /\ active = NoRun /\ last = sidecar /\ unwritten = {}
      /\ result \in [SleepRun -> RunEnded \cup {"none", "running", "lost"}]
      /\ \A r \in SleepRun : result[r] = "none"
  BY DEF CoordinatorInit
<1>3. RunsInv
  <2>1. CoordinatorTyped
    BY <1>1, <1>2 DEF CoordinatorTyped
  <2>2. RunsBegun /\ RecordsCover
    BY <1>2 DEF RunsBegun, RecordsCover, RunEnded
  <2>3. RecordTrue(last) /\ RecordTrue(sidecar)
    BY <1>1, <1>2 DEF RecordTrue
  <2> QED
    BY <2>1, <2>2, <2>3 DEF RunsInv
<1>4. RingWhole(ring) /\ ring.id = 0
  BY FreshRingWhole DEF CoordinatorInit
<1>5. NewReader \in ReaderType /\ ReaderHas(NewReader) /\ NewReader.ring = 0 /\ ~NewReader.waits
  BY DEF NewReader, ReaderType, ReaderHas
<1>6. RingInv
  BY <1>4, <1>5 DEF CoordinatorInit, RingInv, ReaderWaits
<1> QED
  BY <1>3, <1>6 DEF CoordinatorInv

LEMMA CoordinatorKeeps ==
  ASSUME CoordinatorAssumption, CoordinatorInv, [CoordinatorNext]_coordinatorVars
  PROVE  CoordinatorInv'
<1> USE DEF CoordinatorInv
<1>1. CASE Start
  BY <1>1, RunStarts, RingBegun DEF Start
<1>2. CASE ResumeRun
  BY <1>2, RunResumes, RingBegun DEF ResumeRun
<1>3. CASE CancelRun
  BY <1>3, RunsKept, RingTold DEF CancelRun
<1>4. CASE CoordinatorShutdown
  BY <1>4, RunsShut, RingShut
<1>5. CASE CoordinatorRestarts
  BY <1>5, RunsRestart, RingRestarted
<1>6. ASSUME NEW r \in SleepRun, Progress(r) PROVE CoordinatorInv'
  BY <1>6, RunsKept, RingTold DEF Progress
<1>7. ASSUME NEW r \in SleepRun, Resolve(r) PROVE CoordinatorInv'
  <2>1. PICK status \in RunEnded, resumable \in BOOLEAN :
          SettleRun(r, status, resumable, ring, ring)
    BY <1>7 DEF Resolve
  <2>2. RingWhole(ring)
    BY DEF RingInv
  <2>3. RingInv'
    BY <2>1, <2>2, RingSettle
  <2> QED
    BY <2>1, <2>3, RunSettles
<1>8. ASSUME NEW r \in SleepRun, Reject(r) PROVE CoordinatorInv'
  <2>1. PICK resumable \in BOOLEAN :
          SettleRun(r, "failed", resumable, Pushed(ring), Pushed(Pushed(ring)))
    BY <1>8 DEF Reject
  <2>2. /\ RingWhole(Pushed(ring)) /\ Pushed(ring).id = ring.id
        /\ Pushed(ring).next \in {ring.next, ring.next + 1}
    BY PushedRing DEF RingInv
  <2>3. RingWhole(Pushed(Pushed(ring))) /\ Pushed(Pushed(ring)).id = ring.id
    BY <2>2, PushedRing
  <2>4. RingInv'
    BY <2>1, <2>2, <2>3, RingSettle
  <2>5. "failed" \in RunEnded
    BY DEF RunEnded
  <2>6. RunsInv'
    BY <2>1, <2>5, RunSettles
  <2> QED
    BY <2>4, <2>6
<1>9. ASSUME NEW q \in Reader, ReadEvents(q) PROVE CoordinatorInv'
  BY <1>9, RunsKept, ReadKeeps DEF ReadEvents
<1>10. ASSUME NEW q \in Reader, PollEnds(q) PROVE CoordinatorInv'
  BY <1>10, RunsKept, PollEnded DEF PollEnds
<1>11. CASE UNCHANGED coordinatorVars
  BY <1>11, RunsKept, RingKept DEF coordinatorVars
<1> QED
  BY <1>1, <1>2, <1>3, <1>4, <1>5, <1>6, <1>7, <1>8, <1>9, <1>10, <1>11 DEF CoordinatorNext

LEMMA CoordinatorShows == ASSUME CoordinatorInv PROVE RunsAccounted
<1>1. Truthful
  BY DEF CoordinatorInv, RunsInv, RunsBegun, RecordTrue, Truthful
<1>2. RecordsSurvive
  BY RunNumbers DEF CoordinatorInv, RunsInv, RunsBegun, RecordsCover, RecordsSurvive, RunEnded
<1>3. NothingSkipped
  BY DEF CoordinatorInv, RingInv, ReaderHas, ReaderWaits, NothingSkipped
<1> QED
  BY <1>1, <1>2, <1>3 DEF RunsAccounted, RecordsHold

\* Over shutdowns, newer runs, failed writes and restarts, the record of a run is true
\* and there, and no reader misses an event without being told (sleep-coordinator.ts,
\* sleep-events.ts), whatever the runs, the readers, the capacity and the limit.
THEOREM RunsAreAccounted ==
  ASSUME CoordinatorAssumption PROVE CoordinatorSpec => []RunsAccounted
<1>1. CoordinatorInit => CoordinatorInv
  BY CoordinatorStarts
<1>2. CoordinatorInv /\ [CoordinatorNext]_coordinatorVars => CoordinatorInv'
  BY CoordinatorKeeps
<1>3. CoordinatorInv => RunsAccounted
  BY CoordinatorShows
<1> QED
  BY <1>1, <1>2, <1>3, PTL DEF CoordinatorSpec

------------------------------------------------------------------------------
(* The native packages: NativeGroup.                                        *)

\* The packages are being moved, or have been.
InMotion == pc \in {"aside", "in", "probe", "record"}
MoveNumber == 1..Len(moves)

GroupTyped ==
  /\ live \in [Package -> PackageContent] /\ manifest \in [Package -> PackageContent]
  /\ stagedGroup \in [Package -> Target \cup {NoContent}] /\ prev \in [Package -> PackageContent]
  /\ moves \in Seq([package : Package, aside : BOOLEAN])
  /\ pc \in GroupStep /\ before \in [Package -> PackageContent] \X [Package -> PackageContent]

\* A package is moved once.
NotedOnce == \A i, j \in MoveNumber : moves[i].package = moves[j].package => i = j

\* Nothing has been moved yet.
Unmade == pc \in {"select", "stage"} => moves = <<>>

\* A staged package that is gone is in place; the one noted last is the only one
\* that may still be on its way.
MovedIn ==
  InMotion =>
    /\ \A p \in Package : stagedGroup[p] = NoContent => live[p] \in Target
    /\ \A i \in MoveNumber :
         IF pc = "in" /\ i = Len(moves)
         THEN stagedGroup[moves[i].package] # NoContent /\ live[moves[i].package] = NoContent
         ELSE stagedGroup[moves[i].package] = NoContent
    /\ pc = "in" => moves # <<>>
    /\ pc \in {"probe", "record"} => Unmoved = {}

\* What was there before can be read off the notes, from the last back.
Restorable ==
  (InMotion \/ pc = "rollback") /\ ~lost =>
    /\ manifest = before[2]
    /\ \A i \in MoveNumber :
         before[1][moves[i].package] = IF moves[i].aside THEN prev[moves[i].package] ELSE NoContent
    /\ \A p \in Package : (\A i \in MoveNumber : moves[i].package # p) => live[p] = before[1][p]

GroupInv == GroupTyped /\ NotedOnce /\ Unmade /\ MovedIn /\ Restorable /\ SuccessIsReady


\* One more move, and one fewer.
LEMMA MoreMoves ==
  ASSUME NEW S, NEW s \in Seq(S), NEW e \in S
  PROVE  /\ Append(s, e) \in Seq(S) /\ Append(s, e) # <<>>
         /\ Len(s) \in Nat /\ Len(Append(s, e)) = Len(s) + 1
         /\ Append(s, e)[Len(s) + 1] = e
         /\ \A i \in 1..Len(s) : Append(s, e)[i] = s[i] /\ s[i] \in S
OBVIOUS

LEMMA FewerMoves ==
  ASSUME NEW S, NEW s \in Seq(S), s # <<>>
  PROVE  /\ SubSeq(s, 1, Len(s) - 1) \in Seq(S)
         /\ Len(s) \in Nat /\ Len(s) > 0 /\ Len(SubSeq(s, 1, Len(s) - 1)) = Len(s) - 1
         /\ \A i \in 1..Len(s) : s[i] \in S
         /\ \A i \in 1..(Len(s) - 1) : SubSeq(s, 1, Len(s) - 1)[i] = s[i]
<1>1. Len(s) \in Nat /\ Len(s) > 0 /\ \A i \in 1..Len(s) : s[i] \in S
  OBVIOUS
<1> DEFINE n == Len(s) - 1
<1>2. n \in Int /\ 1 \in Int /\ n - 1 + 1 = n /\ \A i \in 1..n : s[i] \in S /\ 1 + i - 1 = i
  BY <1>1
<1>3. /\ SubSeq(s, 1, n) \in Seq(S)
      /\ Len(SubSeq(s, 1, n)) = IF 1 <= n THEN n - 1 + 1 ELSE 0
      /\ \A i \in 1..(n - 1 + 1) : SubSeq(s, 1, n)[i] = s[1 + i - 1]
  BY <1>2, SubSeqProperties
<1>4. (IF 1 <= n THEN n - 1 + 1 ELSE 0) = n
  BY <1>1
<1> HIDE DEF n
<1>5. /\ Len(SubSeq(s, 1, n)) = n
      /\ \A i \in 1..n : SubSeq(s, 1, n)[i] = s[i]
  BY <1>2, <1>3, <1>4
<1> QED
  BY <1>1, <1>3, <1>5 DEF n

LEMMA GroupStarts ==
  ASSUME GroupAssumption, GroupInit
  PROVE  GroupInv
BY DEF GroupAssumption, GroupInit, GroupInv, GroupTyped, NotedOnce, Unmade, MovedIn, Restorable,
   SuccessIsReady, InMotion, MoveNumber, PackageContent, GroupStep, NoPackages

\* Steps that move nothing and come to rest, or wait to be selected.
LEMMA RestKeeps ==
  ASSUME GroupAssumption, GroupInv, GroupTyped', moves' = moves,
         pc' \in {"idle", "select", "failed"}, Unmade'
  PROVE  GroupInv'
BY DEF GroupInv, NotedOnce, MovedIn, Restorable, SuccessIsReady, InMotion, MoveNumber

LEMMA SelectingKeeps ==
  ASSUME GroupAssumption, GroupInv,
         \/ BeginEnsure \/ Instruct \/ Reuse \/ Restage \/ Adopt \/ AdoptFails \/ StageFails
         \/ RolledBack \/ EnsureReturns \/ GroupCrash
  PROVE  GroupInv'
<1> USE DEF GroupInv
<1>1. CASE BeginEnsure
  <2>1. GroupTyped'
    BY <1>1 DEF BeginEnsure, GroupTyped, GroupStep, PackageContent, NoPackages
  <2> QED
    BY <1>1, <2>1 DEF BeginEnsure, NotedOnce, Unmade, MovedIn, Restorable, SuccessIsReady, InMotion,
       MoveNumber
<1>2. CASE Instruct \/ AdoptFails \/ StageFails \/ RolledBack
  BY <1>2, RestKeeps DEF Instruct, AdoptFails, StageFails, RolledBack, Selecting, GroupTo,
     GroupTyped, GroupStep, Unmade
<1>3. CASE Reuse
  <2>1. pc = "select" /\ pc' = "ok" /\ Observed = "ready" /\ moves = <<>>
    BY <1>3 DEF Reuse, Selecting, GroupAction, GroupTo, Unmade
  <2>2. live' = live /\ manifest' = manifest /\ moves' = moves
    BY <1>3 DEF Reuse, GroupTo
  <2>3. SuccessIsReady'
    BY <2>1, <2>2 DEF SuccessIsReady, Observed, AtTarget
  <2>4. GroupTyped'
    BY <1>3 DEF Reuse, GroupTo, GroupTyped, GroupStep
  <2> QED
    BY <2>1, <2>2, <2>3, <2>4 DEF NotedOnce, Unmade, MovedIn, Restorable, InMotion, MoveNumber
<1>4. CASE Restage
  <2>1. pc = "select" /\ pc' = "stage" /\ moves' = moves
    BY <1>4 DEF Restage, Selecting, GroupTo
  <2>2. GroupTyped'
    BY <1>4 DEF Restage, GroupTo, GroupTyped, GroupStep
  <2> QED
    BY <2>1, <2>2 DEF NotedOnce, Unmade, MovedIn, Restorable, SuccessIsReady, InMotion, MoveNumber
<1>5. CASE Adopt
  BY <1>5, RestKeeps DEF Adopt, Selecting, GroupTyped, GroupStep, Unmade
<1>6. CASE EnsureReturns \/ GroupCrash
  BY <1>6, RestKeeps DEF EnsureReturns, GroupCrash, GroupTyped, GroupStep, Unmade
<1> QED
  BY <1>1, <1>2, <1>3, <1>4, <1>5, <1>6

LEMMA StageKeeps ==
  ASSUME GroupAssumption, GroupInv, Stage
  PROVE  GroupInv'
<1> USE DEF GroupInv, Stage
<1>1. moves = <<>> /\ moves' = <<>> /\ \A p \in Package : stagedGroup'[p] # NoContent
  BY DEF Unmade, GroupAssumption
<1>2. GroupTyped'
  BY DEF GroupTyped, GroupStep
<1>3. before' = <<live, manifest>> /\ live' = live /\ manifest' = manifest /\ pc' = "aside"
  OBVIOUS
<1>4. NotedOnce' /\ Unmade' /\ MovedIn' /\ SuccessIsReady'
  BY <1>1, <1>3 DEF NotedOnce, Unmade, MovedIn, SuccessIsReady, InMotion, MoveNumber
<1>5. Restorable'
  BY <1>1, <1>3 DEF Restorable, MoveNumber
<1> QED
  BY <1>2, <1>4, <1>5

\* A move that begins is noted; what was in place is aside, or nothing was.
LEMMA MoveBeginsKeeps ==
  ASSUME GroupAssumption, GroupInv, MoveAside \/ NothingToMove
  PROVE  GroupInv'
<1> USE DEF GroupInv
<1>1. PICK p \in Unmoved, aside \in BOOLEAN :
        /\ moves' = Append(moves, [package |-> p, aside |-> aside])
        /\ aside = (live[p] # NoContent)
        /\ \/ /\ prev' = [prev EXCEPT ![p] = live[p]] /\ aside
              /\ live' = [live EXCEPT ![p] = NoContent]
           \/ prev' = prev /\ live' = live /\ ~aside
  BY DEF MoveAside, NothingToMove, Noted
<1>2. /\ pc = "aside" /\ pc' = "in" /\ manifest' = manifest /\ stagedGroup' = stagedGroup
      /\ before' = before /\ lost' = lost
  BY DEF MoveAside, NothingToMove
<1>3. p \in Package /\ stagedGroup[p] # NoContent /\ InMotion
  BY <1>2 DEF Unmoved, InMotion
<1>4. moves \in Seq([package : Package, aside : BOOLEAN])
  BY DEF GroupTyped
<1>5. /\ moves' \in Seq([package : Package, aside : BOOLEAN]) /\ moves' # <<>>
      /\ Len(moves) \in Nat /\ Len(moves') = Len(moves) + 1
      /\ moves'[Len(moves')] = [package |-> p, aside |-> aside]
      /\ \A i \in 1..Len(moves) : moves'[i] = moves[i]
  <2>1. [package |-> p, aside |-> aside] \in [package : Package, aside : BOOLEAN]
    BY <1>3
  <2> QED
    BY <1>1, <1>4, <2>1, MoreMoves
<1>6. \A i \in 1..Len(moves) : stagedGroup[moves[i].package] = NoContent /\ moves[i].package # p
  BY <1>2, <1>3 DEF MovedIn, MoveNumber
<1>7. /\ live' \in [Package -> PackageContent] /\ prev' \in [Package -> PackageContent]
      /\ live'[p] = NoContent /\ \A q \in Package \ {p} : live'[q] = live[q] /\ prev'[q] = prev[q]
      /\ aside => prev'[p] = live[p]
  BY <1>1, <1>3 DEF GroupTyped, PackageContent
<1>8. GroupTyped'
  BY <1>2, <1>5, <1>7 DEF GroupTyped, GroupStep
<1>9. MoveNumber' = MoveNumber \cup {Len(moves')} /\ Len(moves') \notin MoveNumber
  BY <1>5 DEF MoveNumber
<1>10. \A i \in MoveNumber : moves[i].package \in Package
  <2>1. \A i \in MoveNumber : moves[i] \in [package : Package, aside : BOOLEAN]
    BY <1>4, ElementOfSeq DEF MoveNumber
  <2> QED
    BY <2>1
<1>11. NotedOnce'
  <2>1. \A i, j \in MoveNumber : moves'[i].package = moves'[j].package => i = j
    BY <1>5 DEF NotedOnce, MoveNumber
  <2>2. \A i \in MoveNumber : moves'[i].package # moves'[Len(moves')].package
    BY <1>5, <1>6 DEF MoveNumber
  <2> QED
    BY <1>9, <2>1, <2>2 DEF NotedOnce
<1>12. MovedIn'
  <2>1. \A q \in Package : stagedGroup[q] = NoContent => live'[q] \in Target
    BY <1>3, <1>7 DEF MovedIn
  <2>2. \A i \in MoveNumber : i # Len(moves') /\ stagedGroup[moves'[i].package] = NoContent
    BY <1>5, <1>6, <1>9 DEF MoveNumber
  <2>3. /\ stagedGroup[moves'[Len(moves')].package] # NoContent
        /\ live'[moves'[Len(moves')].package] = NoContent
    BY <1>3, <1>5, <1>7
  <2> QED
    BY <1>2, <1>5, <1>9, <2>1, <2>2, <2>3 DEF MovedIn
<1>13. Restorable'
  <2> SUFFICES ASSUME ~lost
               PROVE  /\ manifest = before[2]
                      /\ \A i \in MoveNumber' : before[1][moves'[i].package] =
                           IF moves'[i].aside THEN prev'[moves'[i].package] ELSE NoContent
                      /\ \A q \in Package : (\A i \in MoveNumber' : moves'[i].package # q)
                                              => live'[q] = before[1][q]
    BY <1>2 DEF Restorable
  <2>1. live[p] = before[1][p] /\ manifest = before[2]
    BY <1>3, <1>6 DEF Restorable, MoveNumber
  <2>2. before[1][p] = IF aside THEN prev'[p] ELSE NoContent
    BY <1>1, <1>7, <2>1
  <2>3. \A i \in MoveNumber : before[1][moves'[i].package] =
          IF moves'[i].aside THEN prev'[moves'[i].package] ELSE NoContent
    BY <1>3, <1>5, <1>6, <1>7, <1>10 DEF Restorable, MoveNumber
  <2>4. before[1][moves'[Len(moves')].package] =
          IF moves'[Len(moves')].aside THEN prev'[moves'[Len(moves')].package] ELSE NoContent
    BY <1>5, <2>2
  <2>5. ASSUME NEW q \in Package, \A i \in MoveNumber' : moves'[i].package # q
        PROVE  live'[q] = before[1][q]
    <3>1. q # p
      BY <1>5, <1>9, <2>5
    <3>2. \A i \in MoveNumber : moves[i].package # q
      BY <1>5, <1>9, <2>5 DEF MoveNumber
    <3> QED
      BY <1>3, <1>7, <3>1, <3>2 DEF Restorable
  <2> QED
    BY <1>9, <2>1, <2>3, <2>4, <2>5
<1>14. Unmade' /\ SuccessIsReady'
  BY <1>2 DEF Unmade, SuccessIsReady
<1> QED
  BY <1>8, <1>11, <1>12, <1>13, <1>14

LEMMA MoveInKeeps ==
  ASSUME GroupAssumption, GroupInv, MoveIn
  PROVE  GroupInv'
<1> USE DEF GroupInv
<1> DEFINE p == moves[Len(moves)].package
<1>1. /\ pc = "in" /\ moves # <<>> /\ live' = [live EXCEPT ![p] = stagedGroup[p]]
      /\ stagedGroup' = [stagedGroup EXCEPT ![p] = NoContent]
      /\ pc' = IF Unmoved = {p} THEN "probe" ELSE "aside"
      /\ manifest' = manifest /\ prev' = prev /\ moves' = moves /\ before' = before /\ lost' = lost
  BY DEF MoveIn
<1>2. moves \in Seq([package : Package, aside : BOOLEAN])
  BY DEF GroupTyped
<1>3. Len(moves) \in MoveNumber
  BY <1>1, <1>2, FewerMoves DEF MoveNumber
<1>4. \A i \in MoveNumber : moves[i].package \in Package
  <2>1. \A i \in MoveNumber : moves[i] \in [package : Package, aside : BOOLEAN]
    BY <1>2, ElementOfSeq DEF MoveNumber
  <2> QED
    BY <2>1
<1>5. p \in Package
  BY <1>3, <1>4
<1>6. InMotion /\ stagedGroup[p] # NoContent
  BY <1>1, <1>3 DEF InMotion, MovedIn
<1>7. stagedGroup[p] \in Target /\ stagedGroup[p] \in PackageContent
  BY <1>5, <1>6 DEF GroupTyped, PackageContent
<1> HIDE DEF p
<1>8. /\ live' \in [Package -> PackageContent] /\ live'[p] = stagedGroup[p]
      /\ stagedGroup' \in [Package -> Target \cup {NoContent}] /\ stagedGroup'[p] = NoContent
      /\ \A q \in Package \ {p} : live'[q] = live[q] /\ stagedGroup'[q] = stagedGroup[q]
  BY <1>1, <1>5, <1>7 DEF GroupTyped
<1>9. GroupTyped'
  BY <1>1, <1>8 DEF GroupTyped, GroupStep
<1>10. MoveNumber' = MoveNumber
  BY <1>1 DEF MoveNumber
<1>11. NotedOnce' /\ Unmade' /\ SuccessIsReady'
  BY <1>1, <1>10 DEF NotedOnce, Unmade, SuccessIsReady
<1>12. MovedIn'
  <2>1. \A q \in Package : stagedGroup'[q] = NoContent => live'[q] \in Target
    BY <1>6, <1>7, <1>8 DEF MovedIn
  <2>2. \A i \in MoveNumber : stagedGroup'[moves[i].package] = NoContent
    <3>1. ASSUME NEW i \in MoveNumber PROVE stagedGroup'[moves[i].package] = NoContent
      <4>1. CASE i = Len(moves)
        BY <1>8, <4>1 DEF p
      <4>2. CASE i # Len(moves)
        <5>1. stagedGroup[moves[i].package] = NoContent /\ moves[i].package \in Package
          BY <1>4, <1>6, <4>2 DEF MovedIn
        <5> QED
          BY <1>8, <5>1
      <4> QED
        BY <4>1, <4>2
    <3> QED
      BY <3>1
  <2>3. Unmoved' = Unmoved \ {p}
    BY <1>5, <1>8 DEF Unmoved
  <2> QED
    BY <1>1, <1>10, <2>1, <2>2, <2>3 DEF MovedIn
<1>13. Restorable'
  <2>1. \A q \in Package : (\A i \in MoveNumber : moves[i].package # q) => q # p
    BY <1>3 DEF p
  <2> QED
    BY <1>1, <1>6, <1>8, <1>10, <2>1 DEF Restorable
<1> QED
  BY <1>9, <1>11, <1>12, <1>13

LEMMA ProbedKeeps ==
  ASSUME GroupAssumption, GroupInv, Probed \/ Throws
  PROVE  GroupInv'
<1>1. /\ pc \in {"aside", "in", "probe", "record"} /\ live' = live /\ manifest' = manifest
      /\ stagedGroup' = stagedGroup /\ prev' = prev /\ moves' = moves /\ before' = before
      /\ lost' = lost
      /\ pc' = "rollback" \/ (pc = "probe" /\ pc' = "record")
  BY DEF Probed, Throws, GroupTo
<1>2. GroupTyped'
  BY <1>1 DEF GroupInv, GroupTyped, GroupStep
<1>3. NotedOnce' /\ Unmade' /\ SuccessIsReady'
  BY <1>1 DEF GroupInv, NotedOnce, Unmade, SuccessIsReady, MoveNumber
<1>4. MovedIn'
  BY <1>1 DEF GroupInv, MovedIn, InMotion, MoveNumber, Unmoved
<1>5. Restorable'
  BY <1>1 DEF GroupInv, Restorable, InMotion, MoveNumber
<1> QED
  BY <1>2, <1>3, <1>4, <1>5 DEF GroupInv

LEMMA RecordGroupKeeps ==
  ASSUME GroupAssumption, GroupInv, RecordGroup
  PROVE  GroupInv'
<1>1. /\ pc = "record" /\ pc' = "ok" /\ manifest' = live /\ live' = live /\ moves' = moves
      /\ prev' = NoPackages /\ stagedGroup' = NoPackages /\ before' = before
  BY DEF RecordGroup, GroupRecorded
<1>2. \A p \in Package : live[p] \in Target
  BY <1>1 DEF GroupInv, GroupTyped, MovedIn, InMotion, Unmoved
<1>3. live' \in [Package -> Target]
  BY <1>1, <1>2 DEF GroupInv, GroupTyped
<1>4. (Observed = "ready")'
  <2>1. PICK p \in Package : live[p] \in Target
    BY <1>2 DEF GroupAssumption
  <2>2. live' # NoPackages /\ ~ \E q \in Package : live'[q] = "invalid"
    BY <1>1, <1>2, <2>1 DEF GroupAssumption, NoPackages
  <2> QED
    BY <1>1, <1>2, <2>2 DEF Observed, AtTarget
<1>5. GroupTyped'
  BY <1>1 DEF GroupInv, GroupTyped, GroupStep, NoPackages, PackageContent
<1>6. NotedOnce' /\ Unmade' /\ MovedIn' /\ Restorable'
  BY <1>1 DEF GroupInv, NotedOnce, Unmade, MovedIn, Restorable, InMotion, MoveNumber
<1> QED
  BY <1>4, <1>5, <1>6 DEF GroupInv, SuccessIsReady

LEMMA UndoKeeps ==
  ASSUME GroupAssumption, GroupInv, Undo \/ UndoFails
  PROVE  GroupInv'
<1> USE DEF GroupInv
<1> DEFINE n == Len(moves)
           p == moves[Len(moves)].package
<1>1. /\ pc = "rollback" /\ pc' = "rollback" /\ moves # <<>> /\ manifest' = manifest
      /\ stagedGroup' = stagedGroup /\ before' = before
      /\ moves' = SubSeq(moves, 1, Len(moves) - 1)
  BY DEF Undo, UndoFails
<1>2. moves \in Seq([package : Package, aside : BOOLEAN])
  BY DEF GroupTyped
<1>3. /\ moves' \in Seq([package : Package, aside : BOOLEAN])
      /\ n \in Nat /\ n > 0 /\ Len(moves') = n - 1
      /\ \A i \in 1..n : moves[i] \in [package : Package, aside : BOOLEAN]
      /\ \A i \in 1..(n - 1) : moves'[i] = moves[i]
  BY <1>1, <1>2, FewerMoves
<1> HIDE DEF n
<1>4. MoveNumber = 1..n /\ MoveNumber' = 1..(n - 1) /\ n \in MoveNumber /\ n \notin MoveNumber'
  BY <1>3 DEF MoveNumber, n
<1>5. MoveNumber = MoveNumber' \cup {n}
  BY <1>3, <1>4
<1>6. /\ \A i \in MoveNumber : moves[i].package \in Package /\ moves[i].aside \in BOOLEAN
      /\ \A i \in MoveNumber' : moves'[i] = moves[i]
  BY <1>3, <1>4
<1>7. p \in Package /\ p = moves[n].package
  BY <1>4, <1>6 DEF n
<1> HIDE DEF p
<1>8. \A i \in MoveNumber' : moves'[i].package # p
  BY <1>4, <1>5, <1>6, <1>7 DEF NotedOnce
<1>9. NotedOnce'
  BY <1>5, <1>6 DEF NotedOnce
<1>10. /\ live' \in [Package -> PackageContent] /\ prev' \in [Package -> PackageContent]
       /\ \A q \in Package \ {p} : live'[q] = live[q] /\ prev'[q] = prev[q]
       /\ lost' \/ (lost' = lost /\ live'[p] = IF moves[n].aside THEN prev[p] ELSE NoContent)
  <2>1. CASE Undo
    <3>1. /\ live' = [live EXCEPT ![p] = IF moves[n].aside THEN prev[p] ELSE NoContent]
          /\ prev' = [prev EXCEPT ![p] = NoContent] /\ lost' = lost
      BY <2>1, <1>7 DEF Undo, n
    <3> QED
      BY <3>1, <1>7 DEF GroupTyped, PackageContent
  <2>2. CASE UndoFails
    <3>1. live' \in {live, [live EXCEPT ![p] = NoContent]} /\ prev' = prev /\ lost'
      BY <2>2, <1>7 DEF UndoFails, n
    <3> QED
      BY <3>1, <1>7 DEF GroupTyped, PackageContent
  <2> QED
    BY <2>1, <2>2
<1>11. GroupTyped'
  BY <1>1, <1>3, <1>10 DEF GroupTyped, GroupStep
<1>12. Unmade' /\ MovedIn' /\ SuccessIsReady'
  BY <1>1 DEF Unmade, MovedIn, InMotion, SuccessIsReady
<1>13. Restorable'
  <2> SUFFICES ASSUME ~lost'
               PROVE  /\ manifest = before[2]
                      /\ \A i \in MoveNumber' : before[1][moves'[i].package] =
                           IF moves'[i].aside THEN prev'[moves'[i].package] ELSE NoContent
                      /\ \A q \in Package : (\A i \in MoveNumber' : moves'[i].package # q)
                                              => live'[q] = before[1][q]
    BY <1>1 DEF Restorable
  <2>1. ~lost
    BY <1>10
  <2>2. \A i \in MoveNumber' : before[1][moves'[i].package] =
          IF moves'[i].aside THEN prev'[moves'[i].package] ELSE NoContent
    <3>1. ASSUME NEW i \in MoveNumber'
          PROVE  before[1][moves'[i].package] =
                   IF moves'[i].aside THEN prev'[moves'[i].package] ELSE NoContent
      <4>1. i \in MoveNumber /\ moves'[i] = moves[i] /\ moves[i].package \in Package \ {p}
        BY <1>5, <1>6, <1>8
      <4>2. before[1][moves[i].package] =
              IF moves[i].aside THEN prev[moves[i].package] ELSE NoContent
        BY <1>1, <2>1, <4>1 DEF Restorable
      <4>3. prev'[moves[i].package] = prev[moves[i].package]
        BY <1>10, <4>1
      <4> QED
        BY <4>1, <4>2, <4>3
    <3> QED
      BY <3>1
  <2>3. live'[p] = before[1][p]
    BY <1>1, <1>4, <1>7, <1>10, <2>1 DEF Restorable
  <2>4. ASSUME NEW q \in Package, q # p, \A i \in MoveNumber' : moves'[i].package # q
        PROVE  live'[q] = before[1][q]
    <3>1. \A i \in MoveNumber : moves[i].package # q
      BY <1>5, <1>6, <1>7, <2>4
    <3> QED
      BY <1>1, <1>10, <2>1, <2>4, <3>1 DEF Restorable
  <2> QED
    BY <1>1, <2>1, <2>2, <2>3, <2>4 DEF Restorable
<1> QED
  BY <1>9, <1>11, <1>12, <1>13

LEMMA GroupStepKeeps ==
  ASSUME GroupAssumption, GroupInv, [GroupNext]_groupVars
  PROVE  GroupInv'
<1>1. CASE UNCHANGED groupVars
  BY <1>1 DEF groupVars, GroupInv, GroupTyped, NotedOnce, Unmade, MovedIn, Restorable, InMotion,
     MoveNumber, Unmoved, SuccessIsReady, Observed, AtTarget
<1>2. CASE \/ BeginEnsure \/ Instruct \/ Reuse \/ Restage \/ Adopt \/ AdoptFails \/ StageFails
           \/ RolledBack \/ EnsureReturns \/ GroupCrash
  BY <1>2, SelectingKeeps
<1>3. CASE Stage
  BY <1>3, StageKeeps
<1>4. CASE MoveAside \/ NothingToMove
  BY <1>4, MoveBeginsKeeps
<1>5. CASE MoveIn
  BY <1>5, MoveInKeeps
<1>6. CASE Probed \/ Throws
  BY <1>6, ProbedKeeps
<1>7. CASE RecordGroup
  BY <1>7, RecordGroupKeeps
<1>8. CASE Undo \/ UndoFails
  BY <1>8, UndoKeeps
<1> QED
  BY <1>1, <1>2, <1>3, <1>4, <1>5, <1>6, <1>7, <1>8 DEF GroupNext

\* A rollback that has undone every note has put everything back.
LEMMA RollbackRestores ==
  ASSUME GroupAssumption, GroupInv, GroupNext
  PROVE  FailureRestores
<1> SUFFICES ASSUME pc = "rollback", pc' = "failed", ~lost
             PROVE  <<live, manifest>> = before
  BY DEF FailureRestores
<1>1. RolledBack
  BY DEF GroupNext, BeginEnsure, Instruct, Reuse, Restage, Adopt, AdoptFails, Stage, StageFails,
     MoveAside, NothingToMove, MoveIn, Probed, Throws, RecordGroup, Undo, UndoFails, EnsureReturns,
     GroupCrash, GroupTo, Selecting
<1>2. moves = <<>> /\ MoveNumber = {}
  BY <1>1 DEF RolledBack, MoveNumber
<1>3. manifest = before[2] /\ \A p \in Package : live[p] = before[1][p]
  BY <1>2 DEF GroupInv, Restorable
<1>4. live = before[1]
  BY <1>3 DEF GroupInv, GroupTyped
<1> QED
  BY <1>3, <1>4 DEF GroupInv, GroupTyped

\* Wherever an operation on the native group fails or dies, a success means a group
\* that the next operation finds ready, and a rollback of which no step failed has
\* put back what the activation found.
THEOREM GroupIsKeptWhole ==
  ASSUME GroupAssumption
  PROVE  GroupSpec => ActivationHolds
<1>1. GroupInit => GroupInv
  BY GroupStarts
<1>2. GroupInv /\ [GroupNext]_groupVars => GroupInv'
  BY GroupStepKeeps
<1>3. GroupInv => SuccessIsReady
  BY DEF GroupInv
<1>4. GroupInv /\ [GroupNext]_groupVars => [FailureRestores]_groupVars
  BY RollbackRestores
<1> QED
  BY <1>1, <1>2, <1>3, <1>4, PTL DEF GroupSpec, ActivationHolds

------------------------------------------------------------------------------
(* The boot of a database: StorageBoot.                                     *)

\* What the version of a database tells of it, and what a missing generation does.
VersionTells(v, d) ==
  /\ v >= 3 => d.ledger # "none"
  /\ v >= 6 => d.ids = "text"
  /\ v >= 11 => d.ledger = "new"
  /\ v >= 12 => "projection" \in d.tables
  /\ v >= 13 => "ring" \in d.tables
Unseeded(d) == "generation" \notin d.tables => d.generation = 0

BaseNames == {"messages", "operational", "questions", "secrets", "generation", "personal"}
PastMigration == {"drop", "look", "seed", "core", "serving"}

\* How far a boot has come, and what it has found or made by then.
BootedSoFar ==
  \A p \in BootProcess :
    /\ bootAt[p] \in {"version", "migrate"} \cup PastMigration => BaseNames \subseteq db.tables
    /\ bootAt[p] = "migrate" => versionRead[p] <= db.version
    /\ bootAt[p] \in PastMigration => db.version = Latest
    /\ bootAt[p] \in PastMigration \ {"drop"} =>
         "memories" \notin db.legacy /\ (vector[p] => "vectors" \notin db.legacy)
    /\ bootAt[p] \in {"core", "serving"} => readiness # "none"

BootInv ==
  /\ BootTypeOK /\ VersionTells(db.version, db) /\ Unseeded(db) /\ BootedSoFar /\ (owned => messages > 0)

LEMMA NeededTables ==
  /\ Len(BaseTables) = 6 /\ {BaseTables[i] : i \in 1..Len(BaseTables)} = BaseNames
  /\ \A i \in 1..6 : BaseTables[i] \in BaseNames
  /\ Needed = BaseNames \cup {"projection", "ring"}
<1>2. Len(BaseTables) = 6
  BY DEF BaseTables
<1>3. /\ BaseTables[1] = "messages" /\ BaseTables[2] = "operational" /\ BaseTables[3] = "questions"
      /\ BaseTables[4] = "secrets" /\ BaseTables[5] = "generation" /\ BaseTables[6] = "personal"
  BY DEF BaseTables, PersonalTable
<1>4. 1..6 = {1, 2, 3, 4, 5, 6}
  OBVIOUS
<1>5. {BaseTables[i] : i \in 1..Len(BaseTables)} = BaseNames
  BY <1>2, <1>3, <1>4 DEF BaseNames
<1> QED
  BY <1>2, <1>5 DEF Needed, ProjectionTables

\* A database that comes after another: nothing that was made is undone.
ComesAfter(m, d) ==
  /\ m \in Databases /\ m.version = d.version
  /\ d.tables \subseteq m.tables /\ m.legacy \subseteq d.legacy /\ m.generation >= d.generation
  /\ (d.ledger # "none" => m.ledger # "none") /\ (d.ledger = "new" => m.ledger = "new")
  /\ (d.ids = "text" => m.ids = "text")
  /\ Unseeded(d) => Unseeded(m)

LEMMA FollowsOn ==
  ASSUME NEW d, NEW e, NEW f, d \in Databases, ComesAfter(e, d), ComesAfter(f, e)
  PROVE  ComesAfter(f, d)
BY DEF ComesAfter, Databases

LEMMA FollowsItself == ASSUME NEW d \in Databases PROVE ComesAfter(d, d)
BY DEF ComesAfter, Databases

LEMMA WithFollows ==
  ASSUME NEW d \in Databases, NEW names, names \subseteq Needed,
         "generation" \notin names
  PROVE  ComesAfter(With(d, names), d) /\ names \subseteq With(d, names).tables
BY DEF ComesAfter, Databases, With, Unseeded

LEMMA SeedFollows ==
  ASSUME NEW d \in Databases, Unseeded(d)
  PROVE  ComesAfter(SeedGeneration(d), d)
<1>1. CASE "generation" \in d.tables
  BY <1>1, FollowsItself DEF SeedGeneration
<1>2. CASE "generation" \notin d.tables
  <2> DEFINE w == With(d, {"secrets", "generation"})
             m == SeedGeneration(d)
  <2>1. m = [w EXCEPT !.generation = 1]
    BY <1>2 DEF SeedGeneration
  <2>2. {"secrets", "generation"} \subseteq Needed
    BY NeededTables DEF BaseNames
  <2>3. /\ w \in Databases /\ w.tables = d.tables \cup {"secrets", "generation"}
        /\ w.version = d.version /\ w.legacy = d.legacy /\ w.ledger = d.ledger /\ w.ids = d.ids
    BY <2>2 DEF With, Databases
  <2>4. /\ m \in Databases /\ m.generation = 1 /\ m.tables = w.tables
        /\ m.version = w.version /\ m.legacy = w.legacy /\ m.ledger = w.ledger /\ m.ids = w.ids
    <3> HIDE DEF w
    <3> QED
      BY <2>1, <2>3 DEF Databases
  <2>5. d.generation = 0
    BY <1>2 DEF Unseeded
  <2> HIDE DEF w
  <2> QED
    BY <2>3, <2>4, <2>5 DEF ComesAfter, Unseeded
<1> QED
  BY <1>1, <1>2

LEMMA HealFollows ==
  ASSUME NEW d \in Databases
  PROVE  /\ ComesAfter(HealLedger(d), d)
         /\ d.ledger # "none" => HealLedger(d).ledger = "new"
BY DEF ComesAfter, Databases, HealLedger, Unquoted, Unseeded

LEMMA DropFollows ==
  ASSUME NEW d \in Databases, NEW loads \in BOOLEAN
  PROVE  /\ ComesAfter(DropLegacy(d, loads), d)
         /\ "memories" \notin DropLegacy(d, loads).legacy
         /\ loads => "vectors" \notin DropLegacy(d, loads).legacy
BY DEF ComesAfter, Databases, DropLegacy, Unseeded

\* One migration.
LEMMA MigrationFollows ==
  ASSUME NEW n \in 1..14, NEW d \in Databases, NEW loads \in BOOLEAN, Unseeded(d)
  PROVE  ComesAfter(Migration(n, d, loads), d)
<1> DEFINE m == Migration(n, d, loads)
<1>1. CASE n = 2
  BY <1>1, WithFollows, NeededTables DEF Migration, BaseNames
<1>2. CASE n = 3
  <2>1. m = IF d.ledger = "none" THEN [d EXCEPT !.ledger = "new"] ELSE d
    BY <1>2 DEF Migration
  <2> QED
    BY <2>1 DEF ComesAfter, Databases, Unseeded
<1>3. CASE n \in {4, 11}
  BY <1>3, HealFollows DEF Migration
<1>4. CASE n = 6
  <2>1. m = [d EXCEPT !.ids = "text"]
    BY <1>4 DEF Migration
  <2> QED
    BY <2>1 DEF ComesAfter, Databases, Unseeded
<1>5. CASE n = 9
  BY <1>5, WithFollows, NeededTables DEF Migration, BaseNames
<1>6. CASE n = 10
  BY <1>6, SeedFollows DEF Migration
<1>7. CASE n = 12
  <2>1. m = With(d, {"personal"} \cup ProjectionTables)
    BY <1>7 DEF Migration
  <2> QED
    BY <2>1, WithFollows, NeededTables DEF BaseNames, ProjectionTables
<1>8. CASE n = 13
  BY <1>8, WithFollows, NeededTables DEF Migration, BaseNames
<1>9. CASE n = 14
  BY <1>9, DropFollows DEF Migration
<1>10. CASE n \notin {2, 3, 4, 6, 9, 10, 11, 12, 13, 14}
  BY <1>10, FollowsItself DEF Migration
<1> QED
  BY <1>1, <1>2, <1>3, <1>4, <1>5, <1>6, <1>7, <1>8, <1>9, <1>10


\* Nothing that a version tells is undone.
LEMMA FollowsTells ==
  ASSUME NEW d, NEW m, ComesAfter(m, d), NEW v \in Nat, VersionTells(v, d)
  PROVE  VersionTells(v, m)
BY DEF ComesAfter, VersionTells

\* After the n-th migration a database is as one of version n.
LEMMA MigrationTells ==
  ASSUME NEW n \in 1..14, NEW d \in Databases, NEW loads \in BOOLEAN, Unseeded(d),
         VersionTells(n - 1, d)
  PROVE  VersionTells(n, Migration(n, d, loads))
<1> DEFINE m == Migration(n, d, loads)
<1>1. VersionTells(n - 1, m)
  BY MigrationFollows, FollowsTells
<1>2. CASE n \notin {3, 6, 11, 12, 13}
  BY <1>1, <1>2 DEF VersionTells
<1>3. CASE n = 3
  <2>1. m.ledger # "none"
    BY <1>3 DEF Migration, Databases
  <2> QED
    BY <1>1, <1>3, <2>1 DEF VersionTells
<1>4. CASE n = 6
  <2>1. m.ids = "text"
    BY <1>4 DEF Migration, Databases
  <2> QED
    BY <1>1, <1>4, <2>1 DEF VersionTells
<1>5. CASE n = 11
  <2>1. d.ledger # "none"
    BY <1>5 DEF VersionTells
  <2>2. m.ledger = "new"
    BY <1>5, <2>1, HealFollows DEF Migration
  <2> QED
    BY <1>1, <1>5, <2>2 DEF VersionTells
<1>6. CASE n = 12
  <2>1. m = With(d, {"personal"} \cup ProjectionTables)
    BY <1>6 DEF Migration
  <2>2. "projection" \in m.tables
    BY <2>1 DEF With, ProjectionTables, Databases
  <2> QED
    BY <1>1, <1>6, <2>2 DEF VersionTells
<1>7. CASE n = 13
  <2>1. m = With(d, {"ring"})
    BY <1>7 DEF Migration
  <2>2. "ring" \in m.tables
    BY <2>1 DEF With, Databases
  <2> QED
    BY <1>1, <1>7, <2>2 DEF VersionTells
<1> QED
  BY <1>2, <1>3, <1>4, <1>5, <1>6, <1>7

\* How far a migration from a version has brought what was the database d.
BootReached(n, e, from, d) ==
  ComesAfter(e, d) /\ VersionTells(from, e) /\ VersionTells(n, e)

LEMMA Reaches ==
  ASSUME NEW d \in Databases, Unseeded(d), NEW from \in 0..14, NEW loads \in BOOLEAN,
         NEW n \in 1..14, NEW e, BootReached(n - 1, e, from, d),
         NEW f, f = MigrateTo(n, e, from, loads)
  PROVE  BootReached(n, f, from, d)
<1>1. e \in Databases /\ Unseeded(e)
  BY DEF BootReached, ComesAfter
<1>2. CASE n <= from
  <2>1. VersionTells(n, e)
    BY <1>2 DEF BootReached, VersionTells
  <2> QED
    BY <2>1, <1>2 DEF MigrateTo, BootReached
<1>3. CASE ~(n <= from)
  <2>1. f = Migration(n, e, loads)
    BY <1>3 DEF MigrateTo
  <2>2. ComesAfter(f, e) /\ VersionTells(n, f)
    BY <2>1, <1>1, MigrationFollows, MigrationTells DEF BootReached
  <2>3. ComesAfter(f, d)
    BY <2>2, <1>1, FollowsOn DEF BootReached
  <2> QED
    BY <2>2, <2>3, FollowsTells DEF BootReached
<1> QED
  BY <1>2, <1>3

\* The migrations that are left out change nothing.
LEMMA Skipped ==
  ASSUME NEW d, NEW from, NEW e
  PROVE  /\ BootReached(0, e, from, d) => BootReached(1, e, from, d)
         /\ BootReached(4, e, from, d) => BootReached(5, e, from, d)
         /\ BootReached(6, e, from, d) => BootReached(8, e, from, d)
BY DEF BootReached, VersionTells

\* All of them, from a version that was read before.
LEMMA MigratedReaches ==
  ASSUME NEW d \in Databases, Unseeded(d), NEW from \in 0..14, VersionTells(from, d),
         NEW loads \in BOOLEAN
  PROVE  BootReached(14, Migrated(d, from, loads), from, d)
<1> DEFINE To(n, e) == MigrateTo(n, e, from, loads)
<1> HIDE DEF To
<1>0. ASSUME NEW n \in 1..14, NEW e, BootReached(n - 1, e, from, d)
      PROVE  BootReached(n, To(n, e), from, d)
  BY <1>0, Reaches DEF To
<1>1. BootReached(1, d, from, d)
  <2>1. BootReached(0, d, from, d)
    BY FollowsItself DEF BootReached, VersionTells
  <2> QED
    BY <2>1, Skipped
<1>2. PICK d2 : d2 = To(2, d) /\ BootReached(2, d2, from, d)
  <2>1. BootReached(2 - 1, d, from, d)
    BY <1>1
  <2> QED
    BY <1>0, <2>1
<1>3. PICK d3 : d3 = To(3, d2) /\ BootReached(3, d3, from, d)
  <2>1. BootReached(3 - 1, d2, from, d)
    BY <1>2
  <2> QED
    BY <1>0, <2>1
<1>4. PICK d4 : d4 = To(4, d3) /\ BootReached(4, d4, from, d)
  <2>1. BootReached(4 - 1, d3, from, d)
    BY <1>3
  <2> QED
    BY <1>0, <2>1
<1>5. PICK d6 : d6 = To(6, d4) /\ BootReached(6, d6, from, d)
  <2>1. BootReached(6 - 1, d4, from, d)
    BY <1>4, Skipped
  <2> QED
    BY <1>0, <2>1
<1>6. PICK d9 : d9 = To(9, d6) /\ BootReached(9, d9, from, d)
  <2>1. BootReached(9 - 1, d6, from, d)
    BY <1>5, Skipped
  <2> QED
    BY <1>0, <2>1
<1>7. PICK d10 : d10 = To(10, d9) /\ BootReached(10, d10, from, d)
  <2>1. BootReached(10 - 1, d9, from, d)
    BY <1>6
  <2> QED
    BY <1>0, <2>1
<1>8. PICK d11 : d11 = To(11, d10) /\ BootReached(11, d11, from, d)
  <2>1. BootReached(11 - 1, d10, from, d)
    BY <1>7
  <2> QED
    BY <1>0, <2>1
<1>9. PICK d12 : d12 = To(12, d11) /\ BootReached(12, d12, from, d)
  <2>1. BootReached(12 - 1, d11, from, d)
    BY <1>8
  <2> QED
    BY <1>0, <2>1
<1>10. PICK d13 : d13 = To(13, d12) /\ BootReached(13, d13, from, d)
  <2>1. BootReached(13 - 1, d12, from, d)
    BY <1>9
  <2> QED
    BY <1>0, <2>1
<1>11. PICK d14 : d14 = To(14, d13) /\ BootReached(14, d14, from, d)
  <2>1. BootReached(14 - 1, d13, from, d)
    BY <1>10
  <2> QED
    BY <1>0, <2>1
<1>12. Migrated(d, from, loads) = d14
  BY <1>2, <1>3, <1>4, <1>5, <1>6, <1>7, <1>8, <1>9, <1>10, <1>11 DEF Migrated, To
<1> QED
  BY <1>11, <1>12

\* Boots go their ways one at a time.
LEMMA BootMoves ==
  ASSUME BootInv, NEW p \in BootProcess, NEW place \in BootPlace, BootGoto(p, place)
  PROVE  /\ bootAt' \in [BootProcess -> BootPlace] /\ bootAt'[p] = place
         /\ \A q \in BootProcess : q # p => bootAt'[q] = bootAt[q]
BY DEF BootInv, BootTypeOK, BootGoto

\* A database that follows another, where the boots were: nothing is lost for them.
LEMMA BootsFollow ==
  ASSUME BootInv, ComesAfter(db', db), readiness' = readiness, vector' = vector,
         versionRead' = versionRead, NEW q \in BootProcess, bootAt'[q] = bootAt[q]
  PROVE  /\ bootAt'[q] \in {"version", "migrate"} \cup PastMigration => BaseNames \subseteq db'.tables
         /\ bootAt'[q] = "migrate" => versionRead'[q] <= db'.version
         /\ bootAt'[q] \in PastMigration => db'.version = Latest
         /\ bootAt'[q] \in PastMigration \ {"drop"} =>
              "memories" \notin db'.legacy /\ (vector'[q] => "vectors" \notin db'.legacy)
         /\ bootAt'[q] \in {"core", "serving"} => readiness' # "none"
BY DEF BootInv, BootedSoFar, ComesAfter

LEMMA BootBounds ==
  ASSUME BootAssumption PROVE MaxMessage \in Nat /\ MaxOlder \in Nat /\ MaxBootDeath \in Nat
BY DEF BootAssumption

LEMMA BootBegins == ASSUME BootAssumption, BootInit PROVE BootInv
<1>1. /\ bootAt = [q \in BootProcess |-> "down"] /\ versionRead = [q \in BootProcess |-> 0]
      /\ vector = [q \in BootProcess |-> FALSE] /\ older = 0 /\ bootDeaths = 0
  BY DEF BootInit
<1>2. \/ db = NoDatabase /\ messages = 0 /\ owned = FALSE /\ core = "none" /\ readiness = "none"
      \/ /\ db \in Databases /\ Left(db) /\ messages = 1 /\ owned = TRUE /\ core = "written"
         /\ readiness \in {"ready", "none"}
  <2>1. ASSUME NEW v \in 1..Latest, NEW l \in {"none", "quoted", "old", "new"},
               NEW i \in {"integer", "text"}, NEW t \in SUBSET Needed,
               NEW g \in SUBSET {"memories", "vectors"}, NEW n \in {0, 2},
               db = [version |-> v, tables |-> t, ledger |-> l, ids |-> i, legacy |-> g,
                     generation |-> n]
        PROVE  db \in Databases
    BY <2>1 DEF Databases, Latest
  <2>2. CASE /\ \E v \in 1..Latest, l \in {"none", "quoted", "old", "new"}, i \in {"integer", "text"} :
                  \E t \in SUBSET Needed, g \in SUBSET {"memories", "vectors"}, n \in {0, 2} :
                    db = [version |-> v, tables |-> t, ledger |-> l, ids |-> i, legacy |-> g,
                          generation |-> n]
             /\ Left(db) /\ messages = 1 /\ owned = TRUE /\ core = "written"
             /\ readiness = (IF db.version >= 12 THEN "ready" ELSE "none")
    <3>1. PICK v \in 1..Latest, l \in {"none", "quoted", "old", "new"}, i \in {"integer", "text"},
               t \in SUBSET Needed, g \in SUBSET {"memories", "vectors"}, n \in {0, 2} :
            db = [version |-> v, tables |-> t, ledger |-> l, ids |-> i, legacy |-> g,
                  generation |-> n]
      BY <2>2
    <3>2. db \in Databases
      BY <2>1, <3>1
    <3> QED
      BY <2>2, <3>2
  <2> QED
    BY <2>2 DEF BootInit
<1>3. db \in Databases /\ VersionTells(db.version, db) /\ Unseeded(db)
  <2>1. CASE db = NoDatabase
    BY <2>1 DEF NoDatabase, Databases, VersionTells, Unseeded, Latest
  <2>2. CASE db \in Databases /\ Left(db)
    BY <2>2 DEF Left, VersionTells, Unseeded, ProjectionTables, Databases, Latest
  <2> QED
    BY <1>2, <2>1, <2>2
<1>4. /\ messages \in 0..MaxMessage + 1 /\ owned \in BOOLEAN /\ (owned => messages > 0)
      /\ readiness \in {"none", "ready", "legacy"} /\ core \in {"none", "templates", "written"}
  <2>1. CASE messages = 0 /\ owned = FALSE /\ core = "none" /\ readiness = "none"
    <3>1. 0 \in 0..MaxMessage + 1
      BY BootBounds
    <3> QED
      BY <2>1, <3>1, Zenon
  <2>2. CASE messages = 1 /\ owned = TRUE /\ core = "written" /\ readiness \in {"ready", "none"}
    BY <2>2, BootBounds
  <2> QED
    BY <1>2, <2>1, <2>2
<1>5. /\ bootAt \in [BootProcess -> BootPlace] /\ versionRead \in [BootProcess -> 0..Latest]
      /\ vector \in [BootProcess -> BOOLEAN] /\ older \in 0..MaxOlder /\ bootDeaths \in 0..MaxBootDeath
  BY <1>1, BootBounds DEF BootPlace, Latest
<1>6. BootedSoFar
  BY <1>1 DEF BootedSoFar, PastMigration
<1> QED
  BY <1>3, <1>4, <1>5, <1>6 DEF BootInv, BootTypeOK

LEMMA OpenKeeps ==
  ASSUME BootInv, NEW p \in BootProcess, OpenDatabase(p)
  PROVE  BootInv' /\ BootStep
<1>1. /\ bootAt' \in [BootProcess -> BootPlace] /\ bootAt'[p] = "base"
      /\ \A q \in BootProcess : q # p => bootAt'[q] = bootAt[q]
  BY BootMoves DEF OpenDatabase, BootPlace
<1>2. /\ vector' \in [BootProcess -> BOOLEAN]
      /\ \A q \in BootProcess : q # p => vector'[q] = vector[q]
  BY DEF OpenDatabase, BootInv, BootTypeOK
<1>3. UNCHANGED <<db, messages, owned, readiness, core, versionRead, older, bootDeaths>>
  BY DEF OpenDatabase
<1>4. BootTypeOK' /\ VersionTells(db.version, db)' /\ Unseeded(db)' /\ (owned => messages > 0)'
  BY <1>1, <1>2, <1>3 DEF BootInv, BootTypeOK, VersionTells, Unseeded
<1>5. BootedSoFar'
  BY <1>1, <1>2, <1>3 DEF BootInv, BootedSoFar, PastMigration
<1>6. BootStep
  BY <1>1, <1>3 DEF BootStep, BootInv, BootTypeOK, Databases
<1> QED
  BY <1>4, <1>5, <1>6 DEF BootInv

LEMMA CreateKeeps ==
  ASSUME BootInv, NEW p \in BootProcess, Create(p)
  PROVE  BootInv' /\ BootStep
<1> DEFINE missing == {i \in 1..Len(BaseTables) : BaseTables[i] \notin db.tables}
           first == CHOOSE i \in missing : \A j \in missing : i <= j
           next == BaseTables[first]
<1>1. db \in Databases /\ Unseeded(db)
  BY DEF BootInv, BootTypeOK
<1>2. UNCHANGED <<messages, owned, readiness, core, versionRead, vector, older, bootDeaths>>
  BY DEF Create
<1>3. CASE missing = {}
  <2>1. db' = db /\ BootGoto(p, "version")
    BY <1>3 DEF Create
  <2>2. /\ bootAt' \in [BootProcess -> BootPlace] /\ bootAt'[p] = "version"
        /\ \A q \in BootProcess : q # p => bootAt'[q] = bootAt[q]
    BY <2>1, BootMoves DEF BootPlace
  <2>3. BaseNames \subseteq db.tables
    BY <1>3, NeededTables
  <2>4. BootTypeOK' /\ VersionTells(db.version, db)' /\ Unseeded(db)' /\ (owned => messages > 0)'
    BY <1>2, <2>1, <2>2 DEF BootInv, BootTypeOK, VersionTells, Unseeded
  <2>5. BootedSoFar'
    BY <1>2, <2>1, <2>2, <2>3 DEF BootInv, BootedSoFar, PastMigration
  <2>6. BootStep
    BY <1>1, <1>2, <2>1, <2>2 DEF BootStep, BootInv, BootTypeOK, Databases
  <2> QED
    BY <2>4, <2>5, <2>6 DEF BootInv
<1>4. CASE missing # {}
  <2>1. PICK i \in missing : \A j \in missing : i <= j
    <3>1. missing \subseteq 1..6
      BY NeededTables
    <3> HIDE DEF missing
    <3>2. CASE 1 \in missing
      BY <3>1, <3>2
    <3>3. CASE 2 \in missing /\ missing \cap {1} = {}
      BY <3>1, <3>3
    <3>4. CASE 3 \in missing /\ missing \cap {1, 2} = {}
      BY <3>1, <3>4
    <3>5. CASE 4 \in missing /\ missing \cap {1, 2, 3} = {}
      BY <3>1, <3>5
    <3>6. CASE 5 \in missing /\ missing \cap {1, 2, 3, 4} = {}
      BY <3>1, <3>6
    <3>7. CASE missing \cap {1, 2, 3, 4, 5} = {}
      <4>1. \A j \in missing : j = 6
        BY <3>1, <3>7
      <4> QED
        BY <1>4, <4>1
    <3> QED
      BY <3>2, <3>3, <3>4, <3>5, <3>6, <3>7
  <2>2. first \in missing
    BY <2>1
  <2>3. next \in BaseNames
    BY <2>2, NeededTables
  <2>4. db' = (IF next = "generation" THEN SeedGeneration(db) ELSE With(db, {next})) /\ bootAt' = bootAt
    BY <1>4 DEF Create
  <2> HIDE DEF next
  <2>5. ComesAfter(db', db)
    <3>1. CASE next = "generation"
      BY <3>1, <2>4, <1>1, SeedFollows
    <3>2. CASE next # "generation"
      <4>1. {next} \subseteq Needed /\ "generation" \notin {next}
        BY <2>3, <3>2, NeededTables
      <4> QED
        BY <3>2, <4>1, <2>4, <1>1, WithFollows
    <3> QED
      BY <3>1, <3>2
  <2>6. BootTypeOK' /\ VersionTells(db.version, db)' /\ Unseeded(db)' /\ (owned => messages > 0)'
    <3>1. db'.version = db.version /\ db.version \in Nat /\ VersionTells(db.version, db)
      BY <2>5, <1>1 DEF ComesAfter, Databases, Latest, BootInv
    <3>2. VersionTells(db'.version, db')
      BY <2>5, <3>1, FollowsTells
    <3>3. Unseeded(db') /\ db' \in Databases
      BY <2>5, <1>1 DEF ComesAfter
    <3> QED
      BY <1>2, <2>4, <3>2, <3>3 DEF BootInv, BootTypeOK
  <2>7. BootedSoFar'
    BY <1>2, <2>4, <2>5, BootsFollow DEF BootedSoFar
  <2>8. BootStep
    BY <1>1, <1>2, <2>4, <2>5 DEF BootStep, BootInv, BootTypeOK, ComesAfter
  <2> QED
    BY <2>6, <2>7, <2>8 DEF BootInv
<1> QED
  BY <1>3, <1>4

LEMMA ReadVersionKeeps ==
  ASSUME BootInv, NEW p \in BootProcess, ReadVersion(p)
  PROVE  BootInv' /\ BootStep
<1>1. /\ bootAt' \in [BootProcess -> BootPlace] /\ bootAt'[p] = "migrate" /\ bootAt[p] = "version"
      /\ \A q \in BootProcess : q # p => bootAt'[q] = bootAt[q]
  BY BootMoves DEF ReadVersion, BootPlace
<1>2. UNCHANGED <<db, messages, owned, readiness, core, vector, older, bootDeaths>>
  BY DEF ReadVersion
<1>3. /\ versionRead' \in [BootProcess -> 0..Latest] /\ versionRead'[p] = db.version
      /\ \A q \in BootProcess : q # p => versionRead'[q] = versionRead[q]
      /\ db.version \in 0..Latest
  BY DEF ReadVersion, BootInv, BootTypeOK, Databases
<1>4. BootTypeOK' /\ VersionTells(db.version, db)' /\ Unseeded(db)' /\ (owned => messages > 0)'
  BY <1>1, <1>2, <1>3 DEF BootInv, BootTypeOK, VersionTells, Unseeded
<1>5. BootedSoFar'
  BY <1>1, <1>2, <1>3 DEF BootInv, BootedSoFar, PastMigration, Latest
<1>6. BootStep
  BY <1>1, <1>2 DEF BootStep, BootInv, BootTypeOK, Databases
<1> QED
  BY <1>4, <1>5, <1>6 DEF BootInv

LEMMA MigrateKeeps ==
  ASSUME BootInv, NEW p \in BootProcess, Migrate(p)
  PROVE  BootInv' /\ BootStep
<1>1. /\ bootAt' \in [BootProcess -> BootPlace] /\ bootAt'[p] = "drop" /\ bootAt[p] = "migrate"
      /\ \A q \in BootProcess : q # p => bootAt'[q] = bootAt[q]
  BY BootMoves DEF Migrate, BootPlace
<1>2. UNCHANGED <<messages, owned, readiness, core, versionRead, vector, older, bootDeaths>>
  BY DEF Migrate
<1> DEFINE from == versionRead[p]
           m == Migrated(db, from, vector[p])
<1>3. db' = [m EXCEPT !.version = Latest]
  BY DEF Migrate
<1>4. /\ db \in Databases /\ Unseeded(db) /\ from \in 0..14 /\ vector[p] \in BOOLEAN
      /\ VersionTells(from, db) /\ db.version \in 0..14
  BY <1>1 DEF BootInv, BootTypeOK, BootedSoFar, Latest, VersionTells, Databases
<1>5. BootReached(14, m, from, db)
  BY <1>4, MigratedReaches
<1> HIDE DEF m
<1>6. m \in Databases /\ ComesAfter(m, db) /\ VersionTells(14, m) /\ Unseeded(m)
  BY <1>5, <1>4 DEF BootReached, ComesAfter
<1>7. /\ db' \in Databases /\ db'.version = 14 /\ db'.tables = m.tables /\ db'.legacy = m.legacy
      /\ db'.ledger = m.ledger /\ db'.ids = m.ids /\ db'.generation = m.generation
  BY <1>3, <1>6 DEF Databases, Latest
<1>8. BootTypeOK' /\ VersionTells(db.version, db)' /\ Unseeded(db)' /\ (owned => messages > 0)'
  BY <1>1, <1>2, <1>6, <1>7 DEF BootInv, BootTypeOK, VersionTells, Unseeded
<1>9. db.tables \subseteq db'.tables /\ db'.legacy \subseteq db.legacy /\ db'.generation >= db.generation
  BY <1>6, <1>7 DEF ComesAfter
<1>10. BootedSoFar'
  <2> SUFFICES ASSUME NEW q \in BootProcess
               PROVE  /\ bootAt'[q] \in {"version", "migrate"} \cup PastMigration => BaseNames \subseteq db'.tables
                      /\ bootAt'[q] = "migrate" => versionRead'[q] <= db'.version
                      /\ bootAt'[q] \in PastMigration => db'.version = Latest
                      /\ bootAt'[q] \in PastMigration \ {"drop"} =>
                           "memories" \notin db'.legacy /\ (vector'[q] => "vectors" \notin db'.legacy)
                      /\ bootAt'[q] \in {"core", "serving"} => readiness' # "none"
    BY DEF BootedSoFar
  <2>1. CASE q = p
    BY <2>1, <1>1, <1>7, <1>9 DEF BootInv, BootedSoFar, PastMigration, Latest
  <2>2. CASE q # p
    <3>1. bootAt'[q] = bootAt[q] /\ versionRead[q] \in 0..14
      BY <2>2, <1>1 DEF BootInv, BootTypeOK, Latest
    <3> QED
      BY <3>1, <1>2, <1>7, <1>9 DEF BootInv, BootedSoFar, Latest
  <2> QED
    BY <2>1, <2>2
<1>11. BootStep
  BY <1>1, <1>2, <1>9 DEF BootStep, BootInv, BootTypeOK
<1> QED
  BY <1>8, <1>10, <1>11 DEF BootInv

LEMMA DropKeeps ==
  ASSUME BootInv, NEW p \in BootProcess, Drop(p)
  PROVE  BootInv' /\ BootStep
<1>1. /\ bootAt' \in [BootProcess -> BootPlace] /\ bootAt'[p] = "look" /\ bootAt[p] = "drop"
      /\ \A q \in BootProcess : q # p => bootAt'[q] = bootAt[q]
  BY BootMoves DEF Drop, BootPlace
<1>2. UNCHANGED <<messages, owned, readiness, core, versionRead, vector, older, bootDeaths>>
  BY DEF Drop
<1>3. db' = DropLegacy(db, vector[p]) /\ db \in Databases /\ vector[p] \in BOOLEAN
  BY DEF Drop, BootInv, BootTypeOK
<1>4. /\ ComesAfter(db', db) /\ "memories" \notin db'.legacy
      /\ vector[p] => "vectors" \notin db'.legacy
  BY <1>3, DropFollows
<1>5. BootTypeOK' /\ VersionTells(db.version, db)' /\ Unseeded(db)' /\ (owned => messages > 0)'
  <2>1. db'.version = db.version /\ db.version \in Nat /\ VersionTells(db.version, db)
    BY <1>3, <1>4 DEF ComesAfter, Databases, Latest, BootInv
  <2>2. VersionTells(db'.version, db')
    BY <1>4, <2>1, FollowsTells
  <2>3. Unseeded(db') /\ db' \in Databases
    BY <1>4 DEF ComesAfter, BootInv
  <2> QED
    BY <1>1, <1>2, <2>2, <2>3 DEF BootInv, BootTypeOK
<1>6. BootedSoFar'
  <2> SUFFICES ASSUME NEW q \in BootProcess
               PROVE  /\ bootAt'[q] \in {"version", "migrate"} \cup PastMigration => BaseNames \subseteq db'.tables
                      /\ bootAt'[q] = "migrate" => versionRead'[q] <= db'.version
                      /\ bootAt'[q] \in PastMigration => db'.version = Latest
                      /\ bootAt'[q] \in PastMigration \ {"drop"} =>
                           "memories" \notin db'.legacy /\ (vector'[q] => "vectors" \notin db'.legacy)
                      /\ bootAt'[q] \in {"core", "serving"} => readiness' # "none"
    BY DEF BootedSoFar
  <2>1. CASE q = p
    BY <2>1, <1>1, <1>2, <1>4 DEF BootInv, BootedSoFar, PastMigration, ComesAfter
  <2>2. CASE q # p
    BY <2>2, <1>1, <1>2, <1>4, BootsFollow
  <2> QED
    BY <2>1, <2>2
<1>7. BootStep
  BY <1>1, <1>2, <1>4 DEF BootStep, BootInv, BootTypeOK, ComesAfter
<1> QED
  BY <1>5, <1>6, <1>7 DEF BootInv

\* Steps that leave the database as it is.
LEMMA QuietKeeps ==
  ASSUME BootAssumption, BootInv, NEW p \in BootProcess, Look(p) \/ Seed(p) \/ BootFails(p) \/ CloseDatabase(p)
  PROVE  BootInv' /\ BootStep
<1>1. UNCHANGED <<db, messages, owned, core, versionRead, vector, older>>
  BY DEF Look, Seed, BootFails, CloseDatabase
<1>2. PICK place \in {"seed", "core", "down"} :
        /\ BootGoto(p, place) /\ (place # "down" => bootAt[p] \in {"look", "seed"})
        /\ place = "core" => readiness' # "none"
  BY DEF Look, Seed, BootFails, CloseDatabase
<1>3. /\ bootAt' \in [BootProcess -> BootPlace] /\ bootAt'[p] = place
      /\ \A q \in BootProcess : q # p => bootAt'[q] = bootAt[q]
  BY <1>2, BootMoves DEF BootPlace
<1>4. /\ readiness' \in {"none", "ready", "legacy"} /\ bootDeaths' \in 0..MaxBootDeath
      /\ readiness # "none" => readiness' = readiness
      /\ readiness = "none" /\ readiness' = "ready" => messages = 0
  <2>1. /\ readiness \in {"none", "ready", "legacy"} /\ bootDeaths \in 0..MaxBootDeath
        /\ messages \in Nat
    BY BootBounds DEF BootInv, BootTypeOK
  <2>2. CASE Look(p) \/ CloseDatabase(p)
    BY <2>1, <2>2 DEF Look, CloseDatabase
  <2>3. CASE Seed(p)
    BY <2>1, <2>3 DEF Seed
  <2>4. CASE BootFails(p)
    BY <2>1, <2>4, BootBounds DEF BootFails
  <2> QED
    BY <2>2, <2>3, <2>4
<1>5. BootTypeOK' /\ VersionTells(db.version, db)' /\ Unseeded(db)' /\ (owned => messages > 0)'
  BY <1>1, <1>3, <1>4 DEF BootInv, BootTypeOK, VersionTells, Unseeded
<1>6. BootedSoFar'
  BY <1>1, <1>2, <1>3, <1>4 DEF BootInv, BootedSoFar, PastMigration
<1>7. BootStep
  BY <1>1, <1>2, <1>3, <1>4 DEF BootStep, BootInv, BootTypeOK, Databases
<1> QED
  BY <1>5, <1>6, <1>7 DEF BootInv

LEMMA ServeKeeps ==
  ASSUME BootInv, NEW p \in BootProcess, SeedCore(p)
  PROVE  BootInv' /\ BootStep
<1>1. /\ bootAt' \in [BootProcess -> BootPlace] /\ bootAt'[p] = "serving" /\ bootAt[p] = "core"
      /\ \A q \in BootProcess : q # p => bootAt'[q] = bootAt[q]
  BY BootMoves DEF SeedCore, BootPlace
<1>2. UNCHANGED <<db, messages, owned, readiness, versionRead, vector, older, bootDeaths>>
  BY DEF SeedCore
<1>3. core' \in {"none", "templates", "written"}
  BY DEF SeedCore, BootInv, BootTypeOK
<1>4. BootTypeOK' /\ VersionTells(db.version, db)' /\ Unseeded(db)' /\ (owned => messages > 0)'
  BY <1>1, <1>2, <1>3 DEF BootInv, BootTypeOK, VersionTells, Unseeded
<1>5. BootedSoFar'
  BY <1>1, <1>2 DEF BootInv, BootedSoFar, PastMigration
<1>6. DatabaseWhole(p)'
  <2>1. db.version = 14 /\ BaseNames \subseteq db.tables /\ readiness # "none"
    BY <1>1 DEF BootInv, BootedSoFar, PastMigration, Latest
  <2>2. db.ledger = "new" /\ db.ids = "text" /\ {"projection", "ring"} \subseteq db.tables
    BY <2>1 DEF BootInv, VersionTells
  <2>3. "memories" \notin db.legacy /\ (vector[p] => "vectors" \notin db.legacy)
    BY <1>1 DEF BootInv, BootedSoFar, PastMigration
  <2>4. Needed \subseteq db.tables
    BY <2>1, <2>2, NeededTables
  <2> QED
    BY <1>2, <2>1, <2>2, <2>3, <2>4 DEF DatabaseWhole
<1>7. BootStep
  BY <1>1, <1>2, <1>6 DEF BootStep, BootInv, BootTypeOK, Databases
<1> QED
  BY <1>4, <1>5, <1>7 DEF BootInv

LEMMA OthersKeep ==
  ASSUME BootAssumption, BootInv,
         (\E p \in BootProcess : StoreMessage(p)) \/ ReconcileCore \/ UNCHANGED bootVars
  PROVE  BootInv' /\ (BootStep \/ UNCHANGED bootVars)
<1>1. UNCHANGED <<db, readiness, bootAt, versionRead, vector, older, bootDeaths>>
  BY DEF StoreMessage, ReconcileCore, bootVars
<1>2. /\ messages' \in 0..MaxMessage + 1 /\ owned' \in BOOLEAN /\ messages' >= messages
      /\ core' \in {"none", "templates", "written"} /\ (owned' => messages' > 0)
  <2>1. /\ messages \in 0..MaxMessage + 1 /\ owned \in BOOLEAN /\ (owned => messages > 0)
        /\ core \in {"none", "templates", "written"}
    BY DEF BootInv, BootTypeOK
  <2>2. CASE \E p \in BootProcess : StoreMessage(p)
    BY <2>1, <2>2, BootBounds DEF StoreMessage
  <2>3. CASE ReconcileCore \/ UNCHANGED bootVars
    BY <2>1, <2>3, BootBounds DEF ReconcileCore, bootVars
  <2> QED
    BY <2>2, <2>3
<1>3. BootTypeOK' /\ VersionTells(db.version, db)' /\ Unseeded(db)' /\ (owned => messages > 0)'
  BY <1>1, <1>2 DEF BootInv, BootTypeOK, VersionTells, Unseeded
<1>4. BootedSoFar'
  BY <1>1 DEF BootInv, BootedSoFar
<1>5. BootStep
  BY <1>1, <1>2 DEF BootStep, BootInv, BootTypeOK, Databases
<1> QED
  BY <1>3, <1>4, <1>5 DEF BootInv

LEMMA OlderKeeps == ASSUME BootAssumption, BootInv, BootOlder PROVE BootInv' /\ BootStep
<1>1. UNCHANGED <<messages, owned, readiness, core, bootAt, versionRead, vector, bootDeaths>>
  BY DEF BootOlder
<1>2. \A p \in BootProcess : bootAt[p] = "down"
  BY DEF BootOlder
<1>3. PICK v \in {3, 10, 13} :
        v < db.version /\ db' = [db EXCEPT !.version = v, !.legacy = {"memories", "vectors"}]
  BY DEF BootOlder
<1>4. db \in Databases /\ db.version \in 0..14
  BY DEF BootInv, BootTypeOK, Databases, Latest
<1>5. /\ db' \in Databases /\ db'.version = v /\ db'.tables = db.tables /\ db'.ledger = db.ledger
      /\ db'.ids = db.ids /\ db'.generation = db.generation
  <2>1. v \in 0..14 /\ {"memories", "vectors"} \in SUBSET {"memories", "vectors"}
    OBVIOUS
  <2> QED
    BY <1>3, <1>4, <2>1 DEF Databases, Latest
<1>6. BootTypeOK'
  <2>1. older' \in 0..MaxOlder
    BY BootBounds DEF BootOlder, BootInv, BootTypeOK
  <2> QED
    BY <1>1, <1>5, <2>1 DEF BootInv, BootTypeOK
<1>7. VersionTells(db.version, db)' /\ Unseeded(db)' /\ (owned => messages > 0)'
  BY <1>1, <1>3, <1>4, <1>5 DEF BootInv, VersionTells, Unseeded
<1>8. BootedSoFar'
  BY <1>1, <1>2 DEF BootedSoFar, PastMigration
<1>9. BootStep
  BY <1>1, <1>2, <1>4, <1>5 DEF BootStep, BootInv, BootTypeOK, Databases
<1> QED
  BY <1>6, <1>7, <1>8, <1>9 DEF BootInv

\* Whatever release left the database and however boots interleave or die: who comes to
\* serve has a whole database, no boot starts the key generations over or loses a
\* message, and readiness is concluded once and never "ready" of what was owned.
THEOREM BootsConverge == ASSUME BootAssumption PROVE BootSpec => BootConverges
<1>1. BootInit => BootInv
  BY BootBegins
<1>2. BootInv /\ [BootNext]_bootVars => BootInv' /\ (BootStep \/ UNCHANGED bootVars)
  BY OpenKeeps, CreateKeeps, ReadVersionKeeps, MigrateKeeps, DropKeeps, QuietKeeps, ServeKeeps, OthersKeep,
     OlderKeeps DEF BootNext
<1> QED
  BY <1>1, <1>2, PTL DEF BootSpec, BootConverges

=============================================================================
