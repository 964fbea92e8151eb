-------------------------- MODULE SecretKeyRotation --------------------------
(***************************************************************************)
(* The rotation of the secrets key (secret-key-rotation.ts): staged file   *)
(* secrets and key material, a journal, one database transaction, the      *)
(* promotion of the stage, and the recovery of a rotation that was cut     *)
(* off.  `abmind passwd` changes the key; `abmind rekey` re-encrypts rows   *)
(* of another key under the one there is.  The service recovers when it    *)
(* opens the database, and seals rows with the key it has in memory.       *)
(*                                                                         *)
(* A ciphertext is the key it was made with.  key.verify goes with the key *)
(* file, and the forget ring is a row that is always there.                *)
(***************************************************************************)
EXTENDS Integers

CONSTANTS
  SecretKey, SecretRow, File,
  Kinds,         \* bound: the commands that run, of "passwd" and "rekey"
  Together,      \* bound: may the service be up beside a command?
  MaxGeneration, \* bound: generations
  MaxFault       \* bound: deaths

ASSUME RotationAssumption ==
  /\ SecretKey \subseteq Nat \ {0} /\ 1 \in SecretKey /\ Kinds \subseteq {"passwd", "rekey"}
  /\ Together \in BOOLEAN /\ MaxGeneration \in Nat \ {0} /\ MaxFault \in Nat

Unset == 0
Process == {"command", "service"}

VARIABLES
  sealed,   \* the key each row is sealed with, or Unset
  file,     \* the key each file secret is sealed with
  dbGen,    \* secret_key_state.active_generation
  key,      \* abmind.key
  keyGen,   \* key.generation
  staged,   \* the staged key, generation and file secrets
  journal,  \* the generation and the staged files it names, or NoJournal
  doing,    \* where each process is
  rotation, \* the command: its kind, its keys, and the rows it read
  cached,   \* the key the service has loaded, or Unset
  faults

rotationVars == <<sealed, file, dbGen, key, keyGen, staged, journal, doing, rotation, cached, faults>>
disk == <<sealed, file, dbGen>>
material == <<key, keyGen>>

NoJournal == [gen |-> Unset, files |-> {}]
NoStage == [key |-> Unset, gen |-> Unset, file |-> [f \in File |-> Unset]]
NoRotation == [kind |-> "none", old |-> Unset, new |-> Unset, rows |-> {}, files |-> {}, gen |-> Unset]

Doing == {"down", "idle", "up", "recover", "key", "gen", "files", "journal", "drop", "dropFiles",
         "stageFiles", "stageKey", "stageGen", "write", "commit"}

RotationTypeOK ==
  /\ sealed \in [SecretRow -> SecretKey \cup {Unset}] /\ file \in [File -> SecretKey]
  /\ dbGen \in 1..MaxGeneration /\ key \in SecretKey /\ keyGen \in 1..MaxGeneration
  /\ staged \in [key : SecretKey \cup {Unset}, gen : 0..MaxGeneration, file : [File -> SecretKey \cup {Unset}]]
  /\ journal \in [gen : 0..MaxGeneration, files : SUBSET File]
  /\ doing \in [Process -> Doing] /\ cached \in SecretKey \cup {Unset} /\ faults \in 0..MaxFault

RotationInit ==
  /\ sealed = [r \in SecretRow |-> Unset] /\ file = [f \in File |-> 1] /\ dbGen = 1
  /\ key = 1 /\ keyGen = 1 /\ staged = NoStage /\ journal = NoJournal
  /\ doing = [command |-> "idle", service |-> "down"]
  /\ rotation = NoRotation /\ cached = Unset /\ faults = 0

Goto(p, step) == doing' = [doing EXCEPT ![p] = step]
\* Where a process goes on when recovery is over.
Done(p) == IF p = "service" THEN "up" ELSE "idle"

-----------------------------------------------------------------------------
(* Recovery, of the service when it starts and of a command before it      *)
(* rotates.                                                                *)

Recover(p) ==
  /\ doing[p] = "recover"
  /\ IF journal # NoJournal
     THEN IF dbGen = journal.gen THEN Goto(p, "key") /\ UNCHANGED journal
          ELSE IF dbGen = journal.gen - 1 THEN Goto(p, "drop") /\ UNCHANGED journal
          ELSE Goto(p, Done(p)) /\ journal' = NoJournal
     ELSE /\ UNCHANGED journal
          /\ IF keyGen # dbGen THEN Goto(p, Done(p))
             ELSE Goto(p, IF p = "service" THEN "up" ELSE "stageFiles")
  /\ UNCHANGED <<disk, material, staged, rotation, cached, faults>>

\* promoteStage(): what is staged takes its place, the key before its generation.
PromoteKey(p) ==
  /\ doing[p] = "key" /\ Goto(p, "gen")
  /\ key' = IF staged.key # Unset THEN staged.key ELSE key
  /\ staged' = [staged EXCEPT !.key = Unset]
  /\ UNCHANGED <<disk, keyGen, journal, rotation, cached, faults>>

PromoteGeneration(p) ==
  /\ doing[p] = "gen" /\ Goto(p, "files")
  /\ keyGen' = IF staged.gen # Unset THEN staged.gen ELSE keyGen
  /\ staged' = [staged EXCEPT !.gen = Unset]
  /\ UNCHANGED <<disk, key, journal, rotation, cached, faults>>

\* The files a process promotes: those of the journal in a recovery, those it
\* staged itself in a rotation.
Rotating(p) == p = "command" /\ rotation.gen # Unset
Named(p) == IF Rotating(p) THEN rotation.files ELSE journal.files

\* A staged file that is not there ends a rotation's promotion with an error
\* that is logged; a recovery skips it.
PromoteFiles(p) ==
  /\ doing[p] = "files"
  /\ IF Rotating(p) /\ \E f \in Named(p) : staged.file[f] = Unset
     THEN Goto(p, "idle") /\ UNCHANGED <<file, staged>>
     ELSE /\ Goto(p, "journal")
          /\ file' = [f \in File |-> IF f \in Named(p) /\ staged.file[f] # Unset THEN staged.file[f] ELSE file[f]]
          /\ staged' = [staged EXCEPT !.file = [f \in File |-> IF f \in Named(p) THEN Unset ELSE @[f]]]
  /\ UNCHANGED <<sealed, dbGen, material, journal, rotation, cached, faults>>

\* removeStaged(), then the files.
DropKey(p) ==
  /\ doing[p] = "drop" /\ Goto(p, "dropFiles")
  /\ staged' = [staged EXCEPT !.key = Unset, !.gen = Unset]
  /\ UNCHANGED <<disk, material, journal, rotation, cached, faults>>

DropFiles(p) ==
  /\ doing[p] = "dropFiles" /\ Goto(p, "journal")
  /\ staged' = [staged EXCEPT !.file = [f \in File |-> IF f \in Named(p) THEN Unset ELSE @[f]]]
  /\ UNCHANGED <<disk, material, journal, rotation, cached, faults>>

\* A command that recovered goes on to rotate.
RemoveJournal(p) ==
  /\ doing[p] = "journal" /\ journal' = NoJournal
  /\ Goto(p, IF p = "service" THEN "up" ELSE IF Rotating(p) THEN "idle" ELSE "stageFiles")
  /\ UNCHANGED <<disk, material, staged, rotation, cached, faults>>

-----------------------------------------------------------------------------
(* A rotation.                                                             *)

\* The keys are loaded and the sealed rows read before the recovery.
Begin(kind, old, new) ==
  /\ doing["command"] = "idle" /\ (Together \/ doing["service"] = "down")
  /\ kind \in Kinds /\ dbGen < MaxGeneration
  /\ IF kind = "passwd" THEN old = key /\ new # key ELSE new = key
  /\ rotation' = [NoRotation EXCEPT !.kind = kind, !.old = old, !.new = new,
                                    !.rows = {r \in SecretRow : sealed[r] # Unset}]
  /\ Goto("command", "recover")
  /\ UNCHANGED <<disk, material, staged, journal, cached, faults>>

NextGen == IF rotation.kind = "passwd" THEN dbGen + 1 ELSE dbGen

\* A file that the old key does not open ends the rotation.
StageFiles ==
  LET these == IF rotation.kind = "passwd" THEN File ELSE {}
  IN /\ doing["command"] = "stageFiles"
     /\ IF \E f \in these : file[f] # rotation.old
        THEN Goto("command", "idle") /\ UNCHANGED <<staged, rotation>>
        ELSE /\ Goto("command", IF rotation.kind = "passwd" THEN "stageKey" ELSE "commit")
             /\ staged' = [staged EXCEPT !.file = [f \in File |-> IF f \in these THEN rotation.new ELSE @[f]]]
             /\ rotation' = [rotation EXCEPT !.files = these, !.gen = NextGen]
     /\ UNCHANGED <<disk, material, journal, cached, faults>>

StageKey ==
  /\ doing["command"] = "stageKey" /\ Goto("command", "stageGen")
  /\ staged' = [staged EXCEPT !.key = rotation.new]
  /\ UNCHANGED <<disk, material, journal, rotation, cached, faults>>

\* Seeded fault: the journal is written when the transaction has committed.
FaultStageGeneration ==
  /\ doing["command"] = "stageGen" /\ Goto("command", "commit")
  /\ staged' = [staged EXCEPT !.gen = rotation.gen]
  /\ UNCHANGED <<disk, material, journal, rotation, cached, faults>>

StageGeneration ==
  /\ doing["command"] = "stageGen" /\ Goto("command", "write")
  /\ staged' = [staged EXCEPT !.gen = rotation.gen]
  /\ UNCHANGED <<disk, material, journal, rotation, cached, faults>>

WriteJournal ==
  /\ doing["command"] = "write" /\ Goto("command", "commit")
  /\ journal' = [gen |-> rotation.gen, files |-> rotation.files]
  /\ UNCHANGED <<disk, material, staged, rotation, cached, faults>>

\* Every row that was read is opened with the old key and sealed with the new
\* one, and the generation moves; or nothing happens, and the stage is dropped.
Commit ==
  /\ doing["command"] = "commit"
  /\ IF \A r \in rotation.rows : sealed[r] = rotation.old
     THEN /\ sealed' = [r \in SecretRow |-> IF r \in rotation.rows THEN rotation.new ELSE sealed[r]]
          /\ dbGen' = rotation.gen /\ Goto("command", "key")
     ELSE UNCHANGED <<sealed, dbGen>> /\ Goto("command", "drop")
  /\ UNCHANGED <<file, material, staged, journal, rotation, cached, faults>>

-----------------------------------------------------------------------------
(* The service, and deaths.                                                *)

StartService ==
  /\ doing["service"] = "down" /\ (Together \/ doing["command"] = "idle")
  /\ Goto("service", "recover")
  /\ UNCHANGED <<disk, material, staged, journal, rotation, cached, faults>>

\* encrypt(): the key is loaded once and cached.
Seal(r) ==
  /\ doing["service"] = "up" /\ sealed[r] = Unset
  /\ cached' = IF cached = Unset THEN key ELSE cached
  /\ sealed' = [sealed EXCEPT ![r] = cached']
  /\ UNCHANGED <<file, dbGen, material, staged, journal, doing, rotation, faults>>

StopService ==
  /\ doing["service"] = "up" /\ Goto("service", "down") /\ cached' = Unset
  /\ UNCHANGED <<disk, material, staged, journal, rotation, faults>>

CutOff(p) ==
  /\ faults < MaxFault /\ doing[p] \notin {"idle", "down", "up"}
  /\ faults' = faults + 1
  /\ Goto(p, IF p = "service" THEN "down" ELSE "idle")
  /\ UNCHANGED <<disk, material, staged, journal, rotation, cached>>

RotationNext ==
  \/ \E p \in Process :
       \/ Recover(p) \/ PromoteKey(p) \/ PromoteGeneration(p) \/ PromoteFiles(p)
       \/ DropKey(p) \/ DropFiles(p) \/ RemoveJournal(p) \/ CutOff(p)
  \/ \E kind \in Kinds, old, new \in SecretKey : Begin(kind, old, new)
  \/ StageFiles \/ StageKey \/ StageGeneration \/ WriteJournal \/ Commit
  \/ StartService \/ StopService \/ \E r \in SecretRow : Seal(r)

RotationSpec == RotationInit /\ [][RotationNext]_rotationVars

-----------------------------------------------------------------------------
(* What must hold.                                                         *)

AtRest == doing["command"] = "idle" /\ doing["service"] \in {"down", "up"} /\ journal = NoJournal

\* With no rotation under way and none to recover, the key on disk opens every
\* sealed row and every file secret and is of the generation of the database,
\* wherever a rotation or its recovery was cut off (rotateSecretsKeyOnOpen(),
\* recoverSecretKeyRotation()).
KeyOpensAll ==
  AtRest => /\ keyGen = dbGen
            /\ \A r \in SecretRow : sealed[r] \in {Unset, key}
            /\ \A f \in File : file[f] = key

\* "`rekey --old-key` changes the key file material not at all".
RekeyKeepsKeyFile ==
  [][rotation.kind = "rekey" /\ doing["command"] # "idle" /\ doing["service"] = "down" => key' = key]_rotationVars
=============================================================================
