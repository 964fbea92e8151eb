---------------------------- MODULE NativeGroup -----------------------------
(***************************************************************************)
(* The native packages two products share on one machine, kept whole by    *)
(* ensureNativeGroup() of deploy-lib/shared-native-deps-group.ts: it looks *)
(* at what is installed, reuses, adopts or stages the group, moves the     *)
(* staged packages in one by one, records them in the manifest, and rolls  *)
(* back when any of that fails.  One process at a time, which may die      *)
(* between any two moves.                                                  *)
(*                                                                         *)
(* A package is none, invalid, an old version, or some content of the      *)
(* target version.                                                         *)
(***************************************************************************)
EXTENDS Integers, Sequences, FiniteSets

CONSTANTS
  Package,
  Target,    \* the contents a package of the target version may have
  MaxGroupFault,  \* bound: deaths, and rollbacks that fail
  MaxGroupOp      \* bound: operations begun

NoContent == "none"

GroupAssumption ==
  /\ IsFiniteSet(Package) /\ Package # {} /\ MaxGroupFault \in Nat /\ MaxGroupOp \in Nat
  /\ Target \cap {NoContent, "invalid", "old"} = {}

PackageContent == Target \cup {NoContent, "invalid", "old"}

VARIABLES
  live,     \* the packages in place
  manifest, \* the content the manifest records of each package
  stagedGroup,   \* what npm left in the staging directory
  prev,     \* what the operation moved aside
  moves,    \* the moves of the operation: the package, and whether it was moved aside
  pc,       \* where the operation is
  op,       \* install or update
  tries,    \* selections made
  before,   \* history: the packages and the manifest as the activation found them
  lost,     \* history: a step of a rollback failed
  groupFaults, groupOps

groupVars ==
  <<live, manifest, stagedGroup, prev, moves, pc, op, tries, before, lost, groupFaults, groupOps>>

NoPackages == [p \in Package |-> NoContent]
GroupStep ==
  {"idle", "select", "stage", "aside", "in", "probe", "record", "rollback", "failed", "ok"}

GroupTypeOK ==
  /\ live \in [Package -> PackageContent] /\ manifest \in [Package -> Target \cup {NoContent}]
  /\ stagedGroup \in [Package -> Target \cup {NoContent}] /\ prev \in [Package -> PackageContent]
  /\ moves \in Seq([package : Package, aside : BOOLEAN]) /\ Len(moves) <= Cardinality(Package)
  /\ pc \in GroupStep /\ op \in {"install", "update"} /\ tries \in 0..2
  /\ lost \in BOOLEAN /\ groupFaults \in 0..MaxGroupFault /\ groupOps \in 0..MaxGroupOp

GroupInit ==
  /\ live \in [Package -> PackageContent] /\ manifest \in [Package -> Target \cup {NoContent}]
  /\ stagedGroup = NoPackages /\ prev = NoPackages /\ moves = <<>>
  /\ pc = "idle" /\ op = "install" /\ tries = 0
  /\ before = <<live, manifest>> /\ lost = FALSE /\ groupFaults = 0 /\ groupOps = 0

-----------------------------------------------------------------------------
(* What is there, and what to do about it.                                 *)

AtTarget == \A p \in Package : live[p] \in Target

\* observeNativeGroup().
Observed ==
  IF live = NoPackages THEN "absent"
  ELSE IF \E p \in Package : live[p] = "invalid" THEN "invalid"
  ELSE IF AtTarget /\ manifest = live THEN "ready"
  ELSE IF \E p \in Package : live[p] # NoContent THEN "drifted" ELSE "partial"

\* selectNativeGroupAction().  Only a group at its target is adopted.
GroupAction ==
  IF op = "update" /\ Observed = "absent" THEN "instruct-install"
  ELSE IF Observed = "ready" THEN (IF op = "install" THEN "reuse" ELSE "refresh")
  ELSE IF Observed = "drifted" /\ AtTarget THEN "adopt" ELSE "repair"

BeginEnsure ==
  /\ pc = "idle" /\ groupOps < MaxGroupOp /\ groupOps' = groupOps + 1
  /\ op' \in {"install", "update"}
  /\ pc' = "select" /\ tries' = 0
  /\ stagedGroup' = NoPackages /\ prev' = NoPackages /\ moves' = <<>> /\ lost' = FALSE
  /\ UNCHANGED <<live, manifest, before, groupFaults>>

Selecting(action) == pc = "select" /\ tries < 2 /\ GroupAction = action
GroupTo(step) ==
  /\ pc' = step
  /\ UNCHANGED <<live, manifest, stagedGroup, prev, moves, op, before, lost, groupFaults, groupOps>>

Instruct == Selecting("instruct-install") /\ GroupTo("failed") /\ UNCHANGED tries

\* The group loads, and the product is added to its consumers.
Reuse == Selecting("reuse") /\ GroupTo("ok") /\ UNCHANGED tries

\* A group that does not load is staged anew, whatever it looks like.
Restage ==
  /\ \/ Selecting("reuse") \/ Selecting("adopt")
     \/ Selecting("refresh") \/ Selecting("repair")
  /\ GroupTo("stage") /\ UNCHANGED tries

\* adoptNativeGroup(): the manifest is made to say what is there, then all is
\* looked at again.
Adopt ==
  /\ Selecting("adopt")
  /\ manifest' = live /\ tries' = tries + 1
  /\ UNCHANGED <<live, stagedGroup, prev, moves, pc, op, before, lost, groupFaults, groupOps>>

\* A foreign record, or the manifest cannot be written, or the second look is no better.
AdoptFails ==
  /\ pc = "select" /\ (GroupAction = "adopt" \/ tries = 2)
  /\ GroupTo("failed") /\ UNCHANGED tries

-----------------------------------------------------------------------------
(* Staging and activation.                                                 *)

\* checkCollisions(): what the manifest does not know must not be overwritten.
Collides(s) == \E p \in Package : live[p] # NoContent /\ manifest[p] = NoContent /\ s[p] # live[p]

\* stageTransaction(): npm fills the staging directory.
Stage ==
  /\ pc = "stage"
  /\ stagedGroup' \in [Package -> Target] /\ ~Collides(stagedGroup')
  /\ pc' = "aside" /\ before' = <<live, manifest>>
  /\ UNCHANGED <<live, manifest, prev, moves, op, tries, lost, groupFaults, groupOps>>

\* npm fails, the closure is not whole, it collides, or it does not load.
StageFails == pc = "stage" /\ GroupTo("failed") /\ UNCHANGED tries

\* The packages that are still to be moved.
Unmoved == {p \in Package : stagedGroup[p] # NoContent}

\* Seeded fault: a move is noted when it is complete.
FaultNoted(p, aside) == UNCHANGED moves

\* The note of a move that has begun.
Noted(p, aside) == moves' = Append(moves, [package |-> p, aside |-> aside])

\* activateGroup(): what is in place is moved aside, and noted.
MoveAside ==
  /\ pc = "aside"
  /\ \E p \in Unmoved :
       /\ live[p] # NoContent
       /\ prev' = [prev EXCEPT ![p] = live[p]] /\ live' = [live EXCEPT ![p] = NoContent]
       /\ Noted(p, TRUE)
  /\ pc' = "in"
  /\ UNCHANGED <<manifest, stagedGroup, op, tries, before, lost, groupFaults, groupOps>>

NothingToMove ==
  /\ pc = "aside"
  /\ \E p \in Unmoved : live[p] = NoContent /\ Noted(p, FALSE)
  /\ pc' = "in"
  /\ UNCHANGED <<live, manifest, stagedGroup, prev, op, tries, before, lost, groupFaults, groupOps>>

\* The staged package takes the place of the last one noted.
MoveIn ==
  /\ pc = "in" /\ moves # <<>>
  /\ LET p == moves[Len(moves)].package
     IN /\ live' = [live EXCEPT ![p] = stagedGroup[p]]
        /\ stagedGroup' = [stagedGroup EXCEPT ![p] = NoContent]
        /\ pc' = IF Unmoved = {p} THEN "probe" ELSE "aside"
  /\ UNCHANGED <<manifest, prev, moves, op, tries, before, lost, groupFaults, groupOps>>

Probed == pc = "probe" /\ GroupTo("record") /\ UNCHANGED tries

\* A move throws, or the group does not load, or the manifest cannot be written.
Throws == pc \in {"aside", "in", "probe", "record"} /\ GroupTo("rollback") /\ UNCHANGED tries

GroupRecorded == live

\* The manifest records the group, and what was moved aside is removed.
RecordGroup ==
  /\ pc = "record"
  /\ manifest' = GroupRecorded /\ prev' = NoPackages /\ stagedGroup' = NoPackages
  /\ pc' = "ok"
  /\ UNCHANGED <<live, moves, op, tries, before, lost, groupFaults, groupOps>>

\* rollbackActivation(): the notes are undone from the last.
Undo ==
  /\ pc = "rollback" /\ moves # <<>>
  /\ LET note == moves[Len(moves)]
     IN /\ live' = [live EXCEPT ![note.package] =
                      IF note.aside THEN prev[note.package] ELSE NoContent]
        /\ prev' = [prev EXCEPT ![note.package] = NoContent]
  /\ moves' = SubSeq(moves, 1, Len(moves) - 1)
  /\ UNCHANGED <<manifest, stagedGroup, pc, op, tries, before, lost, groupFaults, groupOps>>

\* A step of the rollback fails, and the others go on.
UndoFails ==
  /\ pc = "rollback" /\ moves # <<>> /\ groupFaults < MaxGroupFault
  /\ groupFaults' = groupFaults + 1 /\ lost' = TRUE
  /\ live' \in {live, [live EXCEPT ![moves[Len(moves)].package] = NoContent]}
  /\ moves' = SubSeq(moves, 1, Len(moves) - 1)
  /\ UNCHANGED <<manifest, stagedGroup, prev, pc, op, tries, before, groupOps>>

RolledBack == pc = "rollback" /\ moves = <<>> /\ GroupTo("failed") /\ UNCHANGED tries

EnsureReturns ==
  /\ pc \in {"ok", "failed"}
  /\ pc' = "idle"
  /\ UNCHANGED <<live, manifest, stagedGroup, prev, moves, op, tries, before, lost>>
  /\ UNCHANGED <<groupFaults, groupOps>>

\* The process dies; what it moved aside stays aside, under the name of a dead operation.
GroupCrash ==
  /\ pc # "idle" /\ groupFaults < MaxGroupFault
  /\ groupFaults' = groupFaults + 1 /\ pc' = "idle"
  /\ UNCHANGED <<live, manifest, stagedGroup, prev, moves, op, tries, before, lost, groupOps>>

GroupNext ==
  \/ BeginEnsure \/ Instruct \/ Reuse \/ Restage \/ Adopt \/ AdoptFails
  \/ Stage \/ StageFails \/ MoveAside \/ NothingToMove \/ MoveIn \/ Probed \/ Throws
  \/ RecordGroup \/ Undo \/ UndoFails \/ RolledBack \/ EnsureReturns \/ GroupCrash

GroupSpec == GroupInit /\ [][GroupNext]_groupVars

-----------------------------------------------------------------------------
(* What must hold.                                                         *)

\* An activation that fails, at whichever move, leaves every package and the
\* manifest as it found them, unless the rollback itself failed
\* (activateGroup(), rollbackActivation()).
FailureRestores == pc = "rollback" /\ pc' = "failed" /\ ~lost => <<live, manifest>> = before

\* An operation that reports success leaves a group that the next one finds
\* ready: every package at its target, the manifest naming its content, also
\* after earlier operations died between two moves (ensureNativeGroup()).
SuccessIsReady == pc = "ok" => Observed = "ready"

\* What a success leaves, and what a failed activation leaves.
ActivationHolds == []SuccessIsReady /\ [][FailureRestores]_groupVars
=============================================================================
