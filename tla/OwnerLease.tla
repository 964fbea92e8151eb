---------------------------- MODULE OwnerLease ----------------------------
(***************************************************************************)
(* The owner lease of a memory database: abmind-owner-lease.ts, as a       *)
(* daemon that waits for the owner uses it (--wait-for-owner).             *)
(*                                                                         *)
(* Processes interleave between any two file system calls.  A lease is a   *)
(* directory with an owner.json in it; it appears by renaming a private    *)
(* candidate, is taken from a dead owner by renaming it to a tombstone,    *)
(* and goes in two steps, the file and then the directory.  rename() of a  *)
(* directory replaces nothing, or an empty directory.                      *)
(*                                                                         *)
(* A process is one instance, one pid and one start token: a record names  *)
(* the process that wrote it.  Candidates are private and left out.        *)
(***************************************************************************)
EXTENDS FiniteSets

CONSTANTS Proc,
          Absent, Empty, \* no directory; a directory without owner.json
          CrashAt,       \* bound: the steps before which a process may die
          Unverifiable   \* may inspect() find a pid it cannot classify?

Step == {"waiting", "clean", "read", "inspect", "evict", "verify", "restore", "unread",
         "claim", "owner", "releasing", "unlink", "rmdir", "leaving", "failed", "gone"}

LeaseAssumption ==
  /\ Absent # Empty /\ {Absent, Empty} \cap Proc = {}
  /\ CrashAt \subseteq Step \ {"failed", "gone"}
  /\ Unverifiable \in BOOLEAN

VARIABLES
  pc,      \* where each process is
  target,  \* the lease directory
  tomb,    \* the tombstone each process made, under its own random name
  seen,    \* the record each process read before it inspected its owner
  todo     \* tombstones a cleaning process has listed and not yet removed

vars == <<pc, target, tomb, seen, todo>>

Dir == Proc \cup {Absent, Empty}

Alive(p) == pc[p] \notin {"failed", "gone"}
Owners == {p \in Proc : pc[p] = "owner"}

TypeOK ==
  /\ pc \in [Proc -> Step]
  /\ target \in Dir
  /\ tomb \in [Proc -> Dir]
  /\ seen \in [Proc -> Proc \cup {Absent}]
  /\ todo \in [Proc -> SUBSET Proc]

Init ==
  /\ pc = [p \in Proc |-> "waiting"]
  /\ target = Absent
  /\ tomb = [p \in Proc |-> Absent]
  /\ seen = [p \in Proc |-> Absent]
  /\ todo = [p \in Proc |-> {}]

Goto(p, s) == pc' = [pc EXCEPT ![p] = s]

\* The tombstone of q is no longer under its name.
Unlisted(q) == todo' = [p \in Proc |-> todo[p] \ {q}]

-----------------------------------------------------------------------------
(* cleanTombstones(), at the start of every attempt to become the owner *)

Begin(p) ==
  /\ pc[p] = "waiting"
  /\ Goto(p, "clean")
  /\ todo' = [todo EXCEPT ![p] = {q \in Proc : tomb[q] # Absent}]
  /\ UNCHANGED <<target, tomb, seen>>

CleanFile(p, q) ==
  /\ pc[p] = "clean"
  /\ q \in todo[p]
  /\ tomb[q] \in Proc
  /\ tomb' = [tomb EXCEPT ![q] = Empty]
  /\ UNCHANGED <<pc, target, seen, todo>>

CleanDirectory(p, q) ==
  /\ pc[p] = "clean"
  /\ q \in todo[p]
  /\ tomb[q] = Empty
  /\ tomb' = [tomb EXCEPT ![q] = Absent]
  /\ Unlisted(q)
  /\ UNCHANGED <<pc, target, seen>>

-----------------------------------------------------------------------------
(* acquire() *)

LeaseExists(p) ==
  /\ pc[p] = "clean"
  /\ todo[p] = {}
  /\ Goto(p, IF target = Absent THEN "claim" ELSE "read")
  /\ UNCHANGED <<target, tomb, seen, todo>>

\* A lease without a record makes the attempt fail with the error of the read.
ReadRecord(p) ==
  /\ pc[p] = "read"
  /\ IF target \in Proc
     THEN /\ seen' = [seen EXCEPT ![p] = target]
          /\ Goto(p, IF target = p THEN "owner" ELSE "inspect")
     ELSE Goto(p, "failed") /\ UNCHANGED seen
  /\ UNCHANGED <<target, tomb, todo>>

\* Seeded fault: an owner that is gone counts as one that cannot be inspected.
FaultInspect(p) ==
  /\ pc[p] = "inspect"
  /\ Goto(p, "waiting")
  /\ UNCHANGED <<target, tomb, seen, todo>>

\* The owner lives, or may live: give up.
Inspect(p) ==
  /\ pc[p] = "inspect"
  /\ \/ Goto(p, IF Alive(seen[p]) THEN "waiting" ELSE "evict")
     \/ Unverifiable /\ Goto(p, "waiting")
  /\ UNCHANGED <<target, tomb, seen, todo>>

Evict(p) ==
  /\ pc[p] = "evict"
  /\ IF target = Absent
     THEN Goto(p, "failed") /\ UNCHANGED <<target, tomb>>
     ELSE /\ tomb' = [tomb EXCEPT ![p] = target]
          /\ target' = Absent
          /\ Goto(p, "verify")
  /\ UNCHANGED <<seen, todo>>

\* Seeded fault: the tombstone is not compared with the record that was inspected.
FaultVerify(p) ==
  /\ pc[p] = "verify"
  /\ Goto(p, IF tomb[p] \notin Proc THEN "unread" ELSE "claim")
  /\ UNCHANGED <<target, tomb, seen, todo>>

Verify(p) ==
  /\ pc[p] = "verify"
  /\ Goto(p, IF tomb[p] \notin Proc THEN "unread"
             ELSE IF tomb[p] = seen[p] THEN "claim" ELSE "restore")
  /\ UNCHANGED <<target, tomb, seen, todo>>

\* rename(tombstone, target) can succeed, and does.
CanPutBack(p) == tomb[p] # Absent /\ target \in {Absent, Empty}
PutBack(p) ==
  /\ target' = tomb[p]
  /\ tomb' = [tomb EXCEPT ![p] = Absent]
  /\ Unlisted(p)

\* Somebody else's lease was moved: put it back, or try once more.
Restore(p) ==
  /\ pc[p] = "restore"
  /\ IF CanPutBack(p) THEN PutBack(p) /\ Goto(p, "waiting")
     ELSE Goto(p, "unread") /\ UNCHANGED <<target, tomb, todo>>
  /\ UNCHANGED seen

\* Best effort, and whatever comes of it, give up.
Unreadable(p) ==
  /\ pc[p] = "unread"
  /\ IF CanPutBack(p) THEN PutBack(p) ELSE UNCHANGED <<target, tomb, todo>>
  /\ Goto(p, "waiting")
  /\ UNCHANGED seen

Claim(p) ==
  /\ pc[p] = "claim"
  /\ IF target \in {Absent, Empty}
     THEN target' = p /\ Goto(p, "owner")
     ELSE Goto(p, "waiting") /\ UNCHANGED target
  /\ UNCHANGED <<tomb, seen, todo>>

-----------------------------------------------------------------------------
(* finishStop() and release(): the memory manager is closed before *)

BeginRelease(p) ==
  /\ pc[p] = "owner"
  /\ Goto(p, "releasing")
  /\ UNCHANGED <<target, tomb, seen, todo>>

ReadOwn(p) ==
  /\ pc[p] = "releasing"
  /\ Goto(p, IF target = p THEN "unlink" ELSE "leaving")
  /\ UNCHANGED <<target, tomb, seen, todo>>

RemoveFile(p) ==
  /\ pc[p] = "unlink"
  /\ target' = IF target \in Proc THEN Empty ELSE target
  /\ Goto(p, "rmdir")
  /\ UNCHANGED <<tomb, seen, todo>>

RemoveDirectory(p) ==
  /\ pc[p] = "rmdir"
  /\ target' = IF target = Empty THEN Absent ELSE target
  /\ Goto(p, "leaving")
  /\ UNCHANGED <<tomb, seen, todo>>

-----------------------------------------------------------------------------
(* The process *)

Exit(p) ==
  /\ pc[p] = "leaving"
  /\ Goto(p, "gone")
  /\ UNCHANGED <<target, tomb, seen, todo>>

Crash(p) ==
  /\ pc[p] \in CrashAt
  /\ Goto(p, "gone")
  /\ UNCHANGED <<target, tomb, seen, todo>>

\* An attempt that failed with an error of its own ends the daemon; the
\* supervisor starts it again.
Restart(p) ==
  /\ pc[p] = "failed"
  /\ Goto(p, "waiting")
  /\ UNCHANGED <<target, tomb, seen, todo>>

Attempt(p) ==
  \/ Begin(p) \/ LeaseExists(p) \/ ReadRecord(p) \/ Inspect(p) \/ Evict(p) \/ Verify(p)
  \/ Restore(p) \/ Unreadable(p) \/ Claim(p) \/ Restart(p)
  \/ \E q \in Proc : CleanFile(p, q) \/ CleanDirectory(p, q)

Release(p) == ReadOwn(p) \/ RemoveFile(p) \/ RemoveDirectory(p) \/ Exit(p)

Next == \E p \in Proc : Attempt(p) \/ Release(p) \/ BeginRelease(p) \/ Crash(p)

Spec == Init /\ [][Next]_vars

\* A waiting daemon retries for ever, and a release goes on; nothing obliges an
\* owner to stop.
Fairness == \A p \in Proc : WF_vars(Attempt(p)) /\ WF_vars(Release(p))

FairSpec == Spec /\ Fairness

-----------------------------------------------------------------------------
(* Properties *)

\* "single-writer guarantee -- no two daemons can serve the same memory store".
Exclusive == \A p, q \in Owners : p = q

\* Nobody takes over from the living: what a process moved away on its way to the
\* claim is the lease of one that is dead, whoever replaced the lease between the
\* look at its owner and the rename, and whatever tombstones were lying about
\* (doAcquire() and the comparison after its rename).  It is not Exclusive: a lease
\* moved by mistake is out of sight until it is put back.
TakesFromDead == \A p \in Proc : pc[p] = "claim" /\ tomb[p] \in Proc => ~Alive(tomb[p])

\* The last process left is the owner in the end, whatever races and deaths left
\* behind, a dead owner's lease or tombstones among it, unless that is a lease
\* without a record (AdoptsOwner): it is so again and again, and a process left
\* alone stays alone.
Alone(p) == \A q \in Proc \ {p} : pc[q] = "gone"
AdoptsLeftovers ==
  []<>(\A p \in Proc : Alone(p) /\ target # Empty => pc[p] \in {"owner", "gone"})

\* The daemon that waits becomes the owner once nobody else is: it "adopts
\* ownership gracefully if a manually-started daemon exits".
AdoptsOwner ==
  \A p \in Proc : Alone(p) ~> pc[p] \in {"owner", "gone"}
=============================================================================
