----------------------------- MODULE Installation -----------------------------
(* Releases on a machine and the service that runs them                       *)
(* (cli/lib/standalone-installer.ts, cli/abmind-update.ts, src/deploy-lib).   *)
(*                                                                            *)
(* `abmind update` stages a release in a directory of its own, switches the   *)
(* `current` link to it, moves the two public links, prunes old releases and  *)
(* brings the platform's service to the new release.  It may die between any  *)
(* two of these; the links and the unit file are what the next update finds.  *)
(* One update runs at a time (the deployment lock); the service commands take *)
(* no lock and come in between.                                               *)
EXTENDS Integers, Sequences, FiniteSets, SequencesExt

CONSTANTS
  Release,       \* what a channel may offer
  Kept,          \* how many releases beside the active one survive pruning
  MaxUpdate,     \* updates that are begun (bound)
  MaxStart       \* daemons started by hand (bound)

None == "none"
Foreign == "foreign"

InstallationAssumption ==
  /\ Release \cap {None, Foreign} = {}
  /\ Kept \in Nat /\ MaxUpdate \in Nat /\ MaxStart \in Nat

VARIABLES
  platform,      \* "linux" (systemd --user) or "darwin" (launchd)
  disk,          \* the valid releases under packages/standalone, oldest first
  current,       \* where the link `current` points
  bin, mod,      \* the public links, or a file that is not ours
  unit,          \* the service's unit: none, "managed" or foreign
  legacy,        \* the unit of older versions: none, "known" or foreign
  kept,          \* units that were moved or copied aside
  enabled,       \* the unit starts at login
  linger,        \* the user's services outlive the session
  service,       \* the release the supervised daemon was started from
  old,           \* the daemon of the legacy unit runs
  manual,        \* the release of a daemon started by hand
  at,            \* what the update does next
  want,          \* the release it installs
  changed,       \* whether it switched `current`
  report,        \* what it last said of the service
  updates, started

vars == <<platform, disk, current, bin, mod, unit, legacy, kept, enabled, linger, service, old,
          manual, at, want, changed, report, updates, started>>
links == <<disk, current, bin, mod>>
units == <<unit, legacy, kept, enabled, linger, old>>
daemons == <<service, manual, started>>
update == <<want, changed, updates>>

Init ==
  /\ platform \in {"linux", "darwin"}
  /\ \E r \in Release :
       \/ disk = <<r>> /\ current = r /\ bin = r /\ mod = r
       \/ disk = <<>> /\ current = None /\ mod = None /\ bin \in {None, Foreign}
  /\ \/ unit = None /\ legacy = None
     \/ platform = "linux" /\ unit = Foreign /\ legacy = None
     \/ platform = "linux" /\ unit = None /\ legacy \in {"known", Foreign}
  /\ kept = {} /\ enabled = FALSE /\ linger \in BOOLEAN
  /\ service = None /\ old = (legacy # None) /\ manual = None
  /\ at = "idle" /\ want = None /\ changed = FALSE /\ report = None
  /\ updates = 0 /\ started = 0

OnDisk(r) == r \in ToSet(disk)

\* A daemon answers, and as the release that was installed; a command asks for none.
Answers ==
  LET daemon == IF manual # None THEN manual ELSE service
  IN daemon # None /\ want \in {daemon, None}

-----------------------------------------------------------------------------
(* The release.                                                              *)

\* The lock, and what the channel offers; a release that was staged before is reused.
Begin(r) ==
  /\ at = "idle" /\ updates < MaxUpdate
  /\ want' = r /\ changed' = FALSE /\ report' = None /\ updates' = updates + 1
  /\ at' = IF OnDisk(r) THEN "staged" ELSE "staging"
  /\ UNCHANGED <<platform, links, units, daemons>>

\* `abmind start` and `abmind restart`, and the last step of `abmind install`: the service is
\* brought up as an update that switched nothing does it, or as one that did.
Command(restart) ==
  /\ at = "idle" /\ updates < MaxUpdate
  /\ want' = None /\ changed' = restart /\ report' = None /\ updates' = updates + 1
  /\ at' = "service"
  /\ UNCHANGED <<platform, links, units, daemons>>

\* Installed into a staging directory, tried, and renamed into place whole.
Stage ==
  /\ at = "staging" /\ at' = "staged"
  /\ disk' = Append(disk, want)
  /\ UNCHANGED <<platform, current, bin, mod, units, daemons, update, report>>

\* npm fails, or the staged code does not answer as it should: the staging directory goes.
StageFails ==
  /\ at = "staging" /\ at' = "idle" /\ report' = "error"
  /\ UNCHANGED <<platform, links, units, daemons, update>>

\* Seeded fault: old releases go before the public links are moved.
FaultSwitch ==
  /\ at = "staged"
  /\ IF current = want THEN at' = "service" /\ UNCHANGED <<disk, current, changed>>
     ELSE /\ at' = "bin" /\ current' = want /\ changed' = TRUE
          /\ disk' = SelectSeq(disk, LAMBDA r : r \in {want, disk[Len(disk)]})
  /\ UNCHANGED <<platform, bin, mod, units, daemons, want, updates, report>>

Switch ==
  /\ at = "staged"
  /\ IF current = want THEN at' = "service" /\ UNCHANGED <<current, changed>>
     ELSE at' = "bin" /\ current' = want /\ changed' = TRUE
  /\ UNCHANGED <<platform, disk, bin, mod, units, daemons, want, updates, report>>

\* A public link: removed first, made afterwards; a file that is not ours is refused and
\* the update ends with `current` switched.
Unlink(link, next) ==
  IF link = Foreign THEN at' = "idle" /\ report' = "error" /\ link' = link
  ELSE at' = next /\ link' = None /\ UNCHANGED report

LinkBin ==
  /\ \/ at = "bin" /\ Unlink(bin, "relink bin")
     \/ at = "relink bin" /\ bin' = want /\ at' = "mod" /\ UNCHANGED report
  /\ UNCHANGED <<platform, disk, current, mod, units, daemons, update>>

LinkMod ==
  /\ \/ at = "mod" /\ Unlink(mod, "relink mod")
     \/ at = "relink mod" /\ mod' = want /\ at' = "prune" /\ UNCHANGED report
  /\ UNCHANGED <<platform, disk, current, bin, units, daemons, update>>

\* The active release and the newest of the others stay; what cannot be removed stays too.
Survivors(active) ==
  LET others == SelectSeq(disk, LAMBDA r : r # active)
  IN {active} \cup {others[i] : i \in {j \in DOMAIN others : j > Len(others) - Kept}}

Prune ==
  /\ at = "prune" /\ at' = "service"
  /\ \E gone \in SUBSET (ToSet(disk) \ Survivors(want)) :
       disk' = SelectSeq(disk, LAMBDA r : r \notin gone)
  /\ UNCHANGED <<platform, current, bin, mod, units, daemons, update, report>>

-----------------------------------------------------------------------------
(* The service.  Whatever starts the supervised daemon starts it from         *)
(* `current`; it waits while another daemon owns the database.                *)

Says(answer) == at' = "idle" /\ report' = answer
Entry == OnDisk(current) \/ OnDisk(mod)
\* The daemon of the unit, from where the unit's path leads.
Launched == IF OnDisk(current) THEN current ELSE mod

\* Linux: the unit is written where there is none, and over a managed one; a foreign one is
\* copied aside first, a legacy one stopped and moved, an unknown legacy one refused.
Reconcile ==
  /\ at = "service" /\ platform = "linux"
  /\ IF ~Entry \/ (unit = None /\ legacy = Foreign)
     THEN Says("unsupported") /\ UNCHANGED <<unit, legacy, kept, old>>
     ELSE IF unit = Foreign
          THEN at' = "write" /\ kept' = kept \cup {"unit"} /\ UNCHANGED <<unit, legacy, old, report>>
          ELSE IF unit = None /\ legacy = "known"
               THEN at' = "move" /\ old' = FALSE /\ UNCHANGED <<unit, legacy, kept, report>>
               ELSE at' = "write" /\ UNCHANGED <<unit, legacy, kept, old, report>>
  /\ UNCHANGED <<platform, links, enabled, linger, daemons, update>>

MoveLegacy ==
  /\ at = "move" /\ at' = "write"
  /\ legacy' = None /\ kept' = kept \cup {"legacy"}
  /\ UNCHANGED <<platform, links, unit, enabled, linger, old, daemons, update, report>>

WriteUnit ==
  /\ at = "write" /\ unit' = "managed" /\ enabled' = TRUE
  /\ at' = "probed"
  /\ UNCHANGED <<platform, links, legacy, kept, linger, old, daemons, update, report>>

\* Lingering is asked for; without it the update stops here, whatever the service runs.
Supervise ==
  /\ at = "probed"
  /\ linger' \in {linger, TRUE}
  /\ IF ~linger' THEN Says("needs-linger") /\ UNCHANGED service
     ELSE IF service # None /\ ~changed THEN Says("ready") /\ UNCHANGED service
          ELSE Says("ready") /\ service' = Launched
  /\ UNCHANGED <<platform, links, unit, legacy, kept, enabled, old, manual, started, update>>

\* macOS: the plist is always written.  A daemon that answers as the active release is left
\* alone, if the release did not change; otherwise the owner is stopped, whoever it is.
Adopt ==
  /\ at = "service" /\ platform = "darwin"
  /\ unit' = "managed"
  /\ IF ~changed /\ Answers THEN Says("ready") /\ UNCHANGED <<service, manual>>
     ELSE \/ Says("failed") /\ UNCHANGED <<service, manual>>
          \/ at' = "bootstrap" /\ service' = None /\ manual' = None /\ UNCHANGED report
  /\ UNCHANGED <<platform, links, legacy, kept, enabled, linger, old, started, update>>

\* Loaded, and probed until whoever answers does so as the active release.
Bootstrap ==
  /\ at = "bootstrap"
  /\ \/ Says("failed") /\ (service' = service \/ (current # None /\ service' = current))
     \/ /\ current # None /\ service' = current
        /\ want # None => manual \in {None, want}
        /\ Says("ready")
  /\ UNCHANGED <<platform, links, units, manual, started, update>>

-----------------------------------------------------------------------------
(* What happens meanwhile.                                                    *)

\* The update dies; the lock of a dead process is taken over by the next.
Die ==
  /\ at # "idle" /\ at' = "idle" /\ report' = None
  /\ UNCHANGED <<platform, links, units, daemons, update>>

\* `abmind stop`, and a session that ends without lingering.
Stop ==
  /\ service # None /\ service' = None
  /\ UNCHANGED <<platform, links, units, manual, started, at, update, report>>

\* A session begins, or the supervisor restarts a daemon that failed.
Supervised ==
  /\ unit = "managed" /\ (platform = "linux" => enabled) /\ Entry
  /\ service' = Launched
  /\ UNCHANGED <<platform, links, units, manual, started, at, update, report>>

GrantLinger ==
  /\ ~linger /\ linger' = TRUE
  /\ UNCHANGED <<platform, links, unit, legacy, kept, enabled, old, daemons, at, update, report>>

ByHand ==
  /\ \/ manual = None /\ started < MaxStart /\ OnDisk(bin)
        /\ manual' = bin /\ started' = started + 1
     \/ manual # None /\ manual' = None /\ UNCHANGED started
  /\ UNCHANGED <<platform, links, units, service, at, update, report>>

Next ==
  \/ \E r \in Release : Begin(r)
  \/ \E restart \in BOOLEAN : Command(restart)
  \/ Stage \/ StageFails \/ Switch \/ LinkBin \/ LinkMod \/ Prune
  \/ Reconcile \/ MoveLegacy \/ WriteUnit \/ Supervise \/ Adopt \/ Bootstrap
  \/ Die \/ Stop \/ Supervised \/ GrantLinger \/ ByHand

Spec == Init /\ [][Next]_vars

-----------------------------------------------------------------------------
(* Properties                                                                *)

TypeOK ==
  /\ ToSet(disk) \subseteq Release /\ IsInjective(disk)
  /\ current \in Release \cup {None} /\ {bin, mod} \subseteq Release \cup {None, Foreign}
  /\ unit \in {None, "managed", Foreign} /\ legacy \in {None, "known", Foreign}
  /\ {service, manual, want} \subseteq Release \cup {None}
  /\ report \in {None, "error", "unsupported", "needs-linger", "failed", "ready"}

\* Every link leads to a release that is there, in whatever order updates died and old
\* releases were pruned.
LinksLead == \A link \in {current, bin, mod} \ {None, Foreign} : OnDisk(link)

\* The daemon of the legacy unit and the one of the new unit never run together.
OneUnit == old => service = None

\* What somebody else wrote, or an older version, is kept aside when it goes.
UnitsSpared ==
  /\ unit = Foreign /\ unit' # Foreign => "unit" \in kept'
  /\ legacy # None /\ legacy' = None => "legacy" \in kept'

\* An update that switched the release and calls the service ready leaves a supervised
\* daemon of that release, and all three links on it.
UpdateTakes ==
  report' = "ready" /\ report # "ready" /\ changed /\ want # None =>
    service' = want /\ current' = want /\ bin' = want /\ mod' = want
=============================================================================
