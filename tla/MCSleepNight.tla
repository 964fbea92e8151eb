---------------------------- MODULE MCSleepNight ----------------------------
(* SleepNight for TLC: four of the manifest's steps. *)
EXTENDS SleepNight

FourSteps == <<Gc, Daily, "retrospective", Extract>>
Essentials == {Daily, "retrospective", Extract}
Prompts == {"retrospective"}
OnlyDaily == {Daily}
=============================================================================
