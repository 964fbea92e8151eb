---------------------------- MODULE MCHostAndRoute ----------------------------
(* ServiceHost, the OwnerLease it takes, RouteController and                  *)
(* SignedWssTransport for TLC, side by side: here they share no state.  The   *)
(* initial state chooses which of them runs; the others keep still.           *)
(* The hosts are a daemon and an embedded host.  Three processes contend for  *)
(* the lease, and may die anywhere.                                           *)
EXTENDS ServiceHost, RouteController, SignedWssTransport

CONSTANTS daemon, embedded, r1, r2

TwoHosts == {daemon, embedded}
OneDaemon == {daemon}
TwoRequests == {r1, r2}

VARIABLES part, pc, target, tomb, seen, todo

leaseVars == <<pc, target, tomb, seen, todo>>

Owner == INSTANCE OwnerLease WITH
  Proc <- {"p1", "p2", "p3"}, Absent <- "absent", Empty <- "empty",
  CrashAt <- {"waiting", "clean", "read", "inspect", "evict", "verify", "restore", "unread",
              "claim", "owner", "releasing", "unlink", "rmdir", "leaving"},
  Unverifiable <- FALSE

\* The client with an entry that waits behind another and deadlines that are never
\* missed; and with one entry at a time, whose deadline may lapse.  Neither keeps a
\* step from the client that fairness asks of it.
WaitsNext == ClientNext /\ \A f \in Frame : ~entry'[f].lapsed
LapsesNext == ClientNext /\ Cardinality(Occupied(entry')) <= 1

ASSUME Owner!LeaseAssumption

\* A contender that does not run is gone.
PartsInit ==
  /\ part \in {"host", "lease", "route", "waits", "lapses"}
  /\ Init /\ RouteInit /\ ClientInit
  /\ \/ part = "lease" /\ Owner!Init
     \/ /\ part # "lease"
        /\ pc = [p \in {"p1", "p2", "p3"} |-> "gone"] /\ target = "absent"
        /\ tomb = [p \in {"p1", "p2", "p3"} |-> "absent"] /\ seen = tomb
        /\ todo = [p \in {"p1", "p2", "p3"} |-> {}]

PartsNext ==
  /\ UNCHANGED part
  /\ \/ part = "host" /\ Next /\ UNCHANGED <<leaseVars, controllerVars, clientVars>>
     \/ UNCHANGED <<hostVars, request, at>>
        /\ \/ part = "lease" /\ Owner!Next /\ UNCHANGED <<controllerVars, clientVars>>
           \/ part = "route" /\ RouteNext /\ UNCHANGED <<leaseVars, clientVars>>
           \/ part = "waits" /\ WaitsNext /\ UNCHANGED <<leaseVars, controllerVars>>
           \/ part = "lapses" /\ LapsesNext /\ UNCHANGED <<leaseVars, controllerVars>>

\* Of a part that keeps still in its initial state fairness asks nothing: no step
\* of its Fairness is enabled there.
PartsSpec ==
  /\ PartsInit
  /\ [][PartsNext]_<<part, hostVars, request, at, leaseVars, controllerVars, clientVars>>
  /\ Fairness /\ Owner!Fairness /\ RouteFairness /\ ClientFairness

\* ServiceHost: a stop that was asked for comes about.
HostStops == Stops

\* OwnerLease: nobody takes over from the living.
TakesFromDead == Owner!TakesFromDead

\* OwnerLease: the last process left becomes the owner.
LastAdopts == Owner!AdoptsLeftovers
=============================================================================
