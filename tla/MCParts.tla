------------------------------- MODULE MCParts -------------------------------
(* Parts of the system that share no state, checked side by side: the initial *)
(* state chooses the part that runs.  Since only one does, they share one set *)
(* of variables: v1 is the first variable of the part that runs, in the order *)
(* in which its module declares them, and those it has no use for keep still. *)
(* The broker under a pump, the endpoint, personal memory, the MCP host, the  *)
(* budget of sleep, the coordinator, the night's extraction, the native       *)
(* group, the boot of the database and the captures of a host, which proofs   *)
(* are about, are extended with variables of their own, still while another   *)
(* part runs.                                                                 *)
EXTENDS RuntimeBroker, SignedWssEndpoint, PersonalStore, McpHost, SleepBudget,
        SleepCoordinator, SleepExtraction, NativeGroup, StorageBoot, HostCapture,
        OperationalMemory

VARIABLES
  part,
  v1, v2, v3, v4, v5, v6, v7, v8, v9, v10, v11, v12, v13, v14, v15, v16, v17, v18, v19

partsVars ==
  <<part, v1, v2, v3, v4, v5, v6, v7, v8, v9, v10, v11, v12, v13, v14, v15, v16, v17, v18, v19,
    brokerVars, endpointVars, memoryVars, mcpVars, budgetVars, coordinatorVars, extractionVars,
    groupVars, bootVars, captureVars, operationalVars>>

\* The frames of the endpoint: one request, signed twice at one time.
OneRequest == [f \in WssFrame |-> CHOOSE r \in WssRequest : TRUE]
SignedTogether == [f \in WssFrame |-> 1]

\* The messages of each execution of a host.
TwoSpoken == [e \in Execution |-> <<"m1", "m2">>]

\* The pauses before a second and a third attempt.
TwoPauses == <<1, 2>>

\* Personal memory with a backup that is restored while the daemon forgets; and with
\* revisions and builds of the projection, while one of the two processes forgets.
RestoredNext ==
  MemoryNext /\ UNCHANGED proj /\ (\A r \in rows' : r.rev = 1) /\ job'["cli"].step # "mark"
ProjectedNext == MemoryNext /\ UNCHANGED <<backup, restores>> /\ job'["cli"].step # "mark"
CommandedNext == MemoryNext /\ UNCHANGED <<backup, restores>> /\ job'["daemon"].step # "mark"

\* Of two adapters one is launched again.
ContendedNext == McpNext /\ launches'["p2"] <= 1

\* The captures of a host, and the window of its observations.
CapturingNext == CaptureNext /\ UNCHANGED sinkVars
ObservingNext == CaptureNext /\ UNCHANGED <<sessionRows, capture>>

\* The first memory has an exception and two rivals, and the last a rival.
Lookup == INSTANCE OwnedRecall WITH
  Doc <- {1, 2, 3, 4}, Summary <- {2},
  ExceptionOf <- [d \in {1, 3, 4} |-> IF d = 1 THEN {3} ELSE {}],
  RivalOf <- [d \in {1, 3, 4} |-> IF d = 1 THEN {3, 4} ELSE IF d = 4 THEN {3} ELSE {}],
  Items <- 1, MaxRead <- 1, MaxExtras <- 1, MaxRefs <- 1, MaxLookups <- 1, MaxPages <- 1,
  MaxHandle <- 2, MaxChange <- 1,
  source <- v1, generation <- v2, changes <- v3, lookups <- v4, handles <- v5, call <- v6,
  packet <- v7

\* The summary changes, and the memory that disputes the others.
LookupNext == Lookup!Next /\ v1'[1] = v1[1] /\ v1'[4] = v1[4]

Weeks == INSTANCE Consolidation WITH
  Week <- 2, Quarter <- 3, Gap <- 2, FirstDay <- 3, LastDay <- 10, MaxDaily <- 3, MaxForeign <- 1,
  today <- v1, dailies <- v2, weekly <- v3, foreign <- v4, quarterly <- v5, target <- v6

Install == INSTANCE Installation WITH
  Release <- {"r1", "r2", "r3"}, Kept <- 1, MaxUpdate <- 2, MaxStart <- 1,
  platform <- v1, disk <- v2, current <- v3, bin <- v4, mod <- v5, unit <- v6, legacy <- v7,
  kept <- v8, enabled <- v9, linger <- v10, service <- v11, old <- v12, manual <- v13, at <-
  v14, want <- v15, changed <- v16, report <- v17, updates <- v18, started <- v19

ASSUME
  /\ CoordinatorAssumption /\ GroupAssumption /\ ExtractionAssumption
  /\ Lookup!RecallAssumption
  /\ Weeks!ConsolidationAssumption /\ Install!InstallationAssumption /\ BootAssumption
  /\ CaptureAssumption

-----------------------------------------------------------------------------
(* From the n-th on, the variables are unused. *)

Unused19 == v19 = 0
Unused18 == v18 = 0 /\ Unused19
Unused17 == v17 = 0 /\ Unused18
Unused16 == v16 = 0 /\ Unused17
Unused15 == v15 = 0 /\ Unused16
Unused14 == v14 = 0 /\ Unused15
Unused13 == v13 = 0 /\ Unused14
Unused12 == v12 = 0 /\ Unused13
Unused11 == v11 = 0 /\ Unused12
Unused10 == v10 = 0 /\ Unused11
Unused9 == v9 = 0 /\ Unused10
Unused8 == v8 = 0 /\ Unused9
Unused7 == v7 = 0 /\ Unused8
Unused1 == v1 = 0 /\ v2 = 0 /\ v3 = 0 /\ v4 = 0 /\ v5 = 0 /\ v6 = 0 /\ Unused7

Still19 == UNCHANGED v19
Still18 == UNCHANGED v18 /\ Still19
Still17 == UNCHANGED v17 /\ Still18
Still16 == UNCHANGED v16 /\ Still17
Still15 == UNCHANGED v15 /\ Still16
Still14 == UNCHANGED v14 /\ Still15
Still13 == UNCHANGED v13 /\ Still14
Still12 == UNCHANGED v12 /\ Still13
Still11 == UNCHANGED v11 /\ Still12
Still10 == UNCHANGED v10 /\ Still11
Still9 == UNCHANGED v9 /\ Still10
Still8 == UNCHANGED v8 /\ Still9
Still7 == UNCHANGED v7 /\ Still8
Still1 == UNCHANGED <<v1, v2, v3, v4, v5, v6>> /\ Still7

\* The parts with variables of their own; one that does not run starts in one way.
Extended ==
  {"endpoint", "pump", "restored", "projected", "commanded", "mcp", "budget", "coordinator",
   "extraction", "group", "storage", "capture", "sink", "paging"}

PartsInit ==
  /\ BootInit
  /\ \/ part \in Extended /\ Unused1
     \/ part = "lookup" /\ Lookup!Init /\ Unused8
     \/ part = "weeks" /\ Weeks!Init /\ Unused7
     \/ part = "installation" /\ Install!Init
  /\ part # "storage" => db = NoDatabase
  /\ part # "coordinator" => sidecar = NoRecord
  /\ part # "group" => live = NoPackages /\ manifest = NoPackages
  /\ BrokerInit /\ EndpointInit /\ MemoryInit /\ McpInit /\ BudgetInit
  /\ CoordinatorInit /\ ExtractionInit /\ GroupInit /\ CaptureInit /\ OperationalInit

PartsNext ==
  /\ UNCHANGED part
  /\ \/ /\ part \in Extended /\ Still1
        /\ \/ part = "endpoint" /\ EndpointNext
           \/ part # "endpoint" /\ UNCHANGED endpointVars
        /\ \/ part = "pump" /\ PumpNext
           \/ part # "pump" /\ UNCHANGED brokerVars
        /\ \/ part = "restored" /\ RestoredNext
           \/ part = "projected" /\ ProjectedNext
           \/ part = "commanded" /\ CommandedNext
           \/ part \notin {"restored", "projected", "commanded"} /\ UNCHANGED memoryVars
        /\ \/ part = "mcp" /\ ContendedNext
           \/ part # "mcp" /\ UNCHANGED mcpVars
        /\ \/ part = "budget" /\ BudgetNext
           \/ part # "budget" /\ UNCHANGED budgetVars
        /\ \/ part = "coordinator" /\ CoordinatorNext
           \/ part # "coordinator" /\ UNCHANGED coordinatorVars
        /\ \/ part = "extraction" /\ ExtractionNext
           \/ part # "extraction" /\ UNCHANGED extractionVars
        /\ \/ part = "group" /\ GroupNext
           \/ part # "group" /\ UNCHANGED groupVars
        /\ \/ part = "storage" /\ BootNext
           \/ part # "storage" /\ UNCHANGED bootVars
        /\ \/ part = "capture" /\ CapturingNext
           \/ part = "sink" /\ ObservingNext
           \/ part \notin {"capture", "sink"} /\ UNCHANGED captureVars
        /\ \/ part = "paging" /\ OperationalNext
           \/ part # "paging" /\ UNCHANGED operationalVars
     \/ /\ UNCHANGED <<brokerVars, endpointVars, memoryVars, mcpVars, budgetVars, coordinatorVars>>
        /\ UNCHANGED <<extractionVars, groupVars, bootVars, captureVars, operationalVars>>
        /\ \/ part = "lookup" /\ LookupNext /\ Still8
           \/ part = "weeks" /\ Weeks!Next /\ Still7
           \/ part = "installation" /\ Install!Next

PartsSpec == PartsInit /\ [][PartsNext]_partsVars

-----------------------------------------------------------------------------
(* The properties of the parts; the comment of each is in its module.        *)

TypeOK ==
  CASE part = "endpoint" -> EndpointTypeOK
    [] part = "pump" -> BrokerTypeOK
    [] part \in {"restored", "projected", "commanded"} -> MemoryTypeOK
    [] part = "mcp" -> McpTypeOK
    [] part = "budget" -> BudgetTypeOK
    [] part = "coordinator" -> CoordinatorTypeOK
    [] part = "extraction" -> ExtractionTypeOK
    [] part = "group" -> GroupTypeOK
    [] part = "paging" -> OperationalTypeOK
    [] part = "lookup" -> Lookup!TypeOK
    [] part = "weeks" -> Weeks!TypeOK
    [] part = "installation" -> Install!TypeOK
    [] part = "storage" -> BootTypeOK
    [] part \in {"capture", "sink"} -> CaptureTypeOK

\* OwnedRecall: pages of one lookup do not repeat, and rivals are shown.
PagesKeepTheirWord ==
  [](part = "lookup" => Lookup!RetainedApart) /\ [][part = "lookup" => Lookup!PublishesRivals]_partsVars

\* Consolidation: a day goes into one week, and weeks and quarters follow on.
SummarizedOnce == part = "weeks" => Weeks!SummarizedOnce

\* Installation: what is installed stands through updates that fail or die.
InstallationStands ==
  /\ [](part = "installation" => Install!LinksLead /\ Install!OneUnit)
  /\ [][part = "installation" => Install!UnitsSpared /\ Install!UpdateTakes]_partsVars
=============================================================================
