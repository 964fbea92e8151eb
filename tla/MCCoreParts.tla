----------------------------- MODULE MCCoreParts -----------------------------
(* Parts of the system that share no state, for TLC, side by side: the ledger *)
(* of the mutation service, the broker of the sleep service, the rotation of  *)
(* the secret key, operational memory, the local transport and the questions  *)
(* of a dream.  The initial state chooses the part that runs; the others keep *)
(* still in an initial state of theirs.                                       *)
(*   Of the service's keys, which meet only where cleanup() counts the        *)
(* completed rows, one is enough; the broker's lease is idle for 2 units and  *)
(* renewed by polls, so that a deadline of 3 comes before or after its end;   *)
(* one memory is written by two writers, one pair of memories is asked about. *)
EXTENDS MutationService, RuntimeBroker, SecretKeyRotation, OperationalMemory, LocalTransport,
        DreamQuestions

VARIABLE part

partsVars == <<part, vars, brokerVars, rotationVars, operationalVars, localVars, questionVars>>

OneOwner == [p \in Pair |-> "o1"]

\* A part that does not run has one initial state.
PartsInit ==
  /\ part \in {"mutation", "broker", "rotation", "writers", "local", "questions"}
  /\ Init /\ BrokerInit /\ RotationInit /\ OperationalInit /\ LocalInit /\ QuestionInit
  /\ part # "mutation" => req = CHOOSE r \in [Call -> [key : Key, body : Body]] : TRUE

PartsNext ==
  /\ UNCHANGED part
  /\ \/ part = "mutation" /\ Next
        /\ UNCHANGED <<brokerVars, rotationVars, operationalVars, localVars, questionVars>>
     \/ part = "broker" /\ BrokerNext
        /\ UNCHANGED <<vars, rotationVars, operationalVars, localVars, questionVars>>
     \/ UNCHANGED <<vars, brokerVars>>
        /\ \/ part = "rotation" /\ RotationNext
              /\ UNCHANGED <<operationalVars, localVars, questionVars>>
           \/ part = "writers" /\ OperationalNext
              /\ UNCHANGED <<rotationVars, localVars, questionVars>>
           \/ part = "local" /\ LocalNext
              /\ UNCHANGED <<rotationVars, operationalVars, questionVars>>
           \/ part = "questions" /\ QuestionNext
              /\ UNCHANGED <<rotationVars, operationalVars, localVars>>

\* Of a part that keeps still in its initial state fairness asks nothing: no step
\* of Fairness is enabled there.
PartsSpec == PartsInit /\ [][PartsNext]_partsVars /\ Fairness /\ BrokerFairness

\* RuntimeBroker: a completion ends, and a poll is answered.
WaitsEnd == CompletionsEnd /\ PollsAnswered
=============================================================================
