------------------------------ MODULE HostCapture ------------------------------
(* What hosts hand over of their turns: checkpoint() and completeTurn() of     *)
(* HostMemoryLifecycle (host-integration/lifecycle.ts) over captureIntoSession  *)
(* and recordMessage() (message-store.ts), and the volatile window of           *)
(* ObservationSink (observations.ts).  A handler records its messages one by    *)
(* one and the service may die between two of them; hosts hand over growing     *)
(* parts of a turn before they compress, repeat what was not answered, and      *)
(* complete turns late.  The owner gate and the origin have let the calls pass. *)
EXTENDS Integers, Sequences, FiniteSets

CONSTANTS
  Execution, Message,
  Generation,      \* of a host's session: a rewind begins another
  Spoken,          \* the messages of each execution, in order
  Recent,          \* the rows a capture compares with at most (200)
  Event,
  SinkWindow,      \* OBSERVATION_WINDOW_MAX
  SinkTtl,         \* OBSERVATION_WINDOW_TTL_MS
  MaxCheckpoint,   \* bound: checkpoints of an execution
  MaxCaptureFault, \* bound: deaths of the service and reads that fail
  MaxCount,        \* bound: observations counted
  MaxSinkTime      \* bound on the clock

CaptureAssumption ==
  /\ Spoken \in [Execution -> Seq(Message)] /\ {Recent, SinkWindow, SinkTtl} \subseteq Nat \ {0}
  /\ {MaxCheckpoint, MaxCaptureFault, MaxCount, MaxSinkTime} \subseteq Nat

VARIABLES
  sessionRows,     \* messages: the execution and its generation, which of its
                   \* sessions, the message, and whether the capture that recorded
                   \* it had compared with all of its checkpoint session
  capture,         \* the capture under way, or NoCapture
  checkpoints,     \* checkpoints made, by execution
  completedTurns,  \* executions whose completion the ledger has taken
  captureFaults,
  sinkTime,
  seenEvents,      \* the event window, oldest first
  counted          \* what was counted: the event and when

sinkVars == <<sinkTime, seenEvents, counted>>
captureVars == <<sessionRows, capture, checkpoints, completedTurns, captureFaults, sinkVars>>

SessionKind == {"checkpoint", "turn"}
SessionRow == [execution : Execution, generation : Generation, kind : SessionKind,
               message : Message, sighted : BOOLEAN]
Entry == [event : Event, time : 0..MaxSinkTime]
\* Of its checkpoint session a capture has compared with none yet, part or all.
Sight == {"none", "part", "all"}
NoCapture == [execution |-> "none", generation |-> 0, kind |-> "none", left |-> <<>>,
              known |-> {}, sight |-> "none"]
Captures == [execution : Execution, generation : Generation, kind : SessionKind,
             left : Seq(Message), known : SUBSET Message, sight : Sight]

CaptureTypeOK ==
  /\ sessionRows \in Seq(SessionRow) /\ capture \in Captures \cup {NoCapture}
  /\ checkpoints \in [Execution -> 0..MaxCheckpoint] /\ completedTurns \in SUBSET Execution
  /\ captureFaults \in 0..MaxCaptureFault /\ sinkTime \in 0..MaxSinkTime
  /\ {seenEvents, counted} \subseteq Seq(Entry)

CaptureInit ==
  /\ sessionRows = <<>> /\ capture = NoCapture
  /\ checkpoints = [e \in Execution |-> 0] /\ completedTurns = {}
  /\ captureFaults = 0 /\ sinkTime = 0 /\ seenEvents = <<>> /\ counted = <<>>

-----------------------------------------------------------------------------
(* Captures *)

\* The key of a checkpoint session names the execution and its generation.
Session(e, g, kind) ==
  {i \in 1..Len(sessionRows) : /\ sessionRows[i].execution = e /\ sessionRows[i].generation = g
                               /\ sessionRows[i].kind = kind}

\* loadRecentMessages() of a session: so many of its rows.  Which of them are the most
\* recent is for their timestamps to say, and those a host gives.
RecentMessages(e, g, kind) ==
  LET session == Session(e, g, kind)
      many == IF Cardinality(session) <= Recent THEN Cardinality(session) ELSE Recent
  IN {{sessionRows[i].message : i \in rows} :
        rows \in {rows \in SUBSET session : Cardinality(rows) = many}}

\* Seeded fault: a capture compares with the session it writes to.
FaultKnown(e, g, kind) == RecentMessages(e, g, kind)

\* Whatever it records, a capture compares with the last rows of the checkpoint
\* session of its execution.
Known(e, g, kind) == RecentMessages(e, g, "checkpoint")

BeginCapture(e, g, kind, n) ==
  capture' = [execution |-> e, generation |-> g, kind |-> kind, left |-> SubSeq(Spoken[e], 1, n),
              known |-> {}, sight |-> "none"]

\* What there is of a turn is handed over before the host compresses, again
\* and again, also after the turn.
Checkpoint(e, g) ==
  /\ capture = NoCapture /\ checkpoints[e] < MaxCheckpoint
  /\ checkpoints' = [checkpoints EXCEPT ![e] = @ + 1]
  /\ \E n \in 1..Len(Spoken[e]) : BeginCapture(e, g, "checkpoint", n)
  /\ UNCHANGED <<sessionRows, completedTurns, captureFaults, sinkVars>>

\* A completion keeps the execution it names, however late it arrives; repeated
\* under its key, the ledger answers it.
CompleteTurn(e, g) ==
  /\ capture = NoCapture /\ e \notin completedTurns /\ completedTurns' = completedTurns \cup {e}
  /\ BeginCapture(e, g, "turn", Len(Spoken[e]))
  /\ UNCHANGED <<sessionRows, checkpoints, captureFaults, sinkVars>>

\* knownSet(): the rows are read when the first message is compared.
LoadKnown ==
  /\ capture.left # <<>> /\ capture.sight = "none"
  /\ LET e == capture.execution
         g == capture.generation
     IN \E known \in Known(e, g, capture.kind) :
          capture' = [capture EXCEPT !.known = known,
            !.sight = IF Cardinality(Session(e, g, "checkpoint")) <= Recent THEN "all" ELSE "part"]
  /\ UNCHANGED <<sessionRows, checkpoints, completedTurns, captureFaults, sinkVars>>

\* loadRecentMessages() answers a read that fails with no rows.
LoadFails ==
  /\ capture.left # <<>> /\ capture.sight = "none" /\ captureFaults < MaxCaptureFault
  /\ captureFaults' = captureFaults + 1 /\ capture' = [capture EXCEPT !.sight = "part"]
  /\ UNCHANGED <<sessionRows, checkpoints, completedTurns, sinkVars>>

\* recordMessage(); it prunes nothing, since only sleep knows what is covered.
RecordRow(row) == sessionRows' = Append(sessionRows, row)

\* A message that is known is reconciled; one that is empty, or that recordMessage()
\* fails to write, is rejected.
Capture ==
  /\ capture.left # <<>>
  /\ LET m == Head(capture.left)
         rest == [capture EXCEPT !.left = Tail(@)]
     IN \/ /\ capture.sight # "none" /\ m \notin capture.known
           /\ RecordRow([execution |-> capture.execution, generation |-> capture.generation,
                         kind |-> capture.kind, message |-> m, sighted |-> capture.sight = "all"])
           /\ capture' = [rest EXCEPT !.known = @ \cup {m}]
        \/ capture' = rest /\ UNCHANGED sessionRows
  /\ UNCHANGED <<checkpoints, completedTurns, captureFaults, sinkVars>>

CaptureAnswered ==
  /\ capture # NoCapture /\ capture.left = <<>> /\ capture' = NoCapture
  /\ UNCHANGED <<sessionRows, checkpoints, completedTurns, captureFaults, sinkVars>>

\* The rows stay, the window of events does not.
CaptureDies ==
  /\ captureFaults < MaxCaptureFault /\ captureFaults' = captureFaults + 1
  /\ capture' = NoCapture /\ seenEvents' = <<>> /\ counted' = <<>>
  /\ UNCHANGED <<sessionRows, checkpoints, completedTurns, sinkTime>>

\* The settled sleep prunes what it covered, in steps of one row.
PruneRow ==
  /\ \E i \in 1..Len(sessionRows) :
       sessionRows' =
         SubSeq(sessionRows, 1, i - 1) \o SubSeq(sessionRows, i + 1, Len(sessionRows))
  /\ UNCHANGED <<capture, checkpoints, completedTurns, captureFaults, sinkVars>>

-----------------------------------------------------------------------------
(* Observations *)

\* evictExpired() goes from the oldest and stops at the first that is not.
CurrentEvents ==
  LET current == {i \in 1..Len(seenEvents) : sinkTime - seenEvents[i].time <= SinkTtl}
  IN IF current = {} THEN <<>>
     ELSE SubSeq(seenEvents, CHOOSE i \in current : \A j \in current : i <= j, Len(seenEvents))

Observe(v) ==
  /\ Len(counted) < MaxCount
  /\ LET entry == [event |-> v, time |-> sinkTime]
         window == Append(CurrentEvents, entry)
     IN IF \E i \in 1..Len(CurrentEvents) : CurrentEvents[i].event = v
          THEN seenEvents' = CurrentEvents /\ UNCHANGED counted
          ELSE /\ seenEvents' = (IF Len(window) > SinkWindow THEN Tail(window) ELSE window)
               /\ counted' = Append(counted, entry)
  /\ UNCHANGED <<sessionRows, capture, checkpoints, completedTurns, captureFaults, sinkTime>>

SinkTick ==
  /\ sinkTime < MaxSinkTime /\ sinkTime' = sinkTime + 1
  /\ UNCHANGED <<sessionRows, capture, checkpoints, completedTurns, captureFaults, seenEvents,
                 counted>>

CaptureNext ==
  \/ \E e \in Execution, g \in Generation : Checkpoint(e, g) \/ CompleteTurn(e, g)
  \/ LoadKnown \/ LoadFails \/ Capture \/ CaptureAnswered \/ CaptureDies \/ PruneRow \/ SinkTick
  \/ \E v \in Event : Observe(v)

CaptureSpec == CaptureInit /\ [][CaptureNext]_captureVars

-----------------------------------------------------------------------------

\* "checkpoint retries converge, and completion skips content already checkpointed
\* for the same execution" (lifecycle.ts:52-53): through deaths in the middle of a
\* capture, repeated calls and late completions, a message that is in the checkpoints
\* of an execution is recorded again, there or in its turn, only by a capture that did
\* not see all of them: its read failed, or they are more than it reads.  Under
\* another generation of the session they are other checkpoints.  And an event is
\* counted again only when its time is over or as many others came as the window
\* holds.
CapturedOnce ==
  /\ \A i, j \in 1..Len(sessionRows) :
       /\ i < j
       /\ sessionRows[i].execution = sessionRows[j].execution
       /\ sessionRows[i].generation = sessionRows[j].generation
       /\ sessionRows[i].message = sessionRows[j].message
       /\ sessionRows[i].kind = "checkpoint"
       => ~sessionRows[j].sighted
  /\ \A i, j \in 1..Len(counted) :
       i < j /\ counted[i].event = counted[j].event =>
         \/ counted[j].time - counted[i].time > SinkTtl
         \/ j - i > SinkWindow

=============================================================================
