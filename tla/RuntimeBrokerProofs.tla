------------------------- MODULE RuntimeBrokerProofs -------------------------
(* Machine-checked proofs about RuntimeBroker, for every number of polls,     *)
(* leases and completions and for all the times: nobody who waits is          *)
(* forgotten, a completion has one taker, what was answered stands, and a     *)
(* provider that polls as a pump does keeps its lease.                        *)
EXTENDS RuntimeBroker, SequenceTheorems, FiniteSetTheorems, TLAPS

-----------------------------------------------------------------------------
(* The inductive invariant *)

\* A poll waits once, under the lease it named.
Apart ==
  \A i, j \in DOMAIN queue : queue[i].poll = queue[j].poll => i = j
Named ==
  \A i \in DOMAIN queue : answer[queue[i].poll].lease = queue[i].lease

\* The pending completion has no outcome, and none took it unless it is delivered.
PendingIsQueued ==
  pending.id # None =>
    /\ outcome[pending.id] = "queued"
    /\ admitted[pending.id].proposalOnly => lease \in capable
    /\ ~pending.delivered => \A p \in Poll : ~Has(p, pending.id)

\* What was handed out had been queued.
Handed == \A p \in Poll, c \in Completion : Has(p, c) => outcome[c] # "none"

\* Completions are numbered in the order in which they are queued.
Numbered == \E n \in 0 .. MaxCompletion : Queued = 1 .. n

IInv ==
  /\ BrokerTypeOK /\ NobodyForgotten /\ DeliveredOnce
  /\ Apart /\ Named /\ PendingIsQueued /\ Handed /\ Numbered

\* An outcome and an answer are final.
Stands ==
  /\ \A c \in Completion : outcome[c] \notin {"none", "queued"} => outcome'[c] = outcome[c]
  /\ \A p \in Poll : answer[p].status \notin {"unused", "waiting"} => answer'[p] = answer[p]

-----------------------------------------------------------------------------
(* The operators of the broker *)

PendingType == [id : Completion \cup {None}, left : Int, delivered : BOOLEAN]
AnswerType == [lease : Lease \cup {None}, status : Status, work : Completion \cup {None}]
WaiterType == [poll : Poll, lease : Lease, left : Nat]
InQueue(q) == \E i \in DOMAIN queue : queue[i].poll = q

LEMMA QueueIsSeq ==
  ASSUME BrokerTypeOK
  PROVE  /\ Len(queue) \in Nat /\ DOMAIN queue = 1 .. Len(queue)
         /\ \A i \in DOMAIN queue : queue[i] \in WaiterType
<1>1. queue \in Seq(WaiterType)
  BY DEF BrokerTypeOK, WaiterType
<1> QED
  BY <1>1

\* An element taken out: those behind it move up.
LEMMA TakenOut ==
  ASSUME NEW S, NEW q \in Seq(S), NEW i \in DOMAIN q
  PROVE  LET r == SubSeq(q, 1, i - 1) \o SubSeq(q, i + 1, Len(q)) IN
         /\ r \in Seq(S)
         /\ DOMAIN r = 1 .. Len(q) - 1
         /\ \A j \in DOMAIN r : r[j] = IF j < i THEN q[j] ELSE q[j + 1]
<1> DEFINE a == SubSeq(q, 1, i - 1)
           b == SubSeq(q, i + 1, Len(q))
<1>0. Len(q) \in Nat /\ i \in 1 .. Len(q) /\ \A j \in 1 .. Len(q) : q[j] \in S
  OBVIOUS
<1>1. /\ a \in Seq(S) /\ Len(a) = i - 1
      /\ \A j \in 1 .. i - 1 : a[j] = q[j]
  <2>1. \A j \in 1 .. i - 1 : q[j] \in S
    BY <1>0
  <2> HIDE DEF a
  <2> QED
    BY <1>0, <2>1, SubSeqProperties DEF a
<1>2. /\ b \in Seq(S) /\ Len(b) = Len(q) - i
      /\ \A j \in 1 .. Len(q) - i : b[j] = q[i + j]
  <2>1. \A j \in i + 1 .. Len(q) : q[j] \in S
    BY <1>0
  <2>2. /\ b \in Seq(S) /\ Len(b) = IF i + 1 <= Len(q) THEN Len(q) - (i + 1) + 1 ELSE 0
        /\ \A j \in 1 .. Len(q) - (i + 1) + 1 : b[j] = q[i + 1 + j - 1]
    <3> i + 1 \in Int /\ Len(q) \in Int
      BY <1>0
    <3> QED
      BY <2>1, SubSeqProperties
  <2> HIDE DEF b
  <2> QED
    BY <1>0, <2>2
<1> HIDE DEF a, b
<1>3. /\ a \o b \in Seq(S) /\ Len(a \o b) = Len(a) + Len(b)
      /\ \A j \in 1 .. Len(a) + Len(b) :
           (a \o b)[j] = IF j <= Len(a) THEN a[j] ELSE b[j - Len(a)]
  BY <1>1, <1>2, ConcatProperties
<1>4. \A j \in 1 .. Len(q) - 1 : (a \o b)[j] = IF j < i THEN q[j] ELSE q[j + 1]
  <2> TAKE j \in 1 .. Len(q) - 1
  <2>1. CASE j < i
    BY <1>0, <1>1, <1>2, <1>3, <2>1
  <2>2. CASE ~(j < i)
    <3>1. j - (i - 1) \in 1 .. Len(q) - i /\ ~(j <= i - 1) /\ i + (j - (i - 1)) = j + 1
      BY <1>0, <2>2
    <3>2. (a \o b)[j] = b[j - (i - 1)]
      <4>1. Len(a) = i - 1 /\ j \in 1 .. Len(a) + Len(b) /\ ~(j <= Len(a))
        BY <1>0, <1>1, <1>2, <3>1
      <4>2. (a \o b)[j] = b[j - Len(a)]
        BY <1>3, <4>1
      <4> QED
        BY <4>1, <4>2
    <3>3. b[j - (i - 1)] = q[i + (j - (i - 1))]
      BY <1>2, <3>1
    <3> QED
      BY <2>2, <3>1, <3>2, <3>3
  <2> QED
    BY <2>1, <2>2
<1>5. DOMAIN (a \o b) = 1 .. Len(q) - 1
  BY <1>0, <1>1, <1>2, <1>3
<1> QED
  BY <1>3, <1>4, <1>5 DEF a, b

\* wakeNext(): every waiter is answered, and the first of them alone is handed
\* the completion, if there is one to take.
LEMMA Woken ==
  ASSUME BrokerTypeOK, \A i \in DOMAIN queue : queue[i].lease = lease,
         NEW c \in Lease \cup {None}, NEW x \in Int, NEW t \in BOOLEAN,
         NEW p \in PendingType, WakeNext(c, x, p, t)
  PROVE  /\ lease' = c /\ runTerminal' = t /\ queue' = <<>> /\ left' \in Int
         /\ pending' = p \/ (Undelivered(p) /\ pending' = [p EXCEPT !.delivered = TRUE])
         /\ answer' \in [Poll -> AnswerType]
         /\ \A q \in Poll : ~InQueue(q) => answer'[q] = answer[q]
         /\ \A q \in Poll : InQueue(q) =>
              /\ answer'[q].lease = answer[q].lease
              /\ answer'[q].status \in {"ok", "lease_expired", "closed", "no_request"}
              /\ answer'[q].status = "ok" =>
                   /\ Undelivered(p) /\ pending'.delivered /\ lease = c
                   /\ answer'[q].work = p.id
                   /\ q = queue[1].poll
<1> DEFINE mine  == {i \in DOMAIN queue : Undelivered(p) /\ queue[i].lease = c}
           taker == IF mine = {} THEN Len(queue) + 1
                    ELSE CHOOSE i \in mine : \A j \in mine : i <= j
           served == mine # {}
           after == IF served THEN p.left + Grace ELSE x
           reply == [i \in DOMAIN queue |->
                       IF i = taker THEN Work(p.id)
                       ELSE IF Undelivered(p) /\ i < taker THEN Reply("lease_expired")
                       ELSE Heartbeat(queue[i].lease, c, after, t)]
<1>0. /\ Len(queue) \in Nat /\ DOMAIN queue = 1 .. Len(queue)
      /\ \A i \in DOMAIN queue : queue[i] \in WaiterType
  BY QueueIsSeq
<1>1. taker \in DOMAIN queue => taker = 1 /\ served /\ Undelivered(p) /\ lease = c
  <2>1. CASE mine = {}
    BY <1>0, <2>1
  <2>2. CASE mine # {}
    <3>1. PICK i \in DOMAIN queue : Undelivered(p) /\ queue[i].lease = c
      BY <2>2
    <3>2. 1 \in mine /\ \A j \in mine : 1 <= j
      BY <1>0, <3>1
    <3>3. taker \in mine /\ \A j \in mine : taker <= j
      BY <2>2, <3>2
    <3>4. taker = 1
      BY <1>0, <3>2, <3>3
    <3> QED
      BY <3>1, <3>4, <2>2
  <2> QED
    BY <2>1, <2>2
<1>2. after \in Int
  BY BrokerAssumption DEF PendingType
<1>3. ASSUME NEW i \in DOMAIN queue
      PROVE  /\ reply[i] \in [status : {"ok", "lease_expired", "closed", "no_request"},
                              work : Completion \cup {None}]
             /\ reply[i].status = "ok" => i = taker /\ reply[i] = Work(p.id)
  <2> HIDE DEF taker, after
  <2> QED
    BY DEF Work, Reply, Heartbeat, PendingType
<1>4. /\ lease' = c /\ runTerminal' = t /\ queue' = <<>>
      /\ pending' = IF served THEN [p EXCEPT !.delivered = TRUE] ELSE p
      /\ left' = IF \E i \in DOMAIN queue : reply[i].status = "no_request" THEN IdleLease ELSE after
      /\ answer' = [q \in Poll |->
                     IF \E i \in DOMAIN queue : queue[i].poll = q
                     THEN Got(q, reply[CHOOSE i \in DOMAIN queue : queue[i].poll = q])
                     ELSE answer[q]]
  BY Zenon DEF WakeNext
<1>5. served => Undelivered(p)
  OBVIOUS
<1> HIDE DEF mine, taker, served, after, reply
<1>6. left' \in Int
  BY <1>2, <1>4, BrokerAssumption
<1>7. ASSUME NEW q \in Poll
      PROVE  /\ ~InQueue(q) => answer'[q] = answer[q]
             /\ InQueue(q) => \E i \in DOMAIN queue :
                  queue[i].poll = q /\ answer'[q] = [answer[q] EXCEPT !.status = reply[i].status, !.work = reply[i].work]
  BY <1>4 DEF Got, InQueue
<1>8. ASSUME NEW q \in Poll, InQueue(q)
      PROVE  /\ answer'[q] \in AnswerType
             /\ answer'[q].lease = answer[q].lease
             /\ answer'[q].status \in {"ok", "lease_expired", "closed", "no_request"}
             /\ answer'[q].status = "ok" =>
                   /\ Undelivered(p) /\ pending'.delivered /\ lease = c
                   /\ answer'[q].work = p.id
                   /\ q = queue[1].poll
  <2>1. PICK i \in DOMAIN queue :
          queue[i].poll = q /\ answer'[q] = [answer[q] EXCEPT !.status = reply[i].status, !.work = reply[i].work]
    BY <1>7, <1>8
  <2>2. answer[q] \in AnswerType
    BY DEF BrokerTypeOK, AnswerType
  <2>3. answer'[q] = [lease |-> answer[q].lease, status |-> reply[i].status, work |-> reply[i].work]
    BY <2>1, <2>2 DEF AnswerType
  <2>4. answer'[q] \in AnswerType /\ answer'[q].lease = answer[q].lease
    BY <2>2, <2>3, <1>3 DEF AnswerType, Status
  <2>5. ASSUME answer'[q].status = "ok"
        PROVE  /\ Undelivered(p) /\ pending'.delivered /\ lease = c
               /\ answer'[q].work = p.id
               /\ q = queue[1].poll
    <3>1. i = taker /\ reply[i] = Work(p.id)
      BY <2>3, <2>5, <1>3
    <3>2. i = 1 /\ served /\ Undelivered(p) /\ lease = c
      BY <3>1, <1>1
    <3>3. pending'.delivered
      BY <3>2, <1>4 DEF PendingType
    <3> QED
      BY <2>1, <2>3, <3>1, <3>2, <3>3 DEF Work
  <2> QED
    BY <2>3, <2>4, <2>5, <1>3
<1>9. answer' \in [Poll -> AnswerType]
  <2>1. \A q \in Poll : answer'[q] \in AnswerType
    BY <1>7, <1>8 DEF BrokerTypeOK, AnswerType
  <2> QED
    BY <2>1, <1>4
<1> QED
  BY <1>4, <1>5, <1>6, <1>7, <1>8, <1>9

\* What the caller of the pending completion gets, and nobody else does.
LEMMA Ending ==
  ASSUME BrokerTypeOK, NEW o \in Outcome, Ended(o)
  PROVE  /\ outcome' \in [Completion -> Outcome]
         /\ \A d \in Completion : outcome'[d] = IF d = pending.id THEN o ELSE outcome[d]
<1>1. pending.id \in Completion \cup {None} /\ None \notin Completion
  BY DEF BrokerTypeOK, Completion, None
<1> QED
  BY <1>1 DEF BrokerTypeOK, Ended

\* The next completion is new.
LEMMA NextIsNew ==
  ASSUME Numbered
  PROVE  \E n \in 0 .. MaxCompletion : Queued = 1 .. n /\ NextCompletion = n + 1
<1>1. PICK n \in 0 .. MaxCompletion : Queued = 1 .. n
  BY DEF Numbered
<1>2. n \in Nat
  BY BrokerAssumption
<1>3. Cardinality(1 .. n) = n
  BY <1>2, FS_Interval
<1> QED
  BY <1>1, <1>3 DEF NextCompletion

LEMMA StatusOfWaiter ==
  ASSUME NobodyForgotten, NEW q \in Poll
  PROVE  InQueue(q) <=> answer[q].status = "waiting"
  BY DEF NobodyForgotten, InQueue

-----------------------------------------------------------------------------
(* The initial states satisfy the invariant *)

LEMMA InitInv == BrokerInit => IInv
<1> SUFFICES ASSUME BrokerInit PROVE IInv
  OBVIOUS
<1>1. BrokerTypeOK
  <2>1. lease \in Lease \cup {None} /\ left \in Int /\ leases \in 0 .. MaxLease /\ capable \subseteq Lease
    BY BrokerAssumption DEF BrokerInit
  <2>2. pending \in [id : Completion \cup {None}, left : Int, delivered : BOOLEAN]
    BY DEF BrokerInit, NoCompletion
  <2>3. queue \in Seq([poll : Poll, lease : Lease, left : Nat])
    BY EmptySeq DEF BrokerInit
  <2>4. answer \in [Poll -> [lease : Lease \cup {None}, status : Status, work : Completion \cup {None}]]
    BY DEF BrokerInit, Status
  <2>5. outcome \in [Completion -> Outcome]
    BY DEF BrokerInit, Outcome
  <2>6. admitted \in [Completion -> [lease : Lease \cup {None}, proposalOnly : BOOLEAN]] /\ runTerminal \in BOOLEAN
    BY DEF BrokerInit
  <2> QED
    BY <2>1, <2>2, <2>3, <2>4, <2>5, <2>6 DEF BrokerTypeOK
<1>2. NobodyForgotten /\ Apart /\ Named
  BY DEF BrokerInit, NobodyForgotten, Apart, Named
<1>3. DeliveredOnce /\ Handed
  BY DEF BrokerInit, DeliveredOnce, Handed, Has
<1>4. PendingIsQueued
  BY DEF BrokerInit, PendingIsQueued, NoCompletion
<1>5. Numbered
  <2>1. Queued = 1 .. 0
    BY DEF BrokerInit, Queued
  <2> QED
    BY <2>1, BrokerAssumption DEF Numbered
<1> QED
  BY <1>1, <1>2, <1>3, <1>4, <1>5 DEF IInv

-----------------------------------------------------------------------------
(* Every step keeps it *)

\* A completion ends, with its lease or without: expireLease(), settlePending().
LEMMA EndingInv ==
  ASSUME IInv,
         NEW c \in Lease \cup {None}, NEW x \in Int, NEW t \in BOOLEAN,
         NEW o \in Outcome \ {"none", "queued"},
         o \in {"completed", "provider_failed"} => \E p \in Poll : Has(p, pending.id),
         Ended(o), WakeNext(c, x, NoCompletion, t), UNCHANGED <<leases, capable, admitted>>
  PROVE  IInv' /\ Stands
<1>0. /\ BrokerTypeOK /\ NobodyForgotten /\ DeliveredOnce
      /\ PendingIsQueued /\ Handed /\ Numbered
  BY DEF IInv
<1>1. /\ outcome' \in [Completion -> Outcome]
      /\ \A d \in Completion : outcome'[d] = IF d = pending.id THEN o ELSE outcome[d]
  BY <1>0, Ending
<1>2. /\ lease' = c /\ runTerminal' = t /\ queue' = <<>> /\ left' \in Int
      /\ pending' = NoCompletion
      /\ answer' \in [Poll -> AnswerType]
      /\ \A q \in Poll : ~InQueue(q) => answer'[q] = answer[q]
      /\ \A q \in Poll : InQueue(q) =>
           /\ answer'[q].lease = answer[q].lease
           /\ answer'[q].status \in {"lease_expired", "closed", "no_request"}
  <2>1. NoCompletion \in PendingType /\ ~Undelivered(NoCompletion)
    BY DEF NoCompletion, PendingType, Undelivered
  <2>2. \A i \in DOMAIN queue : queue[i].lease = lease
    BY <1>0 DEF NobodyForgotten
  <2> QED
    BY <1>0, <2>1, <2>2, Woken
<1>3. None \notin Completion /\ NoCompletion.id = None
  BY DEF Completion, None, NoCompletion
<1>4. ASSUME NEW q \in Poll, NEW d \in Completion
      PROVE  Has(q, d)' <=> Has(q, d)
  BY <1>0, <1>2, StatusOfWaiter DEF Has
<1>5. BrokerTypeOK'
  BY <1>0, <1>1, <1>2 DEF BrokerTypeOK, AnswerType, NoCompletion
<1>6. NobodyForgotten'
  <2>1. \A d \in Completion : outcome'[d] # "queued"
    BY <1>0, <1>1 DEF NobodyForgotten
  <2>2. \A q \in Poll : answer'[q].status # "waiting"
    BY <1>0, <1>2, StatusOfWaiter
  <2> QED
    BY <2>1, <2>2, <1>2, <1>3 DEF NobodyForgotten
<1>7. DeliveredOnce'
  <2>1. ASSUME NEW d \in Completion, outcome'[d] \in {"completed", "provider_failed"}
        PROVE  \E p \in Poll : Has(p, d)
    BY <1>0, <1>1, <2>1 DEF DeliveredOnce
  <2>2. ASSUME NEW p \in Poll, NEW d \in Completion, Has(p, d)'
        PROVE  /\ answer'[p].lease = admitted'[d].lease
               /\ admitted'[d].proposalOnly => answer'[p].lease \in capable'
               /\ \A q \in Poll : Has(q, d)' => q = p
    <3>1. Has(p, d) /\ \A q \in Poll : Has(q, d)' => Has(q, d)
      BY <1>4, <2>2
    <3>2. answer'[p].lease = answer[p].lease
      BY <1>2
    <3> QED
      BY <1>0, <3>1, <3>2 DEF DeliveredOnce
  <2> QED
    BY <1>4, <2>1, <2>2 DEF DeliveredOnce
<1>8. Apart' /\ Named'
  BY <1>2 DEF Apart, Named
<1>9. PendingIsQueued'
  BY <1>2, <1>3 DEF PendingIsQueued
<1>10. ASSUME NEW d \in Completion
       PROVE  outcome'[d] = "none" <=> outcome[d] = "none"
  BY <1>0, <1>1, <1>3 DEF PendingIsQueued
<1>11. Handed'
  BY <1>0, <1>4, <1>10 DEF Handed
<1>12. Numbered'
  <2>1. Queued' = Queued
    BY <1>10 DEF Queued
  <2> QED
    BY <1>0, <2>1 DEF Numbered
<1>13. Stands
  <2>1. \A d \in Completion : outcome[d] \notin {"none", "queued"} => outcome'[d] = outcome[d]
    BY <1>0, <1>1, <1>3 DEF PendingIsQueued
  <2>2. \A q \in Poll : answer[q].status \notin {"unused", "waiting"} => answer'[q] = answer[q]
    BY <1>0, <1>2, StatusOfWaiter
  <2> QED
    BY <2>1, <2>2 DEF Stands
<1> QED
  BY <1>5, <1>6, <1>7, <1>8, <1>9, <1>11, <1>12, <1>13 DEF IInv

LEMMA QueueInv ==
  ASSUME IInv, NEW proposalOnly \in BOOLEAN, NEW window \in Windows,
         QueueCompletion(proposalOnly, window)
  PROVE  IInv' /\ Stands
<1> DEFINE c == NextCompletion
           p == [id |-> c, left |-> window, delivered |-> FALSE]
<1>0. /\ BrokerTypeOK /\ NobodyForgotten /\ DeliveredOnce
      /\ Named /\ PendingIsQueued /\ Handed /\ Numbered
  BY DEF IInv
<1>1. /\ c \in Completion /\ pending.id = None
      /\ lease # None /\ (proposalOnly => lease \in capable)
      /\ admitted' = [admitted EXCEPT ![c] = [lease |-> lease, proposalOnly |-> proposalOnly]]
      /\ outcome' = [outcome EXCEPT ![c] = "queued"]
      /\ WakeNext(lease, left, p, runTerminal)
      /\ UNCHANGED <<leases, capable>>
  BY DEF QueueCompletion, Admits, HasProvider
<1>2. PICK n \in 0 .. MaxCompletion : Queued = 1 .. n /\ c = n + 1
  BY <1>0, NextIsNew
<1>3. outcome[c] = "none"
  <2>1. c \notin Queued
    BY <1>2, BrokerAssumption
  <2> QED
    BY <1>1, <2>1 DEF Queued
<1> HIDE DEF c
<1>4. /\ lease' = lease /\ runTerminal' = runTerminal /\ queue' = <<>> /\ left' \in Int
      /\ pending' = p \/ pending' = [p EXCEPT !.delivered = TRUE]
      /\ answer' \in [Poll -> AnswerType]
      /\ \A q \in Poll : ~InQueue(q) => answer'[q] = answer[q]
      /\ \A q \in Poll : InQueue(q) =>
           /\ answer'[q].lease = answer[q].lease
           /\ answer'[q].status \in {"ok", "lease_expired", "closed", "no_request"}
           /\ answer'[q].status = "ok" =>
                pending'.delivered /\ answer'[q].work = c /\ q = queue[1].poll
  <2>1. /\ p \in PendingType /\ p.id = c
        /\ left \in Int /\ runTerminal \in BOOLEAN /\ lease \in Lease \cup {None}
    BY <1>0, <1>1, BrokerAssumption DEF BrokerTypeOK, PendingType
  <2>2. \A i \in DOMAIN queue : queue[i].lease = lease
    BY <1>0 DEF NobodyForgotten
  <2> HIDE DEF p
  <2> QED
    BY <1>0, <1>1, <2>1, <2>2, Woken
<1>5. /\ pending' \in PendingType /\ pending'.id = c
      /\ outcome' \in [Completion -> Outcome]
      /\ \A d \in Completion : outcome'[d] = IF d = c THEN "queued" ELSE outcome[d]
      /\ admitted' \in [Completion -> [lease : Lease \cup {None}, proposalOnly : BOOLEAN]]
      /\ admitted'[c].lease = lease /\ admitted'[c].proposalOnly = proposalOnly
      /\ \A d \in Completion : d # c => admitted'[d] = admitted[d]
  <2>1. pending' \in PendingType /\ pending'.id = c
    <3>1. p \in PendingType /\ p.id = c
      BY <1>1, BrokerAssumption DEF PendingType
    <3> HIDE DEF p
    <3> QED
      BY <1>4, <3>1 DEF PendingType
  <2>2. outcome' \in [Completion -> Outcome] /\ \A d \in Completion : outcome'[d] = IF d = c THEN "queued" ELSE outcome[d]
    BY <1>0, <1>1 DEF BrokerTypeOK, Outcome
  <2>3. [lease |-> lease, proposalOnly |-> proposalOnly] \in [lease : Lease \cup {None}, proposalOnly : BOOLEAN]
    BY <1>0 DEF BrokerTypeOK
  <2>4. /\ admitted' \in [Completion -> [lease : Lease \cup {None}, proposalOnly : BOOLEAN]]
        /\ admitted'[c] = [lease |-> lease, proposalOnly |-> proposalOnly]
        /\ \A d \in Completion : d # c => admitted'[d] = admitted[d]
    BY <1>0, <1>1, <2>3 DEF BrokerTypeOK
  <2> QED
    BY <2>1, <2>2, <2>4
<1>6. \A q \in Poll : ~Has(q, c)
  BY <1>0, <1>1, <1>3 DEF Handed
<1>7. ASSUME NEW q \in Poll, NEW d \in Completion, Has(q, d)'
      PROVE  \/ Has(q, d) /\ d # c /\ answer'[q] = answer[q]
             \/ InQueue(q) /\ d = c /\ q = queue[1].poll /\ pending'.delivered
  BY <1>4, <1>6, <1>7 DEF Has
<1>8. ASSUME NEW q \in Poll, NEW d \in Completion, Has(q, d)
      PROVE  Has(q, d)'
  BY <1>0, <1>4, <1>8, StatusOfWaiter DEF Has
<1>9. BrokerTypeOK'
  BY <1>0, <1>1, <1>4, <1>5 DEF BrokerTypeOK, AnswerType, PendingType
<1>10. NobodyForgotten'
  <2>1. \A d \in Completion : d # c => outcome'[d] # "queued"
    BY <1>0, <1>1, <1>5 DEF NobodyForgotten, Completion, None
  <2>2. \A q \in Poll : answer'[q].status # "waiting"
    BY <1>0, <1>4, StatusOfWaiter
  <2> QED
    BY <2>1, <2>2, <1>1, <1>4, <1>5 DEF NobodyForgotten
<1>11. DeliveredOnce'
  <2>1. ASSUME NEW q \in Poll, NEW d \in Completion, Has(q, d)'
        PROVE  /\ answer'[q].lease = admitted'[d].lease
               /\ admitted'[d].proposalOnly => answer'[q].lease \in capable'
               /\ \A r \in Poll : Has(r, d)' => r = q
    <3>1. CASE Has(q, d) /\ d # c /\ answer'[q] = answer[q]
      BY <3>1, <1>0, <1>1, <1>5, <1>7 DEF DeliveredOnce
    <3>2. CASE InQueue(q) /\ d = c /\ q = queue[1].poll
      <4>1. answer'[q].lease = lease
        BY <1>0, <1>4, <3>2 DEF InQueue, Named, NobodyForgotten
      <4> QED
        BY <3>2, <4>1, <1>1, <1>5, <1>7
    <3> QED
      BY <2>1, <3>1, <3>2, <1>7
  <2>2. ASSUME NEW d \in Completion, outcome'[d] \in {"completed", "provider_failed"}
        PROVE  \E q \in Poll : Has(q, d)'
    <3>1. PICK q \in Poll : Has(q, d)
      BY <2>2, <1>0, <1>5 DEF DeliveredOnce
    <3> QED
      BY <3>1, <1>8
  <2> QED
    BY <2>1, <2>2 DEF DeliveredOnce
<1>12. Apart' /\ Named'
  BY <1>4 DEF Apart, Named
<1>13. PendingIsQueued'
  BY <1>1, <1>4, <1>5, <1>6, <1>7 DEF PendingIsQueued
<1>14. Handed'
  BY <1>0, <1>5, <1>7 DEF Handed
<1>15. Numbered'
  <2>1. Queued' = Queued \cup {c}
    BY <1>1, <1>5 DEF Queued
  <2>2. n + 1 \in 0 .. MaxCompletion /\ 1 .. n + 1 = (1 .. n) \cup {n + 1}
    BY <1>1, <1>2, BrokerAssumption DEF Completion
  <2> QED
    BY <1>2, <2>1, <2>2 DEF Numbered
<1>16. Stands
  <2>1. \A d \in Completion : outcome[d] \notin {"none", "queued"} => outcome'[d] = outcome[d]
    BY <1>3, <1>5
  <2>2. \A q \in Poll : answer[q].status \notin {"unused", "waiting"} => answer'[q] = answer[q]
    BY <1>0, <1>4, StatusOfWaiter
  <2> QED
    BY <2>1, <2>2 DEF Stands
<1> QED
  BY <1>9, <1>10, <1>11, <1>12, <1>13, <1>14, <1>15, <1>16 DEF IInv

LEMMA OpenInv ==
  ASSUME IInv, NEW enforces \in BOOLEAN, Open(enforces)
  PROVE  IInv' /\ Stands
<1>0. /\ BrokerTypeOK /\ NobodyForgotten /\ DeliveredOnce
      /\ PendingIsQueued /\ Handed /\ Numbered
  BY DEF IInv
<1>1. /\ outcome' \in [Completion -> Outcome]
      /\ \A d \in Completion : outcome'[d] = IF d = pending.id THEN "lease_expired" ELSE outcome[d]
  BY <1>0, Ending DEF Open, Outcome
<1>2. /\ lease' \in Lease /\ left' \in Int /\ leases' \in 0 .. MaxLease
      /\ capable \subseteq capable' /\ capable' \subseteq Lease
  BY <1>0, BrokerAssumption DEF Open, BrokerTypeOK, Lease
<1>3. pending' = NoCompletion /\ queue' = <<>> /\ admitted' = admitted /\ runTerminal' = FALSE
  BY DEF Open
<1>4. ASSUME NEW q \in Poll
      PROVE  /\ answer'[q] \in AnswerType /\ answer'[q].lease = answer[q].lease
             /\ answer[q].status # "waiting" => answer'[q] = answer[q]
             /\ answer[q].status = "waiting" => answer'[q].status = "lease_expired"
  <2>1. answer[q] \in AnswerType
    BY <1>0 DEF BrokerTypeOK, AnswerType
  <2>2. answer'[q] = IF answer[q].status = "waiting" THEN Got(q, Reply("lease_expired")) ELSE answer[q]
    BY DEF Open
  <2>3. Got(q, Reply("lease_expired")) = [answer[q] EXCEPT !.status = "lease_expired", !.work = None]
    BY DEF Got, Reply
  <2>4. Got(q, Reply("lease_expired")) = [lease |-> answer[q].lease, status |-> "lease_expired", work |-> None]
    BY <2>1, <2>3 DEF AnswerType
  <2>5. Got(q, Reply("lease_expired")) \in AnswerType
    BY <2>1, <2>4 DEF AnswerType, Status
  <2> QED
    BY <2>1, <2>2, <2>4, <2>5
<1>5. ASSUME NEW q \in Poll, NEW d \in Completion
      PROVE  Has(q, d)' <=> Has(q, d)
  BY <1>4 DEF Has
<1>6. None \notin Completion /\ NoCompletion.id = None
  BY DEF Completion, None, NoCompletion
<1>7. BrokerTypeOK'
  <2>1. answer' \in [Poll -> AnswerType]
    BY <1>4 DEF Open
  <2>2. pending' \in [id : Completion \cup {None}, left : Int, delivered : BOOLEAN]
    BY <1>3 DEF NoCompletion
  <2>3. queue' \in Seq([poll : Poll, lease : Lease, left : Nat])
    BY <1>3, EmptySeq
  <2>4. runTerminal' \in BOOLEAN
    BY <1>3
  <2> QED
    BY <1>0, <1>1, <1>2, <1>3, <2>1, <2>2, <2>3, <2>4 DEF BrokerTypeOK, AnswerType
<1>8. NobodyForgotten'
  <2>1. \A d \in Completion : outcome'[d] # "queued"
    BY <1>0, <1>1 DEF NobodyForgotten
  <2> QED
    BY <2>1, <1>3, <1>4, <1>6 DEF NobodyForgotten
<1>9. DeliveredOnce'
  <2>1. ASSUME NEW d \in Completion, outcome'[d] \in {"completed", "provider_failed"}
        PROVE  \E p \in Poll : Has(p, d)
    BY <1>0, <1>1, <2>1 DEF DeliveredOnce
  <2>2. ASSUME NEW p \in Poll, NEW d \in Completion, Has(p, d)'
        PROVE  /\ answer'[p].lease = admitted'[d].lease
               /\ admitted'[d].proposalOnly => answer'[p].lease \in capable'
               /\ \A q \in Poll : Has(q, d)' => q = p
    <3>1. Has(p, d) /\ \A q \in Poll : Has(q, d)' => Has(q, d)
      BY <1>5, <2>2
    <3> QED
      BY <1>0, <1>2, <1>3, <1>4, <3>1 DEF DeliveredOnce
  <2> QED
    BY <1>5, <2>1, <2>2 DEF DeliveredOnce
<1>10. Apart' /\ Named' /\ PendingIsQueued'
  BY <1>3, <1>6 DEF Apart, Named, PendingIsQueued
<1>11. ASSUME NEW d \in Completion
       PROVE  outcome'[d] = "none" <=> outcome[d] = "none"
  BY <1>0, <1>1, <1>6 DEF PendingIsQueued
<1>12. Handed'
  BY <1>0, <1>5, <1>11 DEF Handed
<1>13. Numbered'
  <2>1. Queued' = Queued
    BY <1>11 DEF Queued
  <2> QED
    BY <1>0, <2>1 DEF Numbered
<1>14. Stands
  <2>1. \A d \in Completion : outcome[d] \notin {"none", "queued"} => outcome'[d] = outcome[d]
    BY <1>0, <1>1, <1>6 DEF PendingIsQueued
  <2>2. \A q \in Poll : answer[q].status \notin {"unused", "waiting"} => answer'[q] = answer[q]
    BY <1>4
  <2> QED
    BY <2>1, <2>2 DEF Stands
<1> QED
  BY <1>7, <1>8, <1>9, <1>10, <1>12, <1>13, <1>14 DEF IInv

LEMMA NumberedStays == ASSUME Numbered, UNCHANGED outcome PROVE Numbered'
  BY DEF Numbered, Queued

LEMMA NextAtOnceInv ==
  ASSUME IInv, NEW p \in Poll, NEW l \in 1 .. leases, NEW wait \in PollWaits, NextAtOnce(p, l, wait)
  PROVE  IInv' /\ Stands
<1> DEFINE serves == lease = l /\ left > 0 /\ Undelivered(pending)
           reply  == IF serves THEN Work(pending.id) ELSE Heartbeat(l, lease, left, runTerminal)
<1>0. /\ BrokerTypeOK /\ NobodyForgotten /\ DeliveredOnce
      /\ Apart /\ Named /\ PendingIsQueued /\ Handed /\ Numbered
  BY DEF IInv
<1>1. /\ answer[p].status = "unused"
      /\ answer' = [answer EXCEPT ![p] = [Got(p, reply) EXCEPT !.lease = l]]
      /\ pending' = [pending EXCEPT !.delivered = @ \/ serves]
      /\ left' = IF serves THEN pending.left + Grace ELSE IF reply.status = "no_request" THEN IdleLease ELSE left
      /\ UNCHANGED <<lease, queue, runTerminal, outcome, leases, capable, admitted>>
  BY DEF NextAtOnce
<1>2. l \in Lease
  BY <1>0, BrokerAssumption DEF BrokerTypeOK, Lease
<1>3. /\ reply.work \in Completion \cup {None}
      /\ reply.status \in {"ok", "lease_expired", "closed", "no_request"}
      /\ reply.status = "ok" => serves /\ reply.work = pending.id
  BY <1>0 DEF Work, Heartbeat, Reply, BrokerTypeOK
<1>4. serves => lease = l /\ Undelivered(pending)
  OBVIOUS
<1> HIDE DEF serves, reply
<1>5. /\ answer' \in [Poll -> AnswerType]
      /\ answer'[p] = [lease |-> l, status |-> reply.status, work |-> reply.work]
      /\ \A q \in Poll \ {p} : answer'[q] = answer[q]
  <2>1. answer[p] \in AnswerType /\ answer \in [Poll -> AnswerType]
    BY <1>0 DEF BrokerTypeOK, AnswerType
  <2>2. Got(p, reply) = [answer[p] EXCEPT !.status = reply.status, !.work = reply.work]
    BY DEF Got
  <2>3. [Got(p, reply) EXCEPT !.lease = l] = [lease |-> l, status |-> reply.status, work |-> reply.work]
    <3>1. Got(p, reply) = [lease |-> answer[p].lease, status |-> reply.status, work |-> reply.work]
      BY <2>1, <2>2 DEF AnswerType
    <3> QED
      BY <3>1
  <2>4. [lease |-> l, status |-> reply.status, work |-> reply.work] \in AnswerType
    BY <1>2, <1>3 DEF AnswerType, Status
  <2> QED
    BY <1>1, <2>1, <2>3, <2>4
<1>6. /\ pending' \in PendingType /\ pending'.id = pending.id
      /\ pending'.delivered <=> (pending.delivered \/ serves)
  <2>1. pending \in PendingType
    BY <1>0 DEF BrokerTypeOK, PendingType
  <2>2. pending' = [id |-> pending.id, left |-> pending.left, delivered |-> (pending.delivered \/ serves)]
    BY <1>1, <2>1 DEF PendingType
  <2>3. (pending.delivered \/ serves) \in BOOLEAN
    OBVIOUS
  <2> QED
    BY <2>1, <2>2, <2>3 DEF PendingType
<1>7. left' \in Int
  BY <1>0, <1>1, BrokerAssumption DEF BrokerTypeOK
<1>8. ASSUME NEW q \in Poll, NEW d \in Completion, Has(q, d)'
      PROVE  \/ Has(q, d) /\ q # p /\ answer'[q] = answer[q]
             \/ q = p /\ serves /\ d = pending.id
  BY <1>3, <1>5, <1>8 DEF Has
<1>9. ASSUME NEW q \in Poll, NEW d \in Completion, Has(q, d)
      PROVE  Has(q, d)'
  BY <1>1, <1>5, <1>9 DEF Has
<1>10. BrokerTypeOK'
  <2>1. pending' \in [id : Completion \cup {None}, left : Int, delivered : BOOLEAN]
    BY <1>6 DEF PendingType
  <2> QED
    BY <1>0, <1>1, <1>5, <1>7, <2>1 DEF BrokerTypeOK, AnswerType
<1>11. ASSUME NEW i \in DOMAIN queue
       PROVE  queue[i].poll \in Poll \ {p}
  BY <1>0, <1>1, QueueIsSeq DEF NobodyForgotten, WaiterType
<1>12. NobodyForgotten'
  <2>1. \A c \in Completion : outcome'[c] = "queued" <=> (pending'.id = c /\ lease' # None /\ lease' = admitted'[c].lease)
    BY <1>0, <1>1, <1>6 DEF NobodyForgotten
  <2>2. \A i \in DOMAIN queue' : queue'[i].lease = lease' /\ answer'[queue'[i].poll].status = "waiting"
    BY <1>0, <1>1, <1>5, <1>11 DEF NobodyForgotten
  <2>3. \A q \in Poll : answer'[q].status = "waiting" => \E i \in DOMAIN queue' : queue'[i].poll = q
    BY <1>0, <1>1, <1>3, <1>5 DEF NobodyForgotten
  <2> QED
    BY <2>1, <2>2, <2>3 DEF NobodyForgotten
<1>13. serves => /\ pending.id \in Completion /\ lease = admitted[pending.id].lease
                 /\ admitted[pending.id].proposalOnly => lease \in capable
                 /\ \A q \in Poll : ~Has(q, pending.id)
  BY <1>0, <1>4 DEF Undelivered, PendingIsQueued, NobodyForgotten, BrokerTypeOK
<1>14. DeliveredOnce'
  <2>1. ASSUME NEW q \in Poll, NEW d \in Completion, Has(q, d)'
        PROVE  /\ answer'[q].lease = admitted'[d].lease
               /\ admitted'[d].proposalOnly => answer'[q].lease \in capable'
               /\ \A r \in Poll : Has(r, d)' => r = q
    <3>1. CASE Has(q, d) /\ q # p /\ answer'[q] = answer[q]
      BY <3>1, <1>0, <1>1, <1>8, <1>13 DEF DeliveredOnce
    <3>2. CASE q = p /\ serves /\ d = pending.id
      BY <3>2, <1>1, <1>4, <1>5, <1>8, <1>13
    <3> QED
      BY <2>1, <3>1, <3>2, <1>8
  <2>2. ASSUME NEW d \in Completion, outcome'[d] \in {"completed", "provider_failed"}
        PROVE  \E q \in Poll : Has(q, d)'
    BY <2>2, <1>0, <1>1, <1>9 DEF DeliveredOnce
  <2> QED
    BY <2>1, <2>2 DEF DeliveredOnce
<1>15. Apart' /\ Named'
  BY <1>0, <1>1, <1>5, <1>11 DEF Apart, Named
<1>16. PendingIsQueued'
  <2>1. ASSUME pending'.id # None, ~pending'.delivered, NEW q \in Poll
        PROVE  ~Has(q, pending.id)'
    <3>1. pending'.id \in Completion /\ ~pending.delivered /\ ~serves /\ ~Has(q, pending.id)
      BY <1>0, <1>6, <2>1 DEF PendingIsQueued, PendingType
    <3>2. ASSUME NEW d \in Completion, d = pending'.id, Has(q, d)' PROVE FALSE
      BY <1>6, <1>8, <3>1, <3>2
    <3> QED
      BY <3>1, <3>2 DEF Has
  <2>2. pending'.id # None => outcome'[pending'.id] = "queued"
    BY <1>0, <1>1, <1>6 DEF PendingIsQueued
  <2>3. pending'.id # None /\ admitted'[pending'.id].proposalOnly => lease' \in capable'
    BY <1>0, <1>1, <1>6 DEF PendingIsQueued
  <2> QED
    BY <2>1, <2>2, <2>3 DEF PendingIsQueued
<1>17. Handed'
  BY <1>0, <1>1, <1>4, <1>8 DEF Handed, PendingIsQueued, Undelivered
<1>18. Numbered' /\ Stands
  BY <1>0, <1>1, <1>5, NumberedStays DEF Stands
<1> QED
  BY <1>10, <1>12, <1>14, <1>15, <1>16, <1>17, <1>18 DEF IInv

\* A step that hands nothing out keeps what is about completions.
LEMMA NothingHanded ==
  ASSUME IInv, UNCHANGED <<lease, outcome, capable, admitted>>,
         pending'.id = pending.id, pending'.delivered = pending.delivered,
         \A q \in Poll : /\ answer'[q].status = "ok" => answer'[q] = answer[q]
                         /\ answer[q].status = "ok" => answer'[q] = answer[q]
  PROVE  DeliveredOnce' /\ PendingIsQueued' /\ Handed' /\ Numbered'
<1>0. BrokerTypeOK /\ DeliveredOnce /\ PendingIsQueued /\ Handed /\ Numbered
  BY DEF IInv
<1>1. ASSUME NEW q \in Poll, NEW d \in Completion
      PROVE  /\ Has(q, d)' <=> Has(q, d)
             /\ Has(q, d) => answer'[q] = answer[q]
  <2>1. ASSUME Has(q, d) PROVE Has(q, d)' /\ answer'[q] = answer[q]
    BY <2>1 DEF Has
  <2>2. ASSUME Has(q, d)' PROVE Has(q, d)
    <3>1. answer'[q] = answer[q]
      BY <2>2 DEF Has
    <3> QED
      BY <2>2, <3>1 DEF Has
  <2> QED
    BY <2>1, <2>2
<1>2. DeliveredOnce'
  BY <1>0, <1>1 DEF DeliveredOnce
<1>3. PendingIsQueued'
  <2>1. ASSUME pending.id # None, ~pending.delivered, NEW q \in Poll
        PROVE  ~Has(q, pending.id)'
    <3>1. pending.id \in Completion /\ ~Has(q, pending.id)
      BY <1>0, <2>1 DEF PendingIsQueued, BrokerTypeOK
    <3>2. ASSUME NEW d \in Completion, d = pending.id PROVE ~Has(q, d)'
      BY <1>1, <3>1, <3>2
    <3> QED
      BY <3>1, <3>2 DEF Has
  <2> QED
    BY <1>0, <2>1 DEF PendingIsQueued
<1>4. Handed'
  BY <1>0, <1>1 DEF Handed
<1> QED
  BY <1>0, <1>2, <1>3, <1>4, NumberedStays

LEMMA NextWaitsInv ==
  ASSUME IInv, NEW p \in Poll, NEW l \in 1 .. leases, NEW wait \in PollWaits, NextWaits(p, l, wait)
  PROVE  IInv' /\ Stands
<1> DEFINE w == [poll |-> p, lease |-> l, left |-> IF wait < left THEN wait ELSE left]
<1>0. /\ BrokerTypeOK /\ NobodyForgotten /\ Apart /\ Named
  BY DEF IInv
<1>1. /\ answer[p].status = "unused" /\ left > 0 /\ lease = l
      /\ queue' = Append(queue, w)
      /\ answer' = [answer EXCEPT ![p] = [lease |-> l, status |-> "waiting", work |-> None]]
      /\ UNCHANGED <<lease, left, pending, runTerminal, outcome, leases, capable, admitted>>
  BY DEF NextWaits, HasProvider
<1>2. w \in WaiterType /\ w.poll = p /\ w.lease = l
  <2>1. l \in Lease
    BY <1>0, BrokerAssumption DEF BrokerTypeOK, Lease
  <2>2. (IF wait < left THEN wait ELSE left) \in Nat
    BY <1>0, <1>1, BrokerAssumption DEF BrokerTypeOK
  <2> QED
    BY <2>1, <2>2 DEF WaiterType
<1> HIDE DEF w
<1>3. queue \in Seq(WaiterType) /\ Len(queue) \in Nat /\ DOMAIN queue = 1 .. Len(queue)
  BY <1>0, QueueIsSeq DEF BrokerTypeOK, WaiterType
<1>4. /\ queue' \in Seq(WaiterType) /\ DOMAIN queue' = 1 .. Len(queue) + 1
      /\ \A i \in 1 .. Len(queue) : queue'[i] = queue[i]
      /\ queue'[Len(queue) + 1] = w
  BY <1>1, <1>2, <1>3, AppendProperties
<1>5. /\ answer' \in [Poll -> AnswerType]
      /\ answer'[p] = [lease |-> l, status |-> "waiting", work |-> None]
      /\ \A q \in Poll \ {p} : answer'[q] = answer[q]
  <2>1. [lease |-> l, status |-> "waiting", work |-> None] \in AnswerType
    BY <1>1, <1>0 DEF AnswerType, Status, BrokerTypeOK
  <2>2. answer \in [Poll -> AnswerType]
    BY <1>0 DEF BrokerTypeOK, AnswerType
  <2> QED
    BY <1>1, <2>1, <2>2
<1>6. ASSUME NEW i \in 1 .. Len(queue)
      PROVE  queue[i].poll \in Poll \ {p} /\ queue[i].lease = lease
  BY <1>0, <1>1, <1>3, QueueIsSeq DEF NobodyForgotten, WaiterType
<1>7. \A i \in DOMAIN queue' : i \in 1 .. Len(queue) \/ i = Len(queue) + 1
  BY <1>3, <1>4
<1>8. BrokerTypeOK'
  BY <1>0, <1>1, <1>4, <1>5 DEF BrokerTypeOK, AnswerType, WaiterType
<1>9. NobodyForgotten'
  <2>1. \A c \in Completion : outcome'[c] = "queued" <=> (pending'.id = c /\ lease' # None /\ lease' = admitted'[c].lease)
    BY <1>0, <1>1 DEF NobodyForgotten
  <2>2. \A i \in DOMAIN queue' : queue'[i].lease = lease' /\ answer'[queue'[i].poll].status = "waiting"
    BY <1>0, <1>1, <1>2, <1>3, <1>4, <1>5, <1>6, <1>7 DEF NobodyForgotten
  <2>3. ASSUME NEW q \in Poll, answer'[q].status = "waiting"
        PROVE  \E i \in DOMAIN queue' : queue'[i].poll = q
    <3>1. CASE q = p
      <4>1. Len(queue) + 1 \in DOMAIN queue'
        BY <1>3, <1>4
      <4> QED
        BY <3>1, <4>1, <1>2, <1>4
    <3>2. CASE q # p
      <4>1. PICK i \in DOMAIN queue : queue[i].poll = q
        BY <3>2, <2>3, <1>0, <1>5 DEF NobodyForgotten
      <4>2. i \in DOMAIN queue' /\ queue'[i] = queue[i]
        BY <1>3, <1>4
      <4> QED
        BY <4>1, <4>2
    <3> QED
      BY <3>1, <3>2
  <2> QED
    BY <2>1, <2>2, <2>3 DEF NobodyForgotten
<1>10. Apart'
  <2> SUFFICES ASSUME NEW i \in DOMAIN queue', NEW j \in DOMAIN queue', queue'[i].poll = queue'[j].poll
               PROVE  i = j
    BY DEF Apart
  <2>1. CASE i \in 1 .. Len(queue) /\ j \in 1 .. Len(queue)
    BY <2>1, <1>0, <1>3, <1>4 DEF Apart
  <2>2. CASE i \in 1 .. Len(queue) /\ j = Len(queue) + 1
    BY <2>2, <1>2, <1>4, <1>6
  <2>3. CASE i = Len(queue) + 1 /\ j \in 1 .. Len(queue)
    BY <2>3, <1>2, <1>4, <1>6
  <2> QED
    BY <2>1, <2>2, <2>3, <1>7
<1>11. Named'
  BY <1>0, <1>2, <1>3, <1>4, <1>5, <1>6, <1>7 DEF Named
<1>12. DeliveredOnce' /\ PendingIsQueued' /\ Handed' /\ Numbered'
  BY <1>1, <1>5, NothingHanded
<1>13. Stands
  BY <1>1, <1>5 DEF Stands
<1> QED
  BY <1>8, <1>9, <1>10, <1>11, <1>12, <1>13 DEF IInv

LEMMA WaiterTimerInv ==
  ASSUME IInv, NEW i \in DOMAIN queue, WaiterTimer(i)
  PROVE  IInv' /\ Stands
<1> DEFINE p == queue[i].poll
           reply == Heartbeat(queue[i].lease, lease, left, runTerminal)
<1>0. /\ BrokerTypeOK /\ NobodyForgotten /\ Apart /\ Named
  BY DEF IInv
<1>1. /\ queue' = SubSeq(queue, 1, i - 1) \o SubSeq(queue, i + 1, Len(queue))
      /\ answer' = [answer EXCEPT ![p] = Got(p, reply)]
      /\ left' = IF reply.status = "no_request" THEN IdleLease ELSE left
      /\ UNCHANGED <<lease, pending, runTerminal, outcome, leases, capable, admitted>>
  BY DEF WaiterTimer
<1>2. queue \in Seq(WaiterType) /\ Len(queue) \in Nat /\ DOMAIN queue = 1 .. Len(queue)
  BY <1>0, QueueIsSeq DEF BrokerTypeOK, WaiterType
<1>3. /\ queue' \in Seq(WaiterType) /\ DOMAIN queue' = 1 .. Len(queue) - 1
      /\ \A j \in DOMAIN queue' : queue'[j] = IF j < i THEN queue[j] ELSE queue[j + 1]
  BY <1>1, <1>2, TakenOut
<1>4. p \in Poll
  BY <1>0, QueueIsSeq DEF WaiterType
<1>5. reply.work = None /\ reply.status \in {"lease_expired", "closed", "no_request"}
  BY DEF Heartbeat, Reply
<1> HIDE DEF reply
<1>6. /\ answer' \in [Poll -> AnswerType]
      /\ answer'[p].lease = answer[p].lease /\ answer'[p].status = reply.status
      /\ \A q \in Poll \ {p} : answer'[q] = answer[q]
  <2>1. answer[p] \in AnswerType /\ answer \in [Poll -> AnswerType]
    BY <1>0, <1>4 DEF BrokerTypeOK, AnswerType
  <2>2. Got(p, reply) = [lease |-> answer[p].lease, status |-> reply.status, work |-> reply.work]
    <3>1. Got(p, reply) = [answer[p] EXCEPT !.status = reply.status, !.work = reply.work]
      BY DEF Got
    <3> HIDE DEF p
    <3> QED
      BY <2>1, <3>1 DEF AnswerType
  <2>3. Got(p, reply) \in AnswerType
    BY <2>1, <2>2, <1>5 DEF AnswerType, Status
  <2> HIDE DEF p
  <2> QED
    BY <1>1, <1>4, <2>1, <2>2, <2>3
<1>7. \A j \in DOMAIN queue' :
        /\ (IF j < i THEN j ELSE j + 1) \in DOMAIN queue \ {i}
        /\ queue'[j] = queue[IF j < i THEN j ELSE j + 1]
  BY <1>2, <1>3
<1>8. \A k \in DOMAIN queue \ {i} : \E j \in DOMAIN queue' : queue'[j] = queue[k]
  <2> TAKE k \in DOMAIN queue \ {i}
  <2>1. CASE k < i
    <3>1. k \in DOMAIN queue' /\ queue'[k] = queue[k]
      BY <2>1, <1>2, <1>3
    <3> QED
      BY <3>1
  <2>2. CASE ~(k < i)
    <3>1. k - 1 \in DOMAIN queue' /\ ~(k - 1 < i) /\ (k - 1) + 1 = k
      BY <2>2, <1>2, <1>3
    <3>2. queue'[k - 1] = queue[(k - 1) + 1]
      BY <1>3, <3>1
    <3> QED
      BY <3>1, <3>2
  <2> QED
    BY <2>1, <2>2
<1>9. \A k \in DOMAIN queue \ {i} : queue[k].poll \in Poll \ {p}
  BY <1>0, QueueIsSeq DEF Apart, WaiterType
<1> HIDE DEF p
<1>10. BrokerTypeOK'
  BY <1>0, <1>1, <1>3, <1>6, BrokerAssumption DEF BrokerTypeOK, AnswerType, WaiterType
<1>11. NobodyForgotten'
  <2>1. \A c \in Completion : outcome'[c] = "queued" <=> (pending'.id = c /\ lease' # None /\ lease' = admitted'[c].lease)
    BY <1>0, <1>1 DEF NobodyForgotten
  <2>2. ASSUME NEW j \in DOMAIN queue'
        PROVE  queue'[j].lease = lease' /\ answer'[queue'[j].poll].status = "waiting"
    <3>1. PICK k \in DOMAIN queue \ {i} : queue'[j] = queue[k]
      BY <1>7
    <3> QED
      BY <3>1, <1>0, <1>1, <1>6, <1>9 DEF NobodyForgotten
  <2>3. ASSUME NEW q \in Poll, answer'[q].status = "waiting"
        PROVE  \E j \in DOMAIN queue' : queue'[j].poll = q
    <3>1. q # p /\ answer[q].status = "waiting"
      BY <2>3, <1>5, <1>6
    <3>2. PICK k \in DOMAIN queue : queue[k].poll = q
      BY <3>1, <1>0 DEF NobodyForgotten
    <3>3. k # i
      BY <3>1, <3>2 DEF p
    <3> QED
      BY <3>2, <3>3, <1>8
  <2> QED
    BY <2>1, <2>2, <2>3 DEF NobodyForgotten
<1>12. Apart'
  <2> SUFFICES ASSUME NEW j \in DOMAIN queue', NEW k \in DOMAIN queue', queue'[j].poll = queue'[k].poll
               PROVE  j = k
    BY DEF Apart
  <2>1. (IF j < i THEN j ELSE j + 1) = (IF k < i THEN k ELSE k + 1)
    BY <1>0, <1>7 DEF Apart
  <2> QED
    BY <2>1, <1>2, <1>3
<1>13. Named'
  <2> SUFFICES ASSUME NEW j \in DOMAIN queue'
               PROVE  answer'[queue'[j].poll].lease = queue'[j].lease
    BY DEF Named
  <2>1. PICK k \in DOMAIN queue \ {i} : queue'[j] = queue[k]
    BY <1>7
  <2> QED
    BY <2>1, <1>0, <1>6, <1>9 DEF Named
<1>14. answer[p].status = "waiting"
  BY <1>0 DEF NobodyForgotten, p
<1>15. DeliveredOnce' /\ PendingIsQueued' /\ Handed' /\ Numbered'
  BY <1>1, <1>5, <1>6, <1>14, NothingHanded
<1>16. Stands
  BY <1>1, <1>6, <1>14 DEF Stands
<1> QED
  BY <1>10, <1>11, <1>12, <1>13, <1>15, <1>16 DEF IInv

LEMMA TickInv == ASSUME IInv, Tick PROVE IInv' /\ Stands
<1>0. /\ BrokerTypeOK /\ NobodyForgotten /\ Apart /\ Named
  BY DEF IInv
<1>1. UNCHANGED <<lease, runTerminal, outcome, answer, leases, capable, admitted>>
  BY DEF Tick
<1>2. /\ pending' \in PendingType
      /\ pending'.id = pending.id /\ pending'.delivered = pending.delivered
  <2>1. pending \in PendingType
    BY <1>0 DEF BrokerTypeOK, PendingType
  <2> DEFINE x == IF pending.id = None THEN pending.left ELSE Down(pending.left, Floor)
  <2>2. x \in Int
    BY <2>1, BrokerAssumption DEF PendingType, Down, Floor
  <2>3. pending' = [pending EXCEPT !.left = x]
    BY DEF Tick
  <2> HIDE DEF x
  <2> QED
    BY <2>1, <2>2, <2>3 DEF PendingType
<1>3. left' \in Int
  BY <1>0 DEF Tick, BrokerTypeOK, Down
<1>4. queue \in Seq(WaiterType) /\ Len(queue) \in Nat /\ DOMAIN queue = 1 .. Len(queue)
  BY <1>0, QueueIsSeq DEF BrokerTypeOK, WaiterType
<1>5. ASSUME NEW j \in DOMAIN queue
      PROVE  /\ queue'[j] \in WaiterType
             /\ queue'[j].poll = queue[j].poll /\ queue'[j].lease = queue[j].lease
  <2>1. queue[j] \in WaiterType
    BY <1>0, QueueIsSeq
  <2>2. queue'[j] = [queue[j] EXCEPT !.left = Down(queue[j].left, 0)]
    BY DEF Tick
  <2>3. Down(queue[j].left, 0) \in Nat
    BY <2>1 DEF WaiterType, Down
  <2> QED
    BY <2>1, <2>2, <2>3 DEF WaiterType
<1>6. DOMAIN queue' = DOMAIN queue /\ queue' = [j \in 1 .. Len(queue) |-> queue'[j]]
  BY <1>4 DEF Tick
<1>7. queue' \in Seq(WaiterType)
  BY <1>4, <1>5, <1>6, IsASeq
<1>8. BrokerTypeOK'
  BY <1>0, <1>1, <1>2, <1>3, <1>7 DEF BrokerTypeOK, PendingType, WaiterType
<1>9. NobodyForgotten'
  BY <1>0, <1>1, <1>2, <1>5, <1>6 DEF NobodyForgotten
<1>10. Apart' /\ Named'
  BY <1>0, <1>1, <1>5, <1>6 DEF Apart, Named
<1>11. DeliveredOnce' /\ PendingIsQueued' /\ Handed' /\ Numbered'
  BY <1>1, <1>2, NothingHanded
<1> QED
  BY <1>1, <1>8, <1>9, <1>10, <1>11 DEF IInv, Stands

LEMMA StutterInv == ASSUME IInv, UNCHANGED brokerVars PROVE IInv' /\ Stands
  BY DEF IInv, brokerVars, BrokerTypeOK, NobodyForgotten, DeliveredOnce, Apart, Named,
         PendingIsQueued, Handed, Numbered, Queued, Has, Stands

\* close() and the failures, deadlines and cancellations that end a completion.
LEMMA CallerTold ==
  ASSUME IInv, \/ \E l \in Lease : CloseLease(l)
               \/ \E l \in Lease, c \in Completion : CompletePending(l, c) \/ FailPending(l, c)
               \/ Cancel \/ SetRunTerminal \/ LeaseTimer \/ DeadlineTimer
  PROVE  IInv' /\ Stands
<1>0. /\ lease \in Lease \cup {None} /\ None \in Lease \cup {None}
      /\ left \in Int /\ IdleLease \in Int /\ 0 \in Int /\ runTerminal \in BOOLEAN
  BY BrokerAssumption DEF IInv, BrokerTypeOK
<1>1. ASSUME NEW o \in {"lease_expired", "run_terminal"}, NEW t \in BOOLEAN, ExpireLease(o, t),
             UNCHANGED <<leases, capable, admitted>>
      PROVE  IInv' /\ Stands
  <2>1. /\ o \in Outcome \ {"none", "queued"} /\ o \notin {"completed", "provider_failed"}
        /\ Ended(o) /\ WakeNext(None, 0, NoCompletion, t)
    BY <1>1 DEF Outcome, ExpireLease
  <2> QED
    BY <1>0, <1>1, <2>1, EndingInv
<1>2. ASSUME NEW o \in Outcome \ {"none", "queued"},
             o \in {"completed", "provider_failed"} => \E p \in Poll : Has(p, pending.id),
             SettlePending(o), UNCHANGED <<leases, capable, admitted>>
      PROVE  IInv' /\ Stands
  <2> DEFINE x == IF lease = None THEN left ELSE IdleLease
  <2>1. x \in Int /\ Ended(o) /\ WakeNext(lease, x, NoCompletion, runTerminal)
    BY <1>0, <1>2 DEF SettlePending
  <2> HIDE DEF x
  <2> QED
    BY <1>0, <1>2, <2>1, EndingInv
<1>3. CASE \E l \in Lease : CloseLease(l)
  BY <1>0, <1>1, <1>3 DEF CloseLease
<1>4. ASSUME NEW l \in Lease, NEW c \in Completion, CompletePending(l, c) \/ FailPending(l, c)
      PROVE  IInv' /\ Stands
  <2>1. \E p \in Poll : Has(p, pending.id)
    BY <1>4 DEF CompletePending, FailPending, Given, Settles
  <2>2. PICK o \in {"completion_deadline", "completed", "provider_failed"} :
          SettlePending(o) /\ UNCHANGED <<leases, capable, admitted>>
    BY <1>4 DEF CompletePending, FailPending
  <2>3. o \in Outcome \ {"none", "queued"}
    BY DEF Outcome
  <2> QED
    BY <1>2, <2>1, <2>2, <2>3
<1>5. CASE Cancel
  <2>1. "cancelled" \in Outcome \ {"none", "queued"}
    BY DEF Outcome
  <2> QED
    BY <1>2, <1>5, <2>1 DEF Cancel
<1>6. CASE SetRunTerminal
  BY <1>1, <1>6 DEF SetRunTerminal
<1>7. CASE LeaseTimer
  BY <1>0, <1>1, <1>7 DEF LeaseTimer
<1>8. CASE DeadlineTimer
  <2>1. "completion_deadline" \in Outcome \ {"none", "queued"}
    BY DEF Outcome
  <2> QED
    BY <1>2, <1>8, <2>1 DEF DeadlineTimer
<1> QED
  BY <1>3, <1>4, <1>5, <1>6, <1>7, <1>8

LEMMA StepInv == IInv /\ [BrokerNext]_brokerVars => IInv' /\ Stands
<1> SUFFICES ASSUME IInv, [BrokerNext]_brokerVars PROVE IInv' /\ Stands
  OBVIOUS
<1>1. CASE \/ \E l \in Lease : CloseLease(l)
           \/ \E l \in Lease, c \in Completion : CompletePending(l, c) \/ FailPending(l, c)
           \/ Cancel \/ SetRunTerminal \/ LeaseTimer \/ DeadlineTimer
  BY <1>1, CallerTold
<1>2. CASE \E enforces \in BOOLEAN : Open(enforces)
  BY <1>2, OpenInv
<1>3. CASE \E proposalOnly \in BOOLEAN, window \in Windows : QueueCompletion(proposalOnly, window)
  BY <1>3, QueueInv
<1>4. CASE \E p \in Poll : NextPoll(p)
  BY <1>4, NextAtOnceInv, NextWaitsInv DEF NextPoll
<1>5. CASE \E i \in DOMAIN queue : WaiterTimer(i)
  BY <1>5, WaiterTimerInv
<1>6. CASE Tick
  BY <1>6, TickInv
<1>7. CASE UNCHANGED brokerVars
  BY <1>7, StutterInv
<1> QED
  BY <1>1, <1>2, <1>3, <1>4, <1>5, <1>6, <1>7 DEF BrokerNext, Provider, Run, Timers

LEMMA Invariant == BrokerSpec => []IInv
<1>1. IInv /\ [BrokerNext]_brokerVars => IInv'
  BY StepInv
<1> QED
  BY <1>1, InitInv, PTL DEF BrokerSpec

-----------------------------------------------------------------------------
(* Whoever waits is answered once, and by the right one *)

\* Every variable keeps its type, whatever is polled, queued, settled and timed out.
THEOREM TypesHold == BrokerSpec => []BrokerTypeOK
<1>1. IInv => BrokerTypeOK
  BY DEF IInv
<1> QED
  BY <1>1, Invariant, PTL

\* For every number of polls, leases and completions: a caller or a poll that waits
\* is known to the broker, a completion is handed to one poll of the lease that
\* admitted it, and only what was handed out is answered (next(), wakeNext(),
\* queueCompletion(), settlePending(), expireLease()).
THEOREM BrokerPairsOnce == BrokerSpec => []PairedOnce
<1>1. IInv => PairedOnce
  BY DEF IInv, PairedOnce
<1> QED
  BY <1>1, Invariant, PTL

\* What a caller or a poll was told is never taken back or told again: a promise of
\* waitForCompletion() or next() settles once.
THEOREM AnswersStand == BrokerSpec => [][Stands]_brokerVars
<1>1. IInv /\ [BrokerNext]_brokerVars => [Stands]_brokerVars
  BY StepInv
<1> QED
  BY <1>1, Invariant, PTL DEF BrokerSpec

-----------------------------------------------------------------------------
(* A provider that polls as a pump does keeps its lease *)

\* Timers are prompt, and a poll asks for less than the idle window: what next()
\* waits when it is not told otherwise (abmind-ops-dispatch.ts) is well under
\* PROVIDER_IDLE_LEASE_MS.
PumpAssumption == Prompt /\ \A w \in PollWaits : w < IdleLease

\* While a lease is in force its window outlives what the provider is busy with:
\* the one poll that waits, or the completion it works on.
Covered ==
  /\ lease # None => ~runTerminal /\ left > 0
  /\ pending.id # None => lease # None
  /\ lease # None /\ ~Working /\ queue = <<>> => left = IdleLease
  /\ \A i \in DOMAIN queue : queue[i].left < left
  /\ queue # <<>> => Len(queue) = 1 /\ pending.id = None
  /\ Undelivered(pending) => pending.left > 0
  /\ Working => pending.left >= 0 /\ left = pending.left + Grace

\* The waiters are of the lease, and there is none when the lease is gone.
LEMMA WaitersOfLease ==
  ASSUME IInv, Covered
  PROVE  /\ queue \in Seq(WaiterType) /\ DOMAIN queue = 1 .. Len(queue) /\ Len(queue) \in Nat
         /\ queue = <<>> <=> DOMAIN queue = {}
         /\ lease = None => queue = <<>>
         /\ queue # <<>> => DOMAIN queue = {1} /\ queue[1] \in WaiterType /\ queue[1].lease = lease
         /\ left \in Int /\ pending \in PendingType
         /\ None \notin Lease /\ None \notin Completion
<1>1. /\ BrokerTypeOK /\ NobodyForgotten
  BY DEF IInv
<1>2. /\ queue \in Seq(WaiterType) /\ DOMAIN queue = 1 .. Len(queue) /\ Len(queue) \in Nat
      /\ \A i \in DOMAIN queue : queue[i] \in WaiterType
  BY <1>1, QueueIsSeq DEF BrokerTypeOK, WaiterType
<1>3. queue = <<>> <=> DOMAIN queue = {}
  <2>1. queue = <<>> <=> Len(queue) = 0
    BY <1>2, EmptySeq
  <2>2. Len(queue) = 0 => DOMAIN queue = {}
    BY <1>2
  <2>3. Len(queue) # 0 => 1 \in DOMAIN queue
    BY <1>2
  <2> QED
    BY <2>1, <2>2, <2>3
<1>4. None \notin Lease /\ None \notin Completion
  BY DEF None, Lease, Completion
<1>5. queue # <<>> => DOMAIN queue = {1}
  BY <1>2 DEF Covered
<1>6. \A i \in DOMAIN queue : queue[i].lease = lease /\ queue[i].lease \in Lease
  BY <1>1, <1>2 DEF NobodyForgotten, WaiterType
<1>7. left \in Int /\ pending \in PendingType
  BY <1>1 DEF BrokerTypeOK, PendingType
<1> QED
  BY <1>2, <1>3, <1>4, <1>5, <1>6, <1>7

\* A lease that goes leaves nobody covered; one whose completion ends is idle.
LEMMA EndingCovers ==
  ASSUME IInv, Covered,
         \/ Open(TRUE) \/ Open(FALSE) \/ \E l \in Lease : CloseLease(l)
         \/ \E l \in Lease, c \in Completion : CompletePending(l, c) \/ FailPending(l, c)
         \/ Cancel \/ SetRunTerminal \/ LeaseTimer \/ DeadlineTimer
  PROVE  Covered'
<1>0. IdleLease > 0 /\ IdleLease \in Nat /\ None \notin Lease /\ left \in Int /\ leases \in Nat
  BY WaitersOfLease, BrokerAssumption DEF IInv, BrokerTypeOK
<1>1. ~Undelivered(NoCompletion) /\ NoCompletion.id = None
  BY DEF Undelivered, NoCompletion
<1>2. ASSUME queue' = <<>>, pending' = NoCompletion,
             lease' # None => left' = IdleLease /\ ~runTerminal'
      PROVE  Covered'
  <2>1. DOMAIN queue' = {}
    BY <1>2
  <2>2. ~Working' /\ ~Undelivered(pending)' /\ pending'.id = None
    BY <1>1, <1>2 DEF Working, Undelivered
  <2> QED
    BY <1>0, <1>2, <2>1, <2>2 DEF Covered
<1>3. CASE Open(TRUE) \/ Open(FALSE)
  BY <1>2, <1>3 DEF Open
<1>4. ASSUME NEW o \in Outcome, NEW terminal \in BOOLEAN, ExpireLease(o, terminal)
      PROVE  Covered'
  <2>1. queue' = <<>> /\ lease' = None /\ pending' = NoCompletion
    BY <1>1, <1>4 DEF ExpireLease, WakeNext
  <2> QED
    BY <1>2, <2>1
<1>5. ASSUME NEW o \in Outcome, SettlePending(o)
      PROVE  Covered'
  <2>1. queue' = <<>> /\ lease' = lease /\ pending' = NoCompletion /\ runTerminal' = runTerminal
    BY <1>1, <1>5 DEF SettlePending, WakeNext
  <2>2. lease # None => left' = IdleLease
    BY <1>1, <1>5 DEF SettlePending, WakeNext
  <2> QED
    BY <1>2, <2>1, <2>2 DEF Covered
<1>6. runTerminal \in BOOLEAN /\ {"lease_expired", "completion_deadline", "completed", "provider_failed", "cancelled", "run_terminal"} \subseteq Outcome
  BY DEF IInv, BrokerTypeOK, Outcome
<1>7. CASE \/ \E l \in Lease : CloseLease(l)
           \/ SetRunTerminal \/ LeaseTimer
  BY <1>4, <1>6, <1>7 DEF CloseLease, SetRunTerminal, LeaseTimer
<1>8. CASE \/ \E l \in Lease, c \in Completion : CompletePending(l, c) \/ FailPending(l, c)
           \/ Cancel \/ DeadlineTimer
  BY <1>5, <1>6, <1>8 DEF CompletePending, FailPending, Cancel, DeadlineTimer
<1> QED
  BY <1>3, <1>7, <1>8

\* A completion is delivered to the poll that waits, or waits for the next one.
LEMMA QueueCovers ==
  ASSUME IInv, Covered, NEW proposalOnly \in BOOLEAN, NEW window \in Windows,
         QueueCompletion(proposalOnly, window)
  PROVE  Covered'
<1> DEFINE c == NextCompletion
           p == [id |-> c, left |-> window, delivered |-> FALSE]
<1>1. /\ c \in Completion /\ lease # None /\ left > 0 /\ pending.id = None
      /\ WakeNext(lease, left, p, runTerminal)
  BY DEF QueueCompletion, Admits, HasProvider
<1>2. window > 0 /\ window \in Int /\ Grace > 0 /\ Grace \in Int /\ c # None /\ Undelivered(p)
  BY <1>1, BrokerAssumption, WaitersOfLease DEF Undelivered
<1> HIDE DEF c
<1>3. /\ lease' = lease /\ runTerminal' = runTerminal /\ queue' = <<>>
      /\ ~runTerminal /\ ~Working
  BY <1>1 DEF WakeNext, Covered, Working
<1>4. DOMAIN queue' = {}
  BY <1>3
<1>5. CASE queue = <<>>
  <2>1. DOMAIN queue = {} /\ left = IdleLease
    BY <1>1, <1>3, <1>5, WaitersOfLease DEF Covered
  <2>2. pending' = p /\ left' = left
    BY <1>1, <2>1 DEF WakeNext
  <2>3. Undelivered(pending)' /\ ~Working' /\ pending'.left = window
    BY <1>2, <2>2 DEF Undelivered, Working
  <2> QED
    BY <1>1, <1>2, <1>3, <1>4, <2>1, <2>2, <2>3 DEF Covered
<1>6. CASE queue # <<>>
  <2>1. DOMAIN queue = {1} /\ queue[1].lease = lease
    BY <1>6, WaitersOfLease
  <2> DEFINE mine  == {i \in DOMAIN queue : Undelivered(p) /\ queue[i].lease = lease}
             taker == IF mine = {} THEN Len(queue) + 1
                      ELSE CHOOSE i \in mine : \A j \in mine : i <= j
             served == mine # {}
             after == IF served THEN p.left + Grace ELSE left
             reply == [i \in DOMAIN queue |->
                         IF i = taker THEN Work(p.id)
                         ELSE IF Undelivered(p) /\ i < taker THEN Reply("lease_expired")
                         ELSE Heartbeat(queue[i].lease, lease, after, runTerminal)]
  <2>2. mine = {1} /\ served /\ taker = 1
    <3>1. mine = {1}
      BY <1>2, <2>1
    <3> HIDE DEF mine
    <3> QED
      BY <3>1
  <2>3. after = window + Grace
    BY <2>2
  <2>4. pending' = [p EXCEPT !.delivered = TRUE]
    BY <1>1, <2>2 DEF WakeNext
  <2>5. left' = IF \E i \in DOMAIN queue : reply[i].status = "no_request" THEN IdleLease ELSE after
    BY <1>1, Zenon DEF WakeNext
  <2>6. \A i \in DOMAIN queue : reply[i].status = "ok"
    <3> HIDE DEF taker
    <3> QED
      BY <2>1, <2>2 DEF Work
  <2> HIDE DEF reply, after
  <2>7. left' = window + Grace
    BY <2>3, <2>5, <2>6
  <2>8. Working' /\ ~Undelivered(pending)' /\ pending'.left = window
    BY <1>2, <2>4 DEF Undelivered, Working
  <2> QED
    BY <1>1, <1>2, <1>3, <1>4, <2>7, <2>8 DEF Covered
<1> QED
  BY <1>5, <1>6

\* The pump polls when it does not work: its poll takes the completion, renews the
\* idle window, or waits for less than that.
LEMMA PollCovers ==
  ASSUME IInv, Covered, PumpAssumption, queue = <<>>, ~Working,
         NEW p \in Poll, NextPoll(p)
  PROVE  Covered'
<1>1. PICK l \in 1 .. leases, wait \in PollWaits : NextAtOnce(p, l, wait) \/ NextWaits(p, l, wait)
  BY DEF NextPoll
<1>2. /\ l # None /\ left \in Int /\ pending \in PendingType /\ IdleLease \in Nat /\ Grace \in Nat \ {0}
      /\ wait \in Nat /\ wait < IdleLease
  BY <1>1, BrokerAssumption, WaitersOfLease DEF PumpAssumption, None, IInv, BrokerTypeOK
<1>3. lease # None => left = IdleLease /\ left > 0 /\ ~runTerminal
  BY DEF Covered
<1>4. CASE NextAtOnce(p, l, wait)
  <2> DEFINE serves == lease = l /\ left > 0 /\ Undelivered(pending)
  <2>1. /\ queue' = queue /\ lease' = lease /\ runTerminal' = runTerminal
        /\ pending' = [pending EXCEPT !.delivered = @ \/ serves]
    BY <1>4 DEF NextAtOnce
  <2>2. DOMAIN queue' = {}
    BY <2>1
  <2>3. CASE serves
    <3>1. left' = pending.left + Grace /\ pending.left > 0
      BY <1>4, <2>3 DEF NextAtOnce, Covered
    <3>2. pending'.id = pending.id /\ pending'.left = pending.left /\ pending'.delivered
      BY <1>2, <2>1, <2>3 DEF PendingType
    <3>3. lease # None /\ Working' /\ ~Undelivered(pending)'
      BY <1>2, <2>3, <3>2 DEF Working, Undelivered
    <3> QED
      BY <1>2, <1>3, <2>1, <2>2, <3>1, <3>2, <3>3 DEF Covered, PendingType
  <2>4. CASE ~serves
    <3>1. left' = left \/ (left' = IdleLease /\ lease = l)
      BY <1>4, <2>4 DEF NextAtOnce, Heartbeat, Reply
    <3>2. pending' = pending
      BY <1>2, <2>1, <2>4 DEF PendingType
    <3>3. (Working' <=> Working) /\ (Undelivered(pending)' <=> Undelivered(pending))
      BY <3>2 DEF Working, Undelivered
    <3>4. left' = left
      BY <1>2, <1>3, <3>1
    <3> QED
      BY <2>1, <3>2, <3>3, <3>4 DEF Covered
  <2> QED
    BY <2>3, <2>4
<1>5. CASE NextWaits(p, l, wait)
  <2>1. /\ lease = l /\ lease # None /\ left = IdleLease /\ pending.id = None
        /\ UNCHANGED <<lease, left, pending, runTerminal>>
    BY <1>3, <1>5 DEF NextWaits, HasProvider, Undelivered, Working
  <2>2. queue' = <<[poll |-> p, lease |-> l, left |-> wait]>>
    BY <1>2, <1>5, <2>1 DEF NextWaits
  <2>3. DOMAIN queue' = {1} /\ queue'[1].left = wait /\ Len(queue') = 1
    BY <2>2
  <2>4. (Working' <=> Working) /\ ~Undelivered(pending)'
    BY <2>1 DEF Working, Undelivered
  <2> QED
    BY <1>2, <1>3, <2>1, <2>2, <2>3, <2>4 DEF Covered
<1> QED
  BY <1>1, <1>4, <1>5

\* The poll that waited is answered that there is no work, which renews the window.
LEMMA WaiterTimerCovers ==
  ASSUME IInv, Covered, NEW i \in DOMAIN queue, WaiterTimer(i)
  PROVE  Covered'
<1>1. i = 1 /\ Len(queue) = 1 /\ queue[1].lease = lease /\ queue \in Seq(WaiterType) /\ lease # None
  BY WaitersOfLease DEF Covered
<1>2. /\ queue' = SubSeq(queue, 1, i - 1) \o SubSeq(queue, i + 1, Len(queue))
      /\ UNCHANGED <<lease, pending, runTerminal>>
      /\ left' = IdleLease
  <2>1. Heartbeat(queue[i].lease, lease, left, runTerminal) = Reply("no_request")
    <3>1. queue[i].lease = lease /\ left > 0 /\ ~runTerminal /\ left \in Int
      BY <1>1, WaitersOfLease DEF Covered
    <3>2. ~(left <= 0)
      BY <3>1
    <3> QED
      BY <3>1, <3>2 DEF Heartbeat
  <2>2. Reply("no_request").status = "no_request"
    BY DEF Reply
  <2> QED
    BY <2>1, <2>2 DEF WaiterTimer
<1>3. DOMAIN queue' = 1 .. 0 /\ queue' \in Seq(WaiterType)
  BY <1>1, <1>2, TakenOut
<1>4. queue' = <<>> /\ DOMAIN queue' = {}
  BY <1>3, EmptySeq
<1>5. pending.id = None /\ ~Working' /\ ~Undelivered(pending)'
  BY <1>2, <1>1 DEF Covered, Working, Undelivered
<1> QED
  BY <1>1, <1>2, <1>4, <1>5, BrokerAssumption DEF Covered

\* Time passes for the lease as it does for what the provider is busy with.
LEMMA TickCovers ==
  ASSUME IInv, Covered, PumpAssumption, lease # None => queue # <<>> \/ Working, Tick
  PROVE  Covered'
<1>1. /\ lease' = lease /\ runTerminal' = runTerminal /\ ~Due
      /\ left' = Down(left, IF left < 0 THEN left ELSE 0)
      /\ pending' = [pending EXCEPT !.left = IF pending.id = None THEN @ ELSE Down(@, Floor)]
      /\ queue' = [i \in DOMAIN queue |-> [queue[i] EXCEPT !.left = Down(@, 0)]]
  BY DEF Tick, PumpAssumption
<1>2. pending'.id = pending.id /\ pending'.delivered = pending.delivered
  BY <1>1, WaitersOfLease DEF PendingType
<1>3. (Working' <=> Working) /\ (Undelivered(pending)' <=> Undelivered(pending))
  BY <1>2 DEF Working, Undelivered
<1>4. Grace \in Nat \ {0} /\ left \in Int /\ pending.left \in Int
  BY BrokerAssumption, WaitersOfLease DEF PendingType
<1>5. ASSUME pending.id # None, pending.left > 0 PROVE pending'.left = pending.left - 1
  <2>1. pending'.left = Down(pending.left, Floor)
    BY <1>1, <1>5, WaitersOfLease DEF PendingType
  <2> QED
    BY <1>4, <1>5, <2>1 DEF Down, Floor
<1>6. left > 0 => left' = left - 1
  BY <1>1, <1>4 DEF Down
<1>7. CASE lease = None
  <2>1. queue = <<>> /\ DOMAIN queue = {} /\ pending.id = None /\ ~Working /\ ~Undelivered(pending)
    BY <1>7, WaitersOfLease DEF Covered, Working, Undelivered
  <2>2. DOMAIN queue' = {} /\ queue' = <<>>
    BY <1>1, <2>1
  <2> QED
    BY <1>1, <1>2, <1>3, <1>7, <2>1, <2>2 DEF Covered
<1>8. CASE queue # <<>>
  <2>1. DOMAIN queue = {1} /\ queue[1] \in WaiterType /\ Len(queue) = 1 /\ pending.id = None
    BY <1>8, WaitersOfLease DEF Covered
  <2>2. queue[1].left \in Nat /\ queue[1].left > 0 /\ queue[1].left < left
    BY <1>1, <2>1 DEF Due, WaiterType, Covered
  <2>3. queue' = <<[queue[1] EXCEPT !.left = Down(@, 0)]>>
    BY <1>1, <2>1
  <2>4. /\ DOMAIN queue' = {1} /\ Len(queue') = 1 /\ queue' # <<>>
        /\ queue'[1].left = queue[1].left - 1
    BY <2>1, <2>2, <2>3 DEF Down, WaiterType
  <2>5. ~Working /\ ~Undelivered(pending)
    BY <2>1 DEF Working, Undelivered
  <2> QED
    BY <1>1, <1>2, <1>3, <1>4, <1>6, <2>1, <2>2, <2>4, <2>5 DEF Covered
<1>9. CASE Working
  <2>1. pending.id # None /\ queue = <<>> /\ lease # None
    BY <1>9 DEF Working, Covered
  <2>2. pending.left > 0 /\ left = pending.left + Grace /\ ~Undelivered(pending)
    BY <1>1, <1>4, <1>9, <2>1 DEF Covered, Due, Working, Undelivered
  <2>3. pending'.left = pending.left - 1 /\ left' = left - 1
    BY <1>4, <1>5, <1>6, <2>1, <2>2
  <2>4. queue' = <<>> /\ DOMAIN queue' = {}
    BY <1>1, <2>1
  <2> QED
    BY <1>1, <1>2, <1>3, <1>4, <1>9, <2>1, <2>2, <2>3, <2>4 DEF Covered
<1> QED
  BY <1>7, <1>8, <1>9

\* Under a pump a lease in force is never out of time, for all the times and however
\* long the completions take: a poll renews it, and a completion that was delivered
\* extends it past its own deadline (next(), serve(), settlePending()).
THEOREM PumpStaysLive == ASSUME PumpAssumption PROVE PumpSpec => []PumpKeepsLease
<1>1. BrokerInit => IInv /\ Covered
  <2> SUFFICES ASSUME BrokerInit PROVE IInv /\ Covered
    OBVIOUS
  <2>1. queue = <<>> /\ lease = None /\ pending.id = None /\ ~Working /\ ~Undelivered(pending)
    BY DEF BrokerInit, NoCompletion, Working, Undelivered
  <2>2. DOMAIN queue = {}
    BY <2>1
  <2> QED
    BY <2>1, <2>2, InitInv DEF Covered
<1>2. IInv /\ Covered /\ [PumpNext]_brokerVars => IInv' /\ Covered'
  <2> SUFFICES ASSUME IInv, Covered, [PumpNext]_brokerVars PROVE IInv' /\ Covered'
    OBVIOUS
  <2>1. IInv'
    <3>1. [BrokerNext]_brokerVars
      BY DEF PumpNext, BrokerNext
    <3> QED
      BY <3>1, StepInv
  <2>2. ASSUME Provider PROVE Covered'
    BY <2>2, EndingCovers DEF Provider
  <2>3. ASSUME Run PROVE Covered'
    BY <2>3, QueueCovers, EndingCovers DEF Run
  <2>4. ASSUME Timers PROVE Covered'
    BY <2>4, WaiterTimerCovers, EndingCovers DEF Timers
  <2>5. ASSUME queue = <<>> /\ ~Working /\ \E p \in Poll : NextPoll(p) PROVE Covered'
    BY <2>5, PollCovers
  <2>6. ASSUME (lease # None => queue # <<>> \/ Working) /\ Tick PROVE Covered'
    BY <2>6, TickCovers
  <2>7. ASSUME UNCHANGED brokerVars PROVE Covered'
    <3>1. UNCHANGED <<lease, left, pending, queue, runTerminal>>
      BY <2>7 DEF brokerVars
    <3> QED
      BY <3>1 DEF Covered, Working, Undelivered
  <2>8. Covered'
    BY <2>2, <2>3, <2>4, <2>5, <2>6, <2>7 DEF PumpNext
  <2> QED
    BY <2>1, <2>8
<1>3. Covered => PumpKeepsLease
  BY DEF Covered, PumpKeepsLease
<1> QED
  BY <1>1, <1>2, <1>3, PTL DEF PumpSpec

=============================================================================
