------------------------ MODULE RouteControllerProofs ------------------------
(* Machine-checked proofs about RouteController, for every number of        *)
(* generations and every reconnect budget: one attempt and one socket at a  *)
(* time, and the refinement of the abstract Route.                          *)
EXTENDS RouteController, TLAPS

-----------------------------------------------------------------------------
(* The inductive invariant *)

\* A pending attempt is the active one, of a controller that is open.
Pending == \A g \in Gen : promise[g] = "pending" => g = gen /\ active = g /\ ~closed

\* The reconnect timer is armed exactly while the route says that it reconnects.
Timed == timer <=> state_ = "reconnecting"

\* A ready route is bound to its generation, whose attempt is over.
Bound ==
  state_ = "ready" => gen \in Gen /\ promise[gen] = "resolved" /\ caps /\ bound = gen

\* A socket that dials is that of the pending attempt; one that is open is the
\* socket of the current generation, under way or ready; and a handshake is had
\* over a socket that was accepted.
Held ==
  \A g \in Gen :
    /\ link[g] = "dialing" => conn = g /\ promise[g] = "pending"
    /\ link[g] = "open" => sock = g /\ g = gen /\ (promise[g] = "pending" \/ state_ = "ready")
    /\ g \in connected => link[g] # "dialing"
    /\ step[g] # "none" => g \in connected

\* The control exchange is that of the pending attempt.
Exchange ==
  control # None => control = gen /\ promise[gen] = "pending" /\ step[gen] = "control"

\* Nothing is known of the generations to come.
Future ==
  \A g \in Gen : g > gen =>
    /\ link[g] = "none" /\ promise[g] = "none" /\ step[g] = "none"
    /\ g \notin connected \cup wasReady

\* The bound on generations leaves room for a loss and for close().
Room ==
  /\ \A g \in Gen : g \in connected \/ promise[g] = "pending" => g + 2 <= MaxGen
  /\ ~closed => gen < MaxGen

IInv ==
  /\ RouteTypeOK /\ Pending /\ Timed /\ Bound /\ Held /\ Exchange /\ Future /\ Room
  /\ OneAttemptUnderWay /\ LossPublished /\ ControlTimersAreCurrent

-----------------------------------------------------------------------------
(* The initial states satisfy it *)

LEMMA InitInv == RouteInit => IInv
<1> SUFFICES ASSUME RouteInit PROVE IInv
  OBVIOUS
<1>1. RouteTypeOK
  <2>1. state_ \in RouteState /\ {gen, bound, sock, conn, active, control} \subseteq Gen \cup {None}
    BY DEF RouteInit, RouteState, None
  <2>2. caps \in BOOLEAN /\ timer \in BOOLEAN
    BY DEF RouteInit
  <2>3. ctlTimers \cup connected \cup wasReady \cup lost \subseteq Gen /\ attempts \in 0 .. MaxReconnects
    BY RouteAssumption DEF RouteInit
  <2>4. /\ link \in [Gen -> {"none", "dialing", "open", "closing", "gone"}]
        /\ step \in [Gen -> {"none", "auth", "acked", "control", "answered", "refused"}]
        /\ promise \in [Gen -> {"none", "pending", "resolved", "rejected"}]
    BY DEF RouteInit
  <2> QED
    BY <2>1, <2>2, <2>3, <2>4 DEF RouteTypeOK
<1>2. Pending /\ Timed /\ Bound /\ Held /\ Exchange /\ Future
  BY DEF RouteInit, Pending, Timed, Bound, Held, Exchange, Future, None
<1>3. Room
  BY RouteAssumption DEF RouteInit, Room
<1>4. OneAttemptUnderWay /\ LossPublished /\ ControlTimersAreCurrent
  BY DEF RouteInit, OneAttemptUnderWay, LossPublished, ControlTimersAreCurrent
<1> QED
  BY <1>1, <1>2, <1>3, <1>4 DEF IInv

-----------------------------------------------------------------------------
(* Every step keeps it *)

LEMMA NegotiateInv == ASSUME IInv, Negotiate PROVE IInv'
<1> USE DEF Negotiate, Establish, establishing, closed, handshake, binding, history
<1>1. RouteTypeOK'
  <2>1. state_' \in RouteState
    BY DEF IInv, RouteTypeOK, RouteState
  <2>2. caps' \in BOOLEAN
    BY DEF IInv, RouteTypeOK
  <2>3. timer' \in BOOLEAN
    BY DEF IInv, RouteTypeOK
  <2>4. {gen, bound, sock, conn, active, control}' \subseteq Gen \cup {None}
    BY RouteAssumption DEF IInv, RouteTypeOK, Gen, None
  <2>5. (ctlTimers \cup connected \cup wasReady \cup lost)' \subseteq Gen
    BY DEF IInv, RouteTypeOK
  <2>6. attempts' \in 0 .. MaxReconnects
    BY DEF IInv, RouteTypeOK
  <2>7. link' \in [Gen -> {"none", "dialing", "open", "closing", "gone"}]
    BY RouteAssumption DEF IInv, RouteTypeOK, Gen, None
  <2>8. step' \in [Gen -> {"none", "auth", "acked", "control", "answered", "refused"}]
    BY DEF IInv, RouteTypeOK
  <2>9. promise' \in [Gen -> {"none", "pending", "resolved", "rejected"}]
    BY RouteAssumption DEF IInv, RouteTypeOK, Gen, None
  <2> QED
    BY <2>1, <2>2, <2>3, <2>4, <2>5, <2>6, <2>7, <2>8, <2>9 DEF RouteTypeOK
<1>2. Pending'
  BY DEF IInv, Pending
<1>3. Timed'
  BY DEF IInv, Timed
<1>4. Bound'
  BY DEF IInv, Bound
<1>5. Held'
  BY RouteAssumption DEF IInv, RouteTypeOK, Gen, None, Held, Pending, Bound, Future
<1>6. Exchange'
  BY DEF IInv, RouteTypeOK, Exchange
<1>7. Future'
  BY RouteAssumption DEF IInv, RouteTypeOK, Gen, None, Future
<1>8. Room'
  BY RouteAssumption DEF IInv, RouteTypeOK, Gen, None, Room
<1>9. OneAttemptUnderWay'
  BY RouteAssumption DEF IInv, RouteTypeOK, Gen, None, OneAttemptUnderWay
<1>10. LossPublished'
  BY DEF IInv, RouteTypeOK, LossPublished, Pending, Bound
<1>11. ControlTimersAreCurrent'
  BY DEF IInv, ControlTimersAreCurrent
<1> QED
  BY <1>1, <1>2, <1>3, <1>4, <1>5, <1>6, <1>7, <1>8, <1>9, <1>10, <1>11 DEF IInv

LEMMA ReconnectTimerInv == ASSUME IInv, ReconnectTimer PROVE IInv'
<1> USE DEF ReconnectTimer, Establish, handshake, binding, history, closed
<1>1. RouteTypeOK'
  <2>1. state_' \in RouteState
    BY DEF IInv, RouteTypeOK, RouteState
  <2>2. caps' \in BOOLEAN
    BY DEF IInv, RouteTypeOK
  <2>3. timer' \in BOOLEAN
    BY DEF IInv, RouteTypeOK
  <2>4. {gen, bound, sock, conn, active, control}' \subseteq Gen \cup {None}
    BY RouteAssumption DEF IInv, RouteTypeOK, Gen, None
  <2>5. (ctlTimers \cup connected \cup wasReady \cup lost)' \subseteq Gen
    BY DEF IInv, RouteTypeOK
  <2>6. attempts' \in 0 .. MaxReconnects
    BY DEF IInv, RouteTypeOK
  <2>7. link' \in [Gen -> {"none", "dialing", "open", "closing", "gone"}]
    BY RouteAssumption DEF IInv, RouteTypeOK, Gen, None
  <2>8. step' \in [Gen -> {"none", "auth", "acked", "control", "answered", "refused"}]
    BY DEF IInv, RouteTypeOK
  <2>9. promise' \in [Gen -> {"none", "pending", "resolved", "rejected"}]
    BY RouteAssumption DEF IInv, RouteTypeOK, Gen, None
  <2> QED
    BY <2>1, <2>2, <2>3, <2>4, <2>5, <2>6, <2>7, <2>8, <2>9 DEF RouteTypeOK
<1>2. Pending'
  BY DEF IInv, RouteTypeOK, Pending, OneAttemptUnderWay
<1>3. Timed'
  BY DEF IInv, Timed
<1>4. Bound'
  BY DEF IInv, Bound
<1>5. Held'
  BY RouteAssumption
     DEF IInv, RouteTypeOK, Pending, Timed, Bound, Held, Exchange, Future, Room, OneAttemptUnderWay,
         LossPublished, ControlTimersAreCurrent, Gen, None
<1>6. Exchange'
  BY DEF IInv, RouteTypeOK, OneAttemptUnderWay, Exchange
<1>7. Future'
  BY RouteAssumption DEF IInv, RouteTypeOK, Gen, None, Future
<1>8. Room'
  BY RouteAssumption DEF IInv, RouteTypeOK, Gen, None, Room
<1>9. OneAttemptUnderWay'
  BY RouteAssumption DEF IInv, RouteTypeOK, Gen, None, OneAttemptUnderWay
<1>10. LossPublished'
  BY RouteAssumption DEF IInv, RouteTypeOK, Gen, None, LossPublished, Pending, Bound, Timed, Held
<1>11. ControlTimersAreCurrent'
  BY DEF IInv, ControlTimersAreCurrent
<1> QED
  BY <1>1, <1>2, <1>3, <1>4, <1>5, <1>6, <1>7, <1>8, <1>9, <1>10, <1>11 DEF IInv

LEMMA CloseInv == ASSUME IInv, Close PROVE IInv'
<1> USE DEF Close, Shut, Closing, closed, Settled, history
<1>1. RouteTypeOK'
  <2>1. state_' \in RouteState
    BY DEF IInv, RouteTypeOK, RouteState
  <2>2. caps' \in BOOLEAN
    BY DEF IInv, RouteTypeOK
  <2>3. timer' \in BOOLEAN
    BY DEF IInv, RouteTypeOK
  <2>4. {gen, bound, sock, conn, active, control}' \subseteq Gen \cup {None}
    BY RouteAssumption DEF IInv, RouteTypeOK, Gen, None, Room, Pending
  <2>5. (ctlTimers \cup connected \cup wasReady \cup lost)' \subseteq Gen
    BY DEF IInv, RouteTypeOK
  <2>6. attempts' \in 0 .. MaxReconnects
    BY DEF IInv, RouteTypeOK
  <2>7. link' \in [Gen -> {"none", "dialing", "open", "closing", "gone"}]
    BY DEF IInv, RouteTypeOK
  <2>8. step' \in [Gen -> {"none", "auth", "acked", "control", "answered", "refused"}]
    BY DEF IInv, RouteTypeOK
  <2>9. promise' \in [Gen -> {"none", "pending", "resolved", "rejected"}]
    BY DEF IInv, RouteTypeOK
  <2> QED
    BY <2>1, <2>2, <2>3, <2>4, <2>5, <2>6, <2>7, <2>8, <2>9 DEF RouteTypeOK
<1>2. Pending'
  BY DEF IInv, Pending
<1>3. Timed'
  BY DEF IInv, Timed
<1>4. Bound'
  BY DEF IInv, Bound
<1>5. Held'
  BY DEF IInv, Held
<1>6. Exchange'
  BY DEF IInv, Exchange
<1>7. Future'
  BY RouteAssumption DEF IInv, RouteTypeOK, Gen, None, Future
<1>8. Room'
  BY DEF IInv, Room
<1>9. OneAttemptUnderWay'
  BY DEF IInv, RouteTypeOK, OneAttemptUnderWay, Pending, Timed
<1>10. LossPublished'
  BY DEF IInv, LossPublished
<1>11. ControlTimersAreCurrent'
  BY DEF IInv, ControlTimersAreCurrent
<1> QED
  BY <1>1, <1>2, <1>3, <1>4, <1>5, <1>6, <1>7, <1>8, <1>9, <1>10, <1>11 DEF IInv

LEMMA OpenedInv == ASSUME IInv, NEW g \in Gen, Opened(g) PROVE IInv'
<1> USE DEF Opened, Fail, Detach, Reconnecting, Closing, Without, Stale, handshake, binding,
        retry, history, closed, Settled
<1>0. /\ link' \in [Gen -> {"none", "dialing", "open", "closing", "gone"}]
      /\ \A h \in Gen \ {g} :
           link'[h] = link[h] \/ (link'[h] = "closing" /\ link[h] \in {"dialing", "open"})
      /\ link'[g] = "closing" \/ (link'[g] = "open" /\ sock' = g /\ ~Stale(g) /\ UNCHANGED promise)
  <2> DEFINE swept == Closing({sock} \ {g})
  <2>1. /\ swept \in [Gen -> {"none", "dialing", "open", "closing", "gone"}]
        /\ \A h \in Gen :
             swept[h] = link[h] \/ (swept[h] = "closing" /\ link[h] \in {"dialing", "open"})
    BY DEF IInv, RouteTypeOK
  <2>2. CASE Stale(g)
    BY <2>2 DEF IInv, RouteTypeOK
  <2>3. CASE ~Stale(g) /\ link' = Closing({g})
    BY <2>3 DEF IInv, RouteTypeOK
  <2>4. CASE ~Stale(g) /\ link' = [swept EXCEPT ![g] = "open"] /\ sock' = g /\ UNCHANGED promise
    <3> HIDE DEF swept
    <3> QED
      BY <2>1, <2>4
  <2> QED
    BY <2>2, <2>3, <2>4
<1>1. RouteTypeOK'
  <2>1. state_' \in RouteState
    BY DEF IInv, RouteTypeOK, RouteState
  <2>2. caps' \in BOOLEAN
    BY DEF IInv, RouteTypeOK
  <2>3. timer' \in BOOLEAN
    BY DEF IInv, RouteTypeOK
  <2>4. {gen, bound, sock, conn, active, control}' \subseteq Gen \cup {None}
    BY DEF IInv, RouteTypeOK
  <2>5. (ctlTimers \cup connected \cup wasReady \cup lost)' \subseteq Gen
    BY DEF IInv, RouteTypeOK
  <2>6. attempts' \in 0 .. MaxReconnects
    BY DEF IInv, RouteTypeOK
  <2>7. link' \in [Gen -> {"none", "dialing", "open", "closing", "gone"}]
    BY <1>0 DEF IInv, RouteTypeOK
  <2>8. step' \in [Gen -> {"none", "auth", "acked", "control", "answered", "refused"}]
    BY DEF IInv, RouteTypeOK
  <2>9. promise' \in [Gen -> {"none", "pending", "resolved", "rejected"}]
    BY DEF IInv, RouteTypeOK
  <2> QED
    BY <2>1, <2>2, <2>3, <2>4, <2>5, <2>6, <2>7, <2>8, <2>9 DEF RouteTypeOK
<1>2. Pending'
  BY DEF IInv, RouteTypeOK, Pending
<1>3. Timed'
  BY DEF IInv, RouteTypeOK, OneAttemptUnderWay, Timed
<1>4. Bound'
  BY DEF IInv, Bound
<1>5. Held'
  BY <1>0 DEF IInv, RouteTypeOK, Held
<1>6. Exchange'
  BY RouteAssumption DEF IInv, RouteTypeOK, Gen, None, Exchange, Pending, Bound, Timed, Held
<1>7. Future'
  <2>1. gen' = gen /\ wasReady' = wasReady
    OBVIOUS
  <2>2. g <= gen
    BY RouteAssumption DEF IInv, RouteTypeOK, Future, Gen, None
  <2>3. promise' = promise \/ promise' = [promise EXCEPT ![g] = "rejected"]
    OBVIOUS
  <2>4. step' = step \/ step' = [step EXCEPT ![g] = "auth"]
    OBVIOUS
  <2>5. connected' \subseteq connected \cup {g}
    OBVIOUS
  <2>6. ASSUME NEW h \in Gen, h > gen
        PROVE  link'[h] = "none" /\ promise'[h] = "none" /\ step'[h] = "none" /\ h \notin connected'
    <3>1. h # g
      BY <2>2, <2>6, RouteAssumption DEF IInv, RouteTypeOK, Gen, None
    <3>2. link[h] = "none" /\ promise[h] = "none" /\ step[h] = "none" /\ h \notin connected
      BY <2>6 DEF IInv, Future
    <3>3. link'[h] = "none"
      BY <1>0, <3>1, <3>2
    <3> QED
      BY <3>1, <3>2, <3>3, <2>3, <2>4, <2>5 DEF IInv, RouteTypeOK
  <2> QED
    BY <2>1, <2>6 DEF IInv, Future
<1>8. Room'
  BY DEF IInv, RouteTypeOK, Room
<1>9. OneAttemptUnderWay'
  BY DEF IInv, RouteTypeOK, OneAttemptUnderWay
<1>10. LossPublished'
  BY DEF IInv, RouteTypeOK, LossPublished, Pending, Bound
<1>11. ControlTimersAreCurrent'
  BY DEF IInv, ControlTimersAreCurrent
<1> QED
  BY <1>1, <1>2, <1>3, <1>4, <1>5, <1>6, <1>7, <1>8, <1>9, <1>10, <1>11 DEF IInv

LEMMA SocketErrorInv == ASSUME IInv, NEW g \in Gen, SocketError(g) PROVE IInv'
<1> USE DEF SocketError, Fail, Detach, Reconnecting, Closing, Without, Stale, binding, retry,
        history, closed, Settled
<1>1. RouteTypeOK'
  <2>1. state_' \in RouteState
    BY DEF IInv, RouteTypeOK, RouteState
  <2>2. caps' \in BOOLEAN
    BY DEF IInv, RouteTypeOK
  <2>3. timer' \in BOOLEAN
    BY DEF IInv, RouteTypeOK
  <2>4. {gen, bound, sock, conn, active, control}' \subseteq Gen \cup {None}
    BY DEF IInv, RouteTypeOK
  <2>5. (ctlTimers \cup connected \cup wasReady \cup lost)' \subseteq Gen
    BY DEF IInv, RouteTypeOK
  <2>6. attempts' \in 0 .. MaxReconnects
    BY RouteAssumption DEF IInv, RouteTypeOK, Gen, None
  <2>7. link' \in [Gen -> {"none", "dialing", "open", "closing", "gone"}]
    BY DEF IInv, RouteTypeOK
  <2>8. step' \in [Gen -> {"none", "auth", "acked", "control", "answered", "refused"}]
    BY DEF IInv, RouteTypeOK
  <2>9. promise' \in [Gen -> {"none", "pending", "resolved", "rejected"}]
    BY DEF IInv, RouteTypeOK
  <2> QED
    BY <2>1, <2>2, <2>3, <2>4, <2>5, <2>6, <2>7, <2>8, <2>9 DEF RouteTypeOK
<1>2. Pending'
  BY DEF IInv, RouteTypeOK, Pending
<1>3. Timed'
  BY DEF IInv, Timed
<1>4. Bound'
  BY DEF IInv, Bound
<1>5. Held'
  BY DEF IInv, RouteTypeOK, Held
<1>6. Exchange'
  BY DEF IInv, Exchange
<1>7. Future'
  BY DEF IInv, RouteTypeOK, Future
<1>8. Room'
  BY DEF IInv, RouteTypeOK, Room
<1>9. OneAttemptUnderWay'
  BY DEF IInv, RouteTypeOK, OneAttemptUnderWay
<1>10. LossPublished'
  BY DEF IInv, RouteTypeOK, LossPublished, Pending, Bound
<1>11. ControlTimersAreCurrent'
  BY DEF IInv, ControlTimersAreCurrent
<1> QED
  BY <1>1, <1>2, <1>3, <1>4, <1>5, <1>6, <1>7, <1>8, <1>9, <1>10, <1>11 DEF IInv

LEMMA PeerClosesInv == ASSUME IInv, NEW g \in Gen, PeerCloses(g) PROVE IInv'
<1> USE DEF PeerCloses, handshake, binding, retry, history, closed
<1>1. RouteTypeOK'
  <2>1. state_' \in RouteState
    BY DEF IInv, RouteTypeOK
  <2>2. caps' \in BOOLEAN
    BY DEF IInv, RouteTypeOK
  <2>3. timer' \in BOOLEAN
    BY DEF IInv, RouteTypeOK
  <2>4. {gen, bound, sock, conn, active, control}' \subseteq Gen \cup {None}
    BY DEF IInv, RouteTypeOK
  <2>5. (ctlTimers \cup connected \cup wasReady \cup lost)' \subseteq Gen
    BY DEF IInv, RouteTypeOK
  <2>6. attempts' \in 0 .. MaxReconnects
    BY DEF IInv, RouteTypeOK
  <2>7. link' \in [Gen -> {"none", "dialing", "open", "closing", "gone"}]
    BY DEF IInv, RouteTypeOK
  <2>8. step' \in [Gen -> {"none", "auth", "acked", "control", "answered", "refused"}]
    BY DEF IInv, RouteTypeOK
  <2>9. promise' \in [Gen -> {"none", "pending", "resolved", "rejected"}]
    BY DEF IInv, RouteTypeOK
  <2> QED
    BY <2>1, <2>2, <2>3, <2>4, <2>5, <2>6, <2>7, <2>8, <2>9 DEF RouteTypeOK
<1>2. Pending'
  BY DEF IInv, Pending
<1>3. Timed'
  BY DEF IInv, Timed
<1>4. Bound'
  BY DEF IInv, Bound
<1>5. Held'
  BY DEF IInv, Held
<1>6. Exchange'
  BY DEF IInv, Exchange
<1>7. Future'
  BY DEF IInv, Future
<1>8. Room'
  BY DEF IInv, Room
<1>9. OneAttemptUnderWay'
  BY DEF IInv, OneAttemptUnderWay
<1>10. LossPublished'
  BY DEF IInv, LossPublished
<1>11. ControlTimersAreCurrent'
  BY DEF IInv, ControlTimersAreCurrent
<1> QED
  BY <1>1, <1>2, <1>3, <1>4, <1>5, <1>6, <1>7, <1>8, <1>9, <1>10, <1>11 DEF IInv

LEMMA SocketGoneInv == ASSUME IInv, NEW g \in Gen, SocketGone(g) PROVE IInv'
<1> USE DEF SocketGone, LoseRoute, Losing, LostPromises, Shut, Reconnecting, Without, closed,
        Settled, handshake, binding, retry, history
<1>1. RouteTypeOK'
  <2>1. state_' \in RouteState
    BY DEF IInv, RouteTypeOK, RouteState
  <2>2. caps' \in BOOLEAN
    BY DEF IInv, RouteTypeOK
  <2>3. timer' \in BOOLEAN
    BY DEF IInv, RouteTypeOK
  <2>4. {gen, bound, sock, conn, active, control}' \subseteq Gen \cup {None}
    BY RouteAssumption DEF IInv, RouteTypeOK, Gen, None, Room, Pending
  <2>5. (ctlTimers \cup connected \cup wasReady \cup lost)' \subseteq Gen
    BY DEF IInv, RouteTypeOK
  <2>6. attempts' \in 0 .. MaxReconnects
    BY RouteAssumption DEF IInv, RouteTypeOK, Gen, None
  <2>7. link' \in [Gen -> {"none", "dialing", "open", "closing", "gone"}]
    BY DEF IInv, RouteTypeOK
  <2>8. step' \in [Gen -> {"none", "auth", "acked", "control", "answered", "refused"}]
    BY DEF IInv, RouteTypeOK
  <2>9. promise' \in [Gen -> {"none", "pending", "resolved", "rejected"}]
    BY DEF IInv, RouteTypeOK
  <2> QED
    BY <2>1, <2>2, <2>3, <2>4, <2>5, <2>6, <2>7, <2>8, <2>9 DEF RouteTypeOK
<1>2. Pending'
  BY DEF IInv, RouteTypeOK, Pending
<1>3. Timed'
  BY DEF IInv, Timed
<1>4. Bound'
  BY DEF IInv, Bound
<1>5. Held'
  BY DEF IInv, RouteTypeOK, Held, Pending, Bound, Future
<1>6. Exchange'
  BY RouteAssumption DEF IInv, RouteTypeOK, Gen, None, Exchange, Pending, Bound, Timed, Held
<1>7. Future'
  BY RouteAssumption DEF IInv, RouteTypeOK, Gen, None, Future
<1>8. Room'
  BY RouteAssumption DEF IInv, RouteTypeOK, Gen, None, Room
<1>9. OneAttemptUnderWay'
  <2>1. CASE ~closed /\ g = gen /\ g \in connected
    BY <2>1, RouteAssumption DEF IInv, RouteTypeOK, Pending, Timed, OneAttemptUnderWay, Gen, None
  <2>2. CASE ~(~closed /\ g = gen /\ g \in connected) /\ (Settled(g) \/ (~closed /\ g # gen))
    BY <2>2, RouteAssumption DEF IInv, RouteTypeOK, Pending, Timed, OneAttemptUnderWay, Gen, None
  <2>3. CASE ~(~closed /\ g = gen /\ g \in connected) /\ ~(Settled(g) \/ (~closed /\ g # gen))
    BY <2>3, RouteAssumption DEF IInv, RouteTypeOK, Pending, Timed, OneAttemptUnderWay, Gen, None
  <2> QED
    BY <2>1, <2>2, <2>3
<1>10. LossPublished'
  BY DEF IInv, RouteTypeOK, LossPublished, Pending, Bound
<1>11. ControlTimersAreCurrent'
  BY DEF IInv, ControlTimersAreCurrent
<1> QED
  BY <1>1, <1>2, <1>3, <1>4, <1>5, <1>6, <1>7, <1>8, <1>9, <1>10, <1>11 DEF IInv

LEMMA AuthenticatedInv == ASSUME IInv, NEW g \in Gen, Authenticated(g) PROVE IInv'
<1> USE DEF Authenticated, Handshaking, closed, sockets, binding, retry, history
<1>1. RouteTypeOK'
  <2>1. state_' \in RouteState
    BY DEF IInv, RouteTypeOK
  <2>2. caps' \in BOOLEAN
    BY DEF IInv, RouteTypeOK
  <2>3. timer' \in BOOLEAN
    BY DEF IInv, RouteTypeOK
  <2>4. {gen, bound, sock, conn, active, control}' \subseteq Gen \cup {None}
    BY DEF IInv, RouteTypeOK
  <2>5. (ctlTimers \cup connected \cup wasReady \cup lost)' \subseteq Gen
    BY DEF IInv, RouteTypeOK
  <2>6. attempts' \in 0 .. MaxReconnects
    BY DEF IInv, RouteTypeOK
  <2>7. link' \in [Gen -> {"none", "dialing", "open", "closing", "gone"}]
    BY DEF IInv, RouteTypeOK
  <2>8. step' \in [Gen -> {"none", "auth", "acked", "control", "answered", "refused"}]
    BY DEF IInv, RouteTypeOK
  <2>9. promise' \in [Gen -> {"none", "pending", "resolved", "rejected"}]
    BY DEF IInv, RouteTypeOK
  <2> QED
    BY <2>1, <2>2, <2>3, <2>4, <2>5, <2>6, <2>7, <2>8, <2>9 DEF RouteTypeOK
<1>2. Pending'
  BY DEF IInv, Pending
<1>3. Timed'
  BY DEF IInv, Timed
<1>4. Bound'
  BY DEF IInv, Bound
<1>5. Held'
  BY DEF IInv, RouteTypeOK, Held
<1>6. Exchange'
  BY DEF IInv, RouteTypeOK, Exchange
<1>7. Future'
  BY DEF IInv, RouteTypeOK, Future
<1>8. Room'
  BY DEF IInv, Room
<1>9. OneAttemptUnderWay'
  BY DEF IInv, OneAttemptUnderWay
<1>10. LossPublished'
  BY DEF IInv, LossPublished
<1>11. ControlTimersAreCurrent'
  BY DEF IInv, ControlTimersAreCurrent
<1> QED
  BY <1>1, <1>2, <1>3, <1>4, <1>5, <1>6, <1>7, <1>8, <1>9, <1>10, <1>11 DEF IInv

LEMMA StartControlInv == ASSUME IInv, NEW g \in Gen, StartControl(g) PROVE IInv'
<1> USE DEF StartControl, Handshaking, Stale, sockets, binding, retry, history, closed, Settled
<1>1. RouteTypeOK'
  <2>1. state_' \in RouteState
    BY DEF IInv, RouteTypeOK, RouteState
  <2>2. caps' \in BOOLEAN
    BY DEF IInv, RouteTypeOK
  <2>3. timer' \in BOOLEAN
    BY DEF IInv, RouteTypeOK
  <2>4. {gen, bound, sock, conn, active, control}' \subseteq Gen \cup {None}
    BY DEF IInv, RouteTypeOK
  <2>5. (ctlTimers \cup connected \cup wasReady \cup lost)' \subseteq Gen
    BY DEF IInv, RouteTypeOK
  <2>6. attempts' \in 0 .. MaxReconnects
    BY DEF IInv, RouteTypeOK
  <2>7. link' \in [Gen -> {"none", "dialing", "open", "closing", "gone"}]
    BY DEF IInv, RouteTypeOK
  <2>8. step' \in [Gen -> {"none", "auth", "acked", "control", "answered", "refused"}]
    BY DEF IInv, RouteTypeOK
  <2>9. promise' \in [Gen -> {"none", "pending", "resolved", "rejected"}]
    BY DEF IInv, RouteTypeOK
  <2> QED
    BY <2>1, <2>2, <2>3, <2>4, <2>5, <2>6, <2>7, <2>8, <2>9 DEF RouteTypeOK
<1>2. Pending'
  BY DEF IInv, Pending
<1>3. Timed'
  BY DEF IInv, RouteTypeOK, OneAttemptUnderWay, Timed
<1>4. Bound'
  BY DEF IInv, Bound
<1>5. Held'
  BY DEF IInv, RouteTypeOK, Held
<1>6. Exchange'
  BY DEF IInv, RouteTypeOK, Exchange
<1>7. Future'
  BY DEF IInv, RouteTypeOK, Future
<1>8. Room'
  BY DEF IInv, Room
<1>9. OneAttemptUnderWay'
  BY DEF IInv, OneAttemptUnderWay
<1>10. LossPublished'
  BY DEF IInv, RouteTypeOK, LossPublished, Pending, Bound
<1>11. ControlTimersAreCurrent'
  BY RouteAssumption DEF IInv, RouteTypeOK, Gen, None, ControlTimersAreCurrent, Exchange
<1> QED
  BY <1>1, <1>2, <1>3, <1>4, <1>5, <1>6, <1>7, <1>8, <1>9, <1>10, <1>11 DEF IInv

LEMMA ControlAnswerInv == ASSUME IInv, NEW g \in Gen, ControlAnswer(g) PROVE IInv'
<1> USE DEF ControlAnswer, Handshaking, sockets, binding, retry, history, closed
<1>1. RouteTypeOK'
  <2>1. state_' \in RouteState
    BY DEF IInv, RouteTypeOK
  <2>2. caps' \in BOOLEAN
    BY DEF IInv, RouteTypeOK
  <2>3. timer' \in BOOLEAN
    BY DEF IInv, RouteTypeOK
  <2>4. {gen, bound, sock, conn, active, control}' \subseteq Gen \cup {None}
    BY DEF IInv, RouteTypeOK
  <2>5. (ctlTimers \cup connected \cup wasReady \cup lost)' \subseteq Gen
    BY DEF IInv, RouteTypeOK
  <2>6. attempts' \in 0 .. MaxReconnects
    BY DEF IInv, RouteTypeOK
  <2>7. link' \in [Gen -> {"none", "dialing", "open", "closing", "gone"}]
    BY DEF IInv, RouteTypeOK
  <2>8. step' \in [Gen -> {"none", "auth", "acked", "control", "answered", "refused"}]
    BY DEF IInv, RouteTypeOK
  <2>9. promise' \in [Gen -> {"none", "pending", "resolved", "rejected"}]
    BY DEF IInv, RouteTypeOK
  <2> QED
    BY <2>1, <2>2, <2>3, <2>4, <2>5, <2>6, <2>7, <2>8, <2>9 DEF RouteTypeOK
<1>2. Pending'
  BY DEF IInv, Pending
<1>3. Timed'
  BY DEF IInv, Timed
<1>4. Bound'
  BY DEF IInv, Bound
<1>5. Held'
  BY RouteAssumption DEF IInv, RouteTypeOK, Exchange, Gen, None, Held
<1>6. Exchange'
  BY DEF IInv, Exchange
<1>7. Future'
  BY DEF IInv, Future
<1>8. Room'
  BY DEF IInv, Room
<1>9. OneAttemptUnderWay'
  BY DEF IInv, OneAttemptUnderWay
<1>10. LossPublished'
  BY DEF IInv, LossPublished
<1>11. ControlTimersAreCurrent'
  BY DEF IInv, ControlTimersAreCurrent
<1> QED
  BY <1>1, <1>2, <1>3, <1>4, <1>5, <1>6, <1>7, <1>8, <1>9, <1>10, <1>11 DEF IInv

LEMMA ControlTimeoutInv == ASSUME IInv, NEW g \in Gen, ControlTimeout(g) PROVE IInv'
<1> USE DEF ControlTimeout, Handshaking, sockets, binding, retry, history, closed
<1>1. RouteTypeOK'
  <2>1. state_' \in RouteState
    BY DEF IInv, RouteTypeOK
  <2>2. caps' \in BOOLEAN
    BY DEF IInv, RouteTypeOK
  <2>3. timer' \in BOOLEAN
    BY DEF IInv, RouteTypeOK
  <2>4. {gen, bound, sock, conn, active, control}' \subseteq Gen \cup {None}
    BY DEF IInv, RouteTypeOK
  <2>5. (ctlTimers \cup connected \cup wasReady \cup lost)' \subseteq Gen
    BY DEF IInv, RouteTypeOK
  <2>6. attempts' \in 0 .. MaxReconnects
    BY DEF IInv, RouteTypeOK
  <2>7. link' \in [Gen -> {"none", "dialing", "open", "closing", "gone"}]
    BY DEF IInv, RouteTypeOK
  <2>8. step' \in [Gen -> {"none", "auth", "acked", "control", "answered", "refused"}]
    BY DEF IInv, RouteTypeOK
  <2>9. promise' \in [Gen -> {"none", "pending", "resolved", "rejected"}]
    BY DEF IInv, RouteTypeOK
  <2> QED
    BY <2>1, <2>2, <2>3, <2>4, <2>5, <2>6, <2>7, <2>8, <2>9 DEF RouteTypeOK
<1>2. Pending'
  BY DEF IInv, Pending
<1>3. Timed'
  BY DEF IInv, Timed
<1>4. Bound'
  BY DEF IInv, Bound
<1>5. Held'
  BY RouteAssumption
     DEF IInv, RouteTypeOK, Pending, Timed, Bound, Held, Exchange, Future, Room, OneAttemptUnderWay,
         LossPublished, ControlTimersAreCurrent, Gen, None
<1>6. Exchange'
  BY DEF IInv, Exchange
<1>7. Future'
  BY RouteAssumption
     DEF IInv, RouteTypeOK, Pending, Timed, Bound, Held, Exchange, Future, Room, OneAttemptUnderWay,
         LossPublished, ControlTimersAreCurrent, Gen, None
<1>8. Room'
  BY DEF IInv, Room
<1>9. OneAttemptUnderWay'
  BY DEF IInv, OneAttemptUnderWay
<1>10. LossPublished'
  BY DEF IInv, LossPublished
<1>11. ControlTimersAreCurrent'
  BY DEF IInv, ControlTimersAreCurrent
<1> QED
  BY <1>1, <1>2, <1>3, <1>4, <1>5, <1>6, <1>7, <1>8, <1>9, <1>10, <1>11 DEF IInv

LEMMA BecomeReadyInv == ASSUME IInv, NEW g \in Gen, BecomeReady(g) PROVE IInv'
<1> USE DEF BecomeReady, Without, Stale, sockets, binding, closed, Settled
<1>1. RouteTypeOK'
  <2>1. state_' \in RouteState
    BY DEF IInv, RouteTypeOK, RouteState
  <2>2. caps' \in BOOLEAN
    BY DEF IInv, RouteTypeOK
  <2>3. timer' \in BOOLEAN
    BY DEF IInv, RouteTypeOK
  <2>4. {gen, bound, sock, conn, active, control}' \subseteq Gen \cup {None}
    BY DEF IInv, RouteTypeOK
  <2>5. (ctlTimers \cup connected \cup wasReady \cup lost)' \subseteq Gen
    BY DEF IInv, RouteTypeOK
  <2>6. attempts' \in 0 .. MaxReconnects
    BY RouteAssumption DEF IInv, RouteTypeOK, Gen, None
  <2>7. link' \in [Gen -> {"none", "dialing", "open", "closing", "gone"}]
    BY DEF IInv, RouteTypeOK
  <2>8. step' \in [Gen -> {"none", "auth", "acked", "control", "answered", "refused"}]
    BY DEF IInv, RouteTypeOK
  <2>9. promise' \in [Gen -> {"none", "pending", "resolved", "rejected"}]
    BY DEF IInv, RouteTypeOK
  <2> QED
    BY <2>1, <2>2, <2>3, <2>4, <2>5, <2>6, <2>7, <2>8, <2>9 DEF RouteTypeOK
<1>2. Pending'
  BY DEF IInv, RouteTypeOK, Pending
<1>3. Timed'
  BY DEF IInv, RouteTypeOK, OneAttemptUnderWay, Timed
<1>4. Bound'
  BY DEF IInv, RouteTypeOK, Bound
<1>5. Held'
  BY DEF IInv, RouteTypeOK, Held
<1>6. Exchange'
  BY DEF IInv, Exchange
<1>7. Future'
  BY DEF IInv, RouteTypeOK, Future
<1>8. Room'
  BY DEF IInv, RouteTypeOK, Room
<1>9. OneAttemptUnderWay'
  BY DEF IInv, RouteTypeOK, OneAttemptUnderWay
<1>10. LossPublished'
  BY DEF IInv, LossPublished
<1>11. ControlTimersAreCurrent'
  BY DEF IInv, ControlTimersAreCurrent
<1> QED
  BY <1>1, <1>2, <1>3, <1>4, <1>5, <1>6, <1>7, <1>8, <1>9, <1>10, <1>11 DEF IInv

LEMMA HandshakeFailsInv == ASSUME IInv, NEW g \in Gen, HandshakeFails(g) PROVE IInv'
<1> USE DEF HandshakeFails, Fail, Detach, Reconnecting, Closing, Without, Stale, binding,
        retry, history, closed, Settled
<1>1. RouteTypeOK'
  <2>1. state_' \in RouteState
    BY DEF IInv, RouteTypeOK, RouteState
  <2>2. caps' \in BOOLEAN
    BY DEF IInv, RouteTypeOK
  <2>3. timer' \in BOOLEAN
    BY DEF IInv, RouteTypeOK
  <2>4. {gen, bound, sock, conn, active, control}' \subseteq Gen \cup {None}
    BY DEF IInv, RouteTypeOK
  <2>5. (ctlTimers \cup connected \cup wasReady \cup lost)' \subseteq Gen
    BY DEF IInv, RouteTypeOK
  <2>6. attempts' \in 0 .. MaxReconnects
    BY DEF IInv, RouteTypeOK
  <2>7. link' \in [Gen -> {"none", "dialing", "open", "closing", "gone"}]
    BY DEF IInv, RouteTypeOK
  <2>8. step' \in [Gen -> {"none", "auth", "acked", "control", "answered", "refused"}]
    BY DEF IInv, RouteTypeOK
  <2>9. promise' \in [Gen -> {"none", "pending", "resolved", "rejected"}]
    BY DEF IInv, RouteTypeOK
  <2> QED
    BY <2>1, <2>2, <2>3, <2>4, <2>5, <2>6, <2>7, <2>8, <2>9 DEF RouteTypeOK
<1>2. Pending'
  BY DEF IInv, RouteTypeOK, Pending
<1>3. Timed'
  BY DEF IInv, RouteTypeOK, OneAttemptUnderWay, Timed
<1>4. Bound'
  BY DEF IInv, Bound
<1>5. Held'
  BY DEF IInv, RouteTypeOK, Held
<1>6. Exchange'
  BY DEF IInv, Exchange
<1>7. Future'
  BY DEF IInv, RouteTypeOK, Future
<1>8. Room'
  BY DEF IInv, RouteTypeOK, Room
<1>9. OneAttemptUnderWay'
  BY DEF IInv, RouteTypeOK, OneAttemptUnderWay
<1>10. LossPublished'
  BY DEF IInv, RouteTypeOK, LossPublished, Pending, Bound
<1>11. ControlTimersAreCurrent'
  BY DEF IInv, ControlTimersAreCurrent
<1> QED
  BY <1>1, <1>2, <1>3, <1>4, <1>5, <1>6, <1>7, <1>8, <1>9, <1>10, <1>11 DEF IInv

LEMMA StutterInv == ASSUME IInv, UNCHANGED controllerVars PROVE IInv'
  BY DEF controllerVars, sockets, handshake, binding, retry, history, IInv, RouteTypeOK, Pending,
         Timed, Bound, Held, Exchange, Future, Room, OneAttemptUnderWay, LossPublished,
         ControlTimersAreCurrent, closed

LEMMA StepInv == IInv /\ [RouteNext]_controllerVars => IInv'
<1> SUFFICES ASSUME IInv, [RouteNext]_controllerVars PROVE IInv'
  OBVIOUS
<1>1. CASE Negotiate
  BY <1>1, NegotiateInv
<1>2. CASE ReconnectTimer
  BY <1>2, ReconnectTimerInv
<1>3. CASE Close
  BY <1>3, CloseInv
<1>4. ASSUME NEW g \in Gen,
             \/ Opened(g) \/ SocketError(g) \/ PeerCloses(g) \/ SocketGone(g)
             \/ Authenticated(g) \/ StartControl(g) \/ ControlAnswer(g)
             \/ ControlTimeout(g) \/ BecomeReady(g) \/ HandshakeFails(g)
      PROVE  IInv'
  BY <1>4, OpenedInv, SocketErrorInv, PeerClosesInv, SocketGoneInv, AuthenticatedInv,
     StartControlInv, ControlAnswerInv, ControlTimeoutInv, BecomeReadyInv, HandshakeFailsInv
<1>5. CASE UNCHANGED controllerVars
  BY <1>5, StutterInv
<1> QED
  BY <1>1, <1>2, <1>3, <1>4, <1>5 DEF RouteNext

LEMMA Invariant == RouteSpec => []IInv
<1> QED
  BY InitInv, StepInv, PTL DEF RouteSpec

-----------------------------------------------------------------------------
(* One attempt, one socket, and every loss told *)

\* Every variable keeps its type whatever events come in whatever order.
THEOREM TypesHold == RouteSpec => []RouteTypeOK
<1>1. IInv => RouteTypeOK
  BY DEF IInv
<1> QED
  BY <1>1, Invariant, PTL

\* For every number of generations: one attempt under way and never none when one
\* is due, no socket that nobody holds, every loss of a ready generation told to
\* the transport, no timer of a control exchange that is over (establish(),
\* scheduleReconnect(), loseRoute(), detachSocket() of the route controller).
THEOREM OneSocketLives == RouteSpec => []OneLiveSocket
<1>1. IInv => OneLiveSocket
  BY DEF IInv, Held, OneLiveSocket, GenerationsEnd, NoOrphanSocket
<1> QED
  BY <1>1, Invariant, PTL

-----------------------------------------------------------------------------
(* The refinement of Route *)

LEMMA Under == ASSUME IInv, NEW g \in Gen, ~Stale(g)
               PROVE  state_ # "ready" /\ g = gen
  BY DEF IInv, RouteTypeOK, Bound, Stale, Settled

LEMMA CountsGenerations == ASSUME IInv PROVE gen \in Nat
  BY RouteAssumption DEF IInv, RouteTypeOK, Gen, None

LEMMA InitMaps == RouteInit => Abstract!Init
  BY DEF RouteInit, Abstract!Init, RouteOf

\* Away from ready, a step that stays away and does not go back is work.
LEMMA WorkMaps == ASSUME state_ # "ready", state_' # "ready", gen' \in Nat, gen' >= gen
                  PROVE  Abstract!Next
  BY DEF Abstract!Next, Abstract!Work, RouteOf

\* A step that keeps the state and the current socket's link is not seen.
LEMMA UnseenMaps == ASSUME UNCHANGED <<state_, gen>>, link'[gen] = "open" <=> link[gen] = "open"
                    PROVE  UNCHANGED <<RouteOf, gen>>
  BY DEF RouteOf

\* A step to another state under a later number is work or a loss.
LEMMA LossMaps == ASSUME gen \in Nat, gen' \in Nat, gen' > gen, state_' # "ready"
                  PROVE  Abstract!Next
  BY DEF Abstract!Next, Abstract!Work, Abstract!Lost, RouteOf

LEMMA StepMaps ==
  IInv /\ IInv' /\ [RouteNext]_controllerVars => [Abstract!Next]_<<RouteOf, gen>>
<1> SUFFICES ASSUME IInv, IInv', [RouteNext]_controllerVars
             PROVE  Abstract!Next \/ UNCHANGED <<RouteOf, gen>>
  OBVIOUS
<1>n. gen \in Nat /\ gen' \in Nat
  BY CountsGenerations DEF IInv, RouteTypeOK, Gen, None
<1>1. CASE Negotiate
  <2>1. gen' = gen + 1 /\ state_' = "connecting"
    BY <1>1 DEF Negotiate, Establish
  <2> QED
    BY <2>1, <1>n, LossMaps
<1>2. CASE ReconnectTimer
  <2>1. gen' = gen + 1 /\ state_' = "connecting"
    BY <1>2 DEF ReconnectTimer, Establish
  <2> QED
    BY <2>1, <1>n, LossMaps
<1>3. CASE Close
  <2>1. gen' = gen + 1 /\ state_' = "closed"
    BY <1>3 DEF Close, Shut
  <2> QED
    BY <2>1, <1>n, LossMaps
<1>4. ASSUME NEW g \in Gen, Opened(g)
      PROVE  Abstract!Next \/ UNCHANGED <<RouteOf, gen>>
  <2>1. CASE Stale(g)
    <3>1. /\ UNCHANGED <<state_, gen>>
          /\ link[g] = "dialing" /\ link' = [link EXCEPT ![g] = "closing"]
      BY <1>4, <2>1 DEF Opened
    <3> QED
      BY <3>1, UnseenMaps DEF IInv, RouteTypeOK
  <2>2. CASE ~Stale(g)
    <3>1. gen' = gen /\ state_' # "ready"
      BY <1>4, <2>2 DEF Opened, Fail
    <3> QED
      BY <3>1, <2>2, <1>n, Under, WorkMaps
  <2> QED
    BY <2>1, <2>2
<1>5. ASSUME NEW g \in Gen, SocketError(g)
      PROVE  Abstract!Next \/ UNCHANGED <<RouteOf, gen>>
  <2>1. CASE Stale(g)
    <3>1. /\ UNCHANGED <<state_, gen>>
          /\ link[g] = "dialing" /\ link' = [link EXCEPT ![g] = "closing"]
      BY <1>5, <2>1 DEF SocketError
    <3> QED
      BY <3>1, UnseenMaps DEF IInv, RouteTypeOK
  <2>2. CASE ~Stale(g)
    <3>1. gen' = gen /\ state_' # "ready"
      BY <1>5, <2>2, Under DEF SocketError, Fail, Reconnecting
    <3> QED
      BY <3>1, <2>2, <1>n, Under, WorkMaps
  <2> QED
    BY <2>1, <2>2
<1>6. ASSUME NEW g \in Gen, PeerCloses(g)
      PROVE  Abstract!Next \/ UNCHANGED <<RouteOf, gen>>
  <2>1. /\ UNCHANGED <<state_, gen>>
        /\ link[g] = "open" /\ link' = [link EXCEPT ![g] = "closing"]
    BY <1>6 DEF PeerCloses
  <2>2. CASE g = gen /\ state_ = "ready"
    BY <2>1, <2>2 DEF IInv, RouteTypeOK, RouteOf, Abstract!Next, Abstract!SocketCloses
  <2>3. CASE ~(g = gen /\ state_ = "ready")
    BY <2>1, <2>3 DEF IInv, RouteTypeOK, RouteOf
  <2> QED
    BY <2>2, <2>3
<1>7. ASSUME NEW g \in Gen, SocketGone(g)
      PROVE  Abstract!Next \/ UNCHANGED <<RouteOf, gen>>
  <2>1. CASE ~closed /\ g = gen /\ g \in connected
    <3>1. gen' > gen /\ state_' # "ready"
      BY <1>7, <2>1, <1>n DEF SocketGone, LoseRoute, Losing, Shut, Reconnecting
    <3> QED
      BY <3>1, <1>n, LossMaps
  <2>2. CASE ~(~closed /\ g = gen /\ g \in connected)
    <3>1. /\ gen' = gen
          /\ link[g] # "open" /\ link' = [link EXCEPT ![g] = "gone"]
      BY <1>7, <2>2 DEF SocketGone
    <3>2. CASE state_' = state_
      BY <3>1, <3>2, UnseenMaps DEF IInv, RouteTypeOK
    <3>3. CASE state_' # state_
      <4>1. ~Stale(g) /\ state_' # "ready"
        BY <1>7, <2>2, <3>3 DEF SocketGone, Reconnecting, Stale
      <4> QED
        BY <4>1, <3>1, <1>n, Under, WorkMaps
    <3> QED
      BY <3>2, <3>3
  <2> QED
    BY <2>1, <2>2
<1>8. ASSUME NEW g \in Gen, StartControl(g)
      PROVE  Abstract!Next \/ UNCHANGED <<RouteOf, gen>>
  <2>1. gen' = gen /\ link' = link
    BY <1>8 DEF StartControl, Handshaking, sockets
  <2>2. CASE Stale(g)
    BY <1>8, <2>1, <2>2, UnseenMaps DEF StartControl
  <2>3. CASE ~Stale(g)
    <3>1. state_' = "negotiating"
      BY <1>8, <2>3 DEF StartControl
    <3> QED
      BY <3>1, <2>1, <2>3, <1>n, Under, WorkMaps
  <2> QED
    BY <2>2, <2>3
<1>9. ASSUME NEW g \in Gen, Authenticated(g) \/ ControlAnswer(g) \/ ControlTimeout(g)
      PROVE  Abstract!Next \/ UNCHANGED <<RouteOf, gen>>
  BY <1>9 DEF Authenticated, ControlAnswer, ControlTimeout, Handshaking, sockets, RouteOf
<1>10. ASSUME NEW g \in Gen, BecomeReady(g)
       PROVE  Abstract!Next \/ UNCHANGED <<RouteOf, gen>>
  <2>1. gen' = gen /\ link' = link
    BY <1>10 DEF BecomeReady, sockets
  <2>2. CASE Stale(g)
    BY <1>10, <2>1, <2>2, UnseenMaps DEF BecomeReady
  <2>3. CASE ~Stale(g)
    <3>1. state_' = "ready"
      BY <1>10, <2>3 DEF BecomeReady
    <3> QED
      BY <3>1, <2>1, <2>3, Under DEF RouteOf, Abstract!Next, Abstract!Ready
  <2> QED
    BY <2>2, <2>3
<1>11. ASSUME NEW g \in Gen, HandshakeFails(g)
       PROVE  Abstract!Next \/ UNCHANGED <<RouteOf, gen>>
  <2>1. CASE Stale(g)
    BY <1>11, <2>1 DEF HandshakeFails, RouteOf
  <2>2. CASE ~Stale(g)
    <3>1. gen' = gen /\ state_' # "ready"
      BY <1>11, <2>2 DEF HandshakeFails, Fail
    <3> QED
      BY <3>1, <2>2, <1>n, Under, WorkMaps
  <2> QED
    BY <2>1, <2>2
<1>12. CASE UNCHANGED controllerVars
  BY <1>12 DEF controllerVars, sockets, RouteOf
<1> QED
  BY <1>1, <1>2, <1>3, <1>4, <1>5, <1>6, <1>7, <1>8, <1>9, <1>10, <1>11, <1>12 DEF RouteNext

\* The controller does what SignedWssTransport relies on of its route: it is ready
\* for one generation at a time, a generation that was ready never is again, and
\* what follows a loss has another number.
THEOREM RouteRefined == RouteSpec => ImplementsRoute
<1>1. RouteInit => Abstract!Init
  BY InitMaps
<1>2. IInv /\ IInv' /\ [RouteNext]_controllerVars => [Abstract!Next]_<<RouteOf, gen>>
  BY StepMaps
<1> QED
  BY <1>1, <1>2, Invariant, PTL DEF RouteSpec, ImplementsRoute, Abstract!Spec

=============================================================================
