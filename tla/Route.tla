------------------------------ MODULE Route ------------------------------
(***************************************************************************)
(* What the signed transport may rely on of its route: it is ready for one *)
(* generation at a time, a generation that was ready never is again, and   *)
(* the generation that follows a loss has another number.  RouteController *)
(* implements this; SignedWssTransport uses a route that does.             *)
(***************************************************************************)
EXTENDS Naturals

VARIABLES route,  \* "down", "ready", or "closing": negotiated on a closing socket
          gen     \* the generation

TypeOK == route \in {"down", "ready", "closing"} /\ gen \in Nat

Init == route = "down" /\ gen = 0

\* Dialing, failing and giving up may use up generations; none becomes ready.
Work == route = "down" /\ route' = "down" /\ gen' \in Nat /\ gen' >= gen

\* The peer may have begun to close the socket by then.
Ready == route = "down" /\ route' \in {"ready", "closing"} /\ gen' = gen

SocketCloses == route = "ready" /\ route' = "closing" /\ gen' = gen

Lost == route # "down" /\ route' = "down" /\ gen' \in Nat /\ gen' > gen

Next == Work \/ Ready \/ SocketCloses \/ Lost

Spec == Init /\ [][Next]_<<route, gen>>
=============================================================================
