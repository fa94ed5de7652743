------------------------------ MODULE AuditLog ------------------------------
(***************************************************************************)
(* What the audit service promises its callers, whatever it does inside:   *)
(* an accepted event is pending until it is persisted, what is persisted   *)
(* stays, and an event is lost only when more events are pending than the  *)
(* service has room for in memory, when an event the spool file kept takes *)
(* that room a second time, when it is written to the spool file behind    *)
(* half a line, or when the service is restarted.                          *)
(***************************************************************************)
EXTENDS Naturals, FiniteSets

CONSTANTS Events, Capacity

VARIABLES
    pending, persisted, lost,
    torn,      \* the spool file failed half way: an event may be queued twice
    half,      \* the spool file ends in half a line
    restarts

Init ==
    /\ pending = {} /\ persisted = {} /\ lost = {}
    /\ torn = FALSE /\ half = FALSE /\ restarts = 0

\* POST /events takes an event.
Accept(e) ==
    /\ e \notin pending \cup persisted \cup lost
    /\ pending' = pending \cup {e}
    /\ UNCHANGED <<persisted, lost, torn, half, restarts>>

\* S reaches the table; a member whose insert was not acknowledged stays
\* pending and will be inserted again.
Persist(S, unacknowledged) ==
    /\ persisted' = persisted \cup S
    /\ pending' = pending \ (S \ unacknowledged)
    /\ UNCHANGED <<lost, torn, half, restarts>>

Forget(S) ==
    /\ pending' = pending \ S
    /\ lost' = lost \cup (S \ persisted)
    /\ UNCHANGED <<persisted, torn>>

Overflow(S) ==
    /\ Cardinality(pending) > Capacity \/ torn
    /\ Forget(S)
    /\ UNCHANGED <<half, restarts>>

\* What is written behind half a line completes it, and is lost with it.
Complete(S) ==
    /\ half /\ ~half'
    /\ \A d, e \in S : d = e
    /\ Forget(S)
    /\ UNCHANGED restarts

Restart(S) == Forget(S) /\ half' \in {half, TRUE} /\ restarts' = restarts + 1

\* A write or a removal of the spool file that fails half way.
Tear ==
    /\ \/ torn' = TRUE /\ UNCHANGED half
       \/ half' = TRUE /\ UNCHANGED torn
    /\ UNCHANGED <<pending, persisted, lost, restarts>>

Next ==
    \/ Tear
    \/ \E e \in Events : Accept(e)
    \/ \E S \in SUBSET pending :
          \/ \E U \in SUBSET S : Persist(S, U)
          \/ Overflow(S)
          \/ Complete(S)
          \/ Restart(S)

Spec == Init /\ [][Next]_<<pending, persisted, lost, torn, half, restarts>>
=============================================================================
