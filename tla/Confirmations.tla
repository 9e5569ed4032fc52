----------------------------- MODULE Confirmations -----------------------------
(***************************************************************************)
(* What the update service promises to those who confirm an update.  A     *)
(* request asks for one operation: one candidate on one live revision.     *)
(* The operation is applied at most once, it is recorded as done only when *)
(* it was, and a request is told so only then.  The record may be lost     *)
(* again, and a request may stay without an answer.  ExecutionService is   *)
(* shown to implement it.                                                  *)
(***************************************************************************)
CONSTANTS
    Req,
    Operation

VARIABLES
    asked,      \* the operation of each request that has confirmed one
    applied,    \* requests that applied their operation
    recorded,   \* operations recorded as done
    told        \* requests that were told that theirs is done

Init ==
    /\ asked = [r \in {} |-> 0]
    /\ applied = {} /\ recorded = {} /\ told = {}

Ask(r, o) ==
    /\ r \notin DOMAIN asked
    /\ asked' = [s \in DOMAIN asked \cup {r} |-> IF s = r THEN o ELSE asked[s]]
    /\ UNCHANGED <<applied, recorded, told>>

\* Operations that have been applied
Done == {asked[s] : s \in applied}

Apply(r) ==
    /\ asked[r] \notin Done
    /\ applied' = applied \cup {r}
    /\ UNCHANGED <<asked, recorded, told>>

Record(o) ==
    /\ o \in Done
    /\ recorded' = recorded \cup {o}
    /\ UNCHANGED <<asked, applied, told>>

\* A retry of the operation fails and overwrites the record.
Retract(o) ==
    /\ recorded' = recorded \ {o}
    /\ UNCHANGED <<asked, applied, told>>

Tell(r) ==
    /\ asked[r] \in Done
    /\ told' = told \cup {r}
    /\ UNCHANGED <<asked, applied, recorded>>

Next ==
    \/ \E r \in Req, o \in Operation : Ask(r, o)
    \/ \E r \in DOMAIN asked : Apply(r) \/ Tell(r)
    \/ \E o \in Operation : Record(o) \/ Retract(o)

Spec == Init /\ [][Next]_<<asked, applied, recorded, told>>

=============================================================================
