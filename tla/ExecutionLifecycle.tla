--------------------------- MODULE ExecutionLifecycle ---------------------------
(***************************************************************************)
(* What the domain layer promises about one execution: the states of       *)
(* ExecutionState and the transition table that transition_execution       *)
(* guards.  UpdateRuntime is shown to implement it.                        *)
(***************************************************************************)

VARIABLE state

ExecutionState ==
    { "queued", "claimed", "preflight", "backup_prepared", "mutation_started",
      "verifying", "succeeded", "rollback_started", "rolled_back", "blocked",
      "failed", "needs_attention" }

\* States without an entry in the code's table have no successor.
Allowed ==
    [ s \in ExecutionState |->
        CASE s = "queued"           -> { "claimed", "blocked" }
          [] s = "claimed"          -> { "preflight", "blocked", "failed" }
          [] s = "preflight"        -> { "backup_prepared", "blocked", "failed" }
          [] s = "backup_prepared"  -> { "mutation_started", "failed" }
          [] s = "mutation_started" -> { "verifying", "rollback_started", "failed" }
          [] s = "verifying"        -> { "succeeded", "rollback_started", "failed" }
          [] s = "rollback_started" -> { "rolled_back", "needs_attention" }
          [] OTHER                  -> {} ]

TerminalExecution ==
    { "succeeded", "rolled_back", "blocked", "failed", "needs_attention" }

Init == state = "queued"

Transition(target) ==
    /\ target \in Allowed[state]
    /\ state' = target

Next == \E target \in ExecutionState : Transition(target)

Spec == Init /\ [][Next]_state

=============================================================================
