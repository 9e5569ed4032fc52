--------------------------- MODULE MCExecutionService ---------------------------
(***************************************************************************)
(* Instances of ExecutionService for TLC: one operator account (APP_USER)  *)
(* and the candidates of one container.                                    *)
(***************************************************************************)
EXTENDS ExecutionService, TLC

CONSTANT k1

OneContainer == [c \in Cand |-> k1]
OneActor == [r \in Req |-> "admin"]

\* Requests differ in nothing but their names.
Symmetry == Permutations(Req)

=============================================================================
