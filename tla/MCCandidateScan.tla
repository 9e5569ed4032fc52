----------------------------- MODULE MCCandidateScan -----------------------------
(***************************************************************************)
(* Instances of CandidateScan for TLC.                                     *)
(***************************************************************************)
EXTENDS CandidateScan, TLC

CONSTANTS s1, s2, m1

\* Scheduled scans and containers differ in nothing but their names.
ScheduledSymmetry == Permutations({s1, s2}) \cup Permutations(Container)

=============================================================================
