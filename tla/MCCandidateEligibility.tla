------------------------- MODULE MCCandidateEligibility -------------------------
(***************************************************************************)
(* An instance of CandidateEligibility for TLC: label sets of each kind,   *)
(* overrides and gates that open and close, rows of WUD that pass each     *)
(* test but one.                                                           *)
(***************************************************************************)
EXTENDS CandidateEligibility

Set(version, policy, research, optional, risk) ==
    [version |-> version, policy |-> policy, research |-> research,
     optional |-> optional, risk |-> risk]

V123 == [major |-> 1, minor |-> 2, patch |-> 3]
V124 == [major |-> 1, minor |-> 2, patch |-> 4]

MCImage == [repository |-> "app", tag |-> V123]
MCVersion == {V123, V124}
MCWord == Risks \cup Policies \cup {"auto", "invalid", "none", "notes", "valid", "malformed"}

MCLabelSet == {
    Set(None, None, None, None, None),
    Set(None, "patch", None, None, "low"),
    Set("minor", "auto", "none", "valid", None),
    Set("minor", "auto", "none", "malformed", "low")}

MCReport == {
    [change |-> "patch", tag |-> V124, status |-> "running"],
    [change |-> "patch", tag |-> V124, status |-> "exited"],
    [change |-> "digest", tag |-> None, status |-> "running"]}

MCOverride == {[policy |-> "minor", risk |-> "low"], [policy |-> "patch", risk |-> "critical"]}

MCGateForm == {
    [low |-> {"patch", "minor"}, research |-> {}],
    [low |-> {"minor"}, research |-> {"medium", "high", "critical"}]}

=============================================================================
