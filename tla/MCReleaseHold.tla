----------------------------- MODULE MCReleaseHold -----------------------------
(***************************************************************************)
(* An instance of ReleaseHold for TLC: holds of up to two days.            *)
(***************************************************************************)
EXTENDS ReleaseHold

T(v, short, plain) == [version |-> v, short |-> short, plain |-> plain]

\* 1.0.0, version-1.1.0, 2.0 and 2.0.1
MCTag == {T(<<1, 0, 0>>, FALSE, TRUE), T(<<1, 1, 0>>, FALSE, FALSE),
          T(<<2, 0, 0>>, TRUE, TRUE), T(<<2, 0, 1>>, FALSE, TRUE)}

MCPolicy ==
    [policy : {"all", "patch"}, risk : {"low"}, breaking : {FALSE}, issues : {FALSE}]

MCFirstTag == {T(<<1, 0, 0>>, FALSE, TRUE)}

MCHold == [c \in Change |-> IF c = "patch" THEN 0 ELSE IF c = "minor" THEN 1 ELSE 2]
MCSoak == [patch |-> 1, minor |-> 1, major |-> 3, digest |-> 1]

=============================================================================
