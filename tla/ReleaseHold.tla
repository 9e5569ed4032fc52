------------------------------ MODULE ReleaseHold ------------------------------
(***************************************************************************)
(* How long a release is held back.  The library has two answers: the      *)
(* service's hold (evaluate_candidate with hold_decision and the           *)
(* resolver's timestamps) and the domain's soak (classify).  A candidate   *)
(* names the tag that WUD or an imported report gives.  Here tags are      *)
(* published, days pass, and a candidate is recorded, retargeted and       *)
(* installed, so that what the functions answer on one day is compared     *)
(* with what they answer later, with each other, and with when a tag       *)
(* really appeared.                                                        *)
(***************************************************************************)
EXTENDS Integers, FiniteSets

CONSTANTS
    Tag,            \* tags of the repository
    FirstTag,       \* tags that may run at first
    Policy,         \* what PolicySpec may say of the workload
    Hold,           \* global_holds, in days
    Soak,           \* PolicySpec.soak_*_days
    RowSoak,        \* values of candidates.soak_days, 0 for none
    None,
    MaxDay          \* bound: days

Change == {"patch", "minor", "major"}
Version == Nat \X Nat \X Nat

\* A tag as the regular expressions see it: its version, None if it has none;
\* whether the third component is left out; and whether the whole tag is a
\* semantic version with at most a -x or +x, so that version-1.1.0 is not plain.
ASSUME HoldAssumption ==
    /\ Tag \subseteq [version : Version \cup {None}, short : BOOLEAN, plain : BOOLEAN]
    /\ FirstTag \subseteq Tag
    /\ Policy \subseteq [policy : STRING \cup {None}, risk : STRING \cup {None},
                         breaking : BOOLEAN, issues : BOOLEAN]
    /\ Hold \in [Change -> 0 .. 365]
    /\ Soak \in [Change \cup {"digest"} -> Nat]
    /\ RowSoak \subseteq 0 .. 365
    /\ None \notin Tag /\ None \notin Version /\ None \notin Int

\* HOLD_DAYS_* and the soaks rise from patch to major, and no soak is shorter
\* than the hold, as in the defaults (2, 7, 14 and 7, 14, 30).
ASSUME DefaultsAssumption ==
    /\ Hold["patch"] <= Hold["minor"] /\ Hold["minor"] <= Hold["major"]
    /\ \A c \in Change : Hold[c] <= Soak[c]

VARIABLES
    today,
    published,  \* the day each tag appeared, None before
    stamped,    \* tags whose metadata tells that day
    installed,  \* the tag that runs
    \* the candidate's row
    target, firstSeen, soak

vars == <<today, published, stamped, installed, target, firstSeen, soak>>

---------------------------------------------------------------------------
\* Versions and their changes

\* Python's order of version tuples; bump_type returns NONE unless new > old.
Newer(v, w) ==
    \/ v[1] > w[1]
    \/ v[1] = w[1] /\ v[2] > w[2]
    \/ v[1] = w[1] /\ v[2] = w[2] /\ v[3] > w[3]

\* version_tuple
VersionTuple(t) == t.version

\* vnext_policy.semver: the whole tag is a version, with at most a -x or +x.
Semver(t) == IF t.plain THEN t.version ELSE None

\* resolver parse_version: the third component may not be left out.
ParseVersion(t) == IF t.plain /\ ~ t.short THEN t.version ELSE None

\* Mutant of Component: a changed patch number makes every update a patch.
PatchFirst(v, w) ==
    IF v[3] # w[3] THEN "patch"
    ELSE IF v[2] # w[2] THEN "minor"
    ELSE IF v[1] # w[1] THEN "major" ELSE "none"

\* The first component that differs
Component(v, w) ==
    IF v[1] # w[1] THEN "major"
    ELSE IF v[2] # w[2] THEN "minor"
    ELSE IF v[3] # w[3] THEN "patch" ELSE "none"

\* vnext_policy.change_class
ChangeClass(from, to) ==
    IF Semver(from) = None \/ Semver(to) = None THEN "unknown"
    ELSE Component(Semver(from), Semver(to))

\* resolver change_class
ResolverClass(from, to) ==
    IF ParseVersion(from) = None \/ ParseVersion(to) = None THEN "unknown"
    ELSE Component(ParseVersion(from), ParseVersion(to))

\* domain bump_type
BumpType(from, to) ==
    LET old == VersionTuple(from)
        new == VersionTuple(to)
    IN  IF old = None \/ new = None THEN "none"
        ELSE IF ~ Newer(new, old) THEN "none" ELSE Component(old, new)

---------------------------------------------------------------------------
\* Dates

\* resolve_timestamp of the target: the release's own date, else the day it was
\* first seen where that may stand in.
ResolveTimestamp(fallback) ==
    IF target \in stamped THEN published[target]
    ELSE IF fallback THEN firstSeen ELSE None

Latest(dates) == IF dates = {} THEN None ELSE CHOOSE d \in dates : \A e \in dates : e <= d

\* hold_decision: kind and eligible_at, the later one of the two deadlines.
HoldDecision(from, to, line, exact, override) ==
    LET kind == ChangeClass(from, to)
        days == IF override # None THEN override ELSE Hold[kind]
    IN  [kind |-> kind,
         at |-> IF kind \notin Change THEN None
                ELSE Latest({d + days : d \in {line, exact} \ {None}})]

\* service.evaluate_candidate; the caller names the dates of line and target.
EvaluateCandidate(line, exact) ==
    HoldDecision(installed, target, line, exact, IF soak # 0 THEN soak ELSE None)

\* HoldDecision.eligible
Eligible(line, exact) ==
    LET at == EvaluateCandidate(line, exact).at IN at = None \/ today >= at

---------------------------------------------------------------------------
\* The soak

\* policy_allows
PolicyAllows(name, change) ==
    CASE name = "patch" -> change = "patch"
      [] name = "minor" -> change \in {"minor", "patch"}
      [] name = "major-only" -> change = "major"
      [] name = "all" -> change \in Change \cup {"digest"}
      [] OTHER -> FALSE

\* PolicySpec.soak_days
SoakDays(change) == IF change \in DOMAIN Soak THEN Soak[change] ELSE Soak["patch"]

\* Mutant of Age: the age is that of the installed release.
AgeOfInstalled == today - published[installed]

\* age_days of classify; a candidate without first_seen_at is seen now.
Age == IF firstSeen = None THEN 0 ELSE today - firstSeen

\* classify, for a PolicySpec, whether the workload runs, and the change_type
\* that the caller names
Classify(policy, running, change) ==
    IF target = None THEN "unresolved"
    ELSE IF policy.policy = None \/ policy.risk = None THEN "unclassified"
    ELSE IF policy.policy = "pinned" THEN "pinned"
    ELSE IF \/ ~ running \/ policy.risk # "low"
            \/ ~ PolicyAllows(policy.policy, change)
            \/ policy.breaking \/ policy.issues
    THEN "manual_review"
    ELSE IF Age < SoakDays(change) THEN "soaking" ELSE "approval_ready"

---------------------------------------------------------------------------
\* What happens to releases and candidate

Init ==
    /\ today = 0
    /\ installed \in FirstTag
    /\ published = [t \in Tag |-> IF t = installed THEN 0 ELSE None]
    /\ stamped = {}
    /\ target = None /\ firstSeen = None /\ soak = 0

Publish(t) ==
    /\ published[t] = None
    /\ published' = [published EXCEPT ![t] = today]
    /\ \/ stamped' = stamped \cup {t}
       \/ UNCHANGED stamped
    /\ UNCHANGED <<today, installed, target, firstSeen, soak>>

Day ==
    /\ today < MaxDay
    /\ today' = today + 1
    /\ UNCHANGED <<published, stamped, installed, target, firstSeen, soak>>

\* Mutant of Record: the first row's first_seen is kept for every target.
RecordKeepsFirstSeen(t, days, seen) ==
    /\ t # None => published[t] # None
    /\ seen # None => t # None /\ seen \in published[t] .. today
    /\ target' = t /\ soak' = days
    /\ firstSeen' = IF firstSeen = None THEN seen ELSE firstSeen
    /\ UNCHANGED <<today, published, stamped, installed>>

\* Mutant of Record: the tag counts as seen on the day before.
RecordDayBefore(t, days, seen) ==
    /\ t # None => published[t] # None
    /\ seen # None => t # None /\ seen \in published[t] .. today
    /\ target' = t /\ soak' = days
    /\ firstSeen' = IF seen = None THEN None ELSE seen - 1
    /\ UNCHANGED <<today, published, stamped, installed>>

\* upsert_candidate stores target, soak and first_seen as its item names them.
\* The target may be any tag that is out, an older one or the installed one too,
\* or none.  WUD gives no first_seen; a report gives a day on which it saw the tag.
Record(t, days, seen) ==
    /\ t # None => published[t] # None
    /\ seen # None => t # None /\ seen \in published[t] .. today
    /\ target' = t /\ soak' = days /\ firstSeen' = seen
    /\ UNCHANGED <<today, published, stamped, installed>>

Install ==
    /\ target # None
    /\ installed' = target /\ target' = None /\ firstSeen' = None /\ soak' = 0
    /\ UNCHANGED <<today, published, stamped>>

Next ==
    \/ \E t \in Tag : Publish(t)
    \/ Day
    \/ \E t \in Tag \cup {None}, days \in RowSoak, seen \in 0 .. today \cup {None} :
          Record(t, days, seen)
    \/ Install

Spec == Init /\ [][Next]_vars

---------------------------------------------------------------------------
\* Properties

\* Days, tags and the candidate's row keep their types.
TypeOK ==
    /\ today \in Nat
    /\ published \in [Tag -> Nat \cup {None}]
    /\ stamped \subseteq Tag
    /\ installed \in Tag /\ target \in Tag \cup {None}
    /\ firstSeen \in Nat \cup {None} /\ soak \in {0} \cup RowSoak

\* What a caller may pass as the date of the release line
Lines == 0 .. today \cup {None}

\* The hold that evaluate_candidate has to keep for the target
HoldDays == IF soak # 0 THEN soak ELSE Hold[ChangeClass(installed, target)]

\* vnext_policy.py:144: a classified target whose date is known is eligible only
\* when it has really been out for its whole hold.  first_seen may stand in for
\* the date ("first_seen_conservative", resolver/release.py:87), and no date of
\* the line shortens the hold.
HoldRespected ==
    target # None /\ ChangeClass(installed, target) \in Change =>
        \A line \in Lines, fallback \in BOOLEAN :
            LET exact == ResolveTimestamp(fallback)
            IN  exact # None /\ Eligible(line, exact) =>
                    today - published[target] >= HoldDays

\* The soak of domain/policy.py and the hold of vnext_policy.py agree: what classify
\* calls approval-ready, for the change that bump_type finds, is held by
\* evaluate_candidate no more, unless the row or a later line asks for it.
ReadyIsEligible ==
    soak = 0 /\ target # None =>
        \A spec \in Policy, running, fallback \in BOOLEAN :
            Classify(spec, running, BumpType(installed, target)) = "approval_ready" =>
                \A line \in 0 .. published[target] \cup {None} :
                    Eligible(line, ResolveTimestamp(fallback))

\* "An intervening patch must not bypass a major/minor hold"
\* (docs/vnext-design-and-implementation.md:27): while the same tag is installed
\* and the row asks for the same soak, an update that a source replaces by one of
\* known class, not older and dated no earlier, leaves no earlier deadline than it
\* had, whatever components of the version the second step changes.
NewTargetHoldsLonger ==
    [][/\ target # None /\ target' # None /\ target' # target
       /\ installed' = installed /\ soak' = soak
       /\ BumpType(installed, target) # "none"
       /\ ChangeClass(installed', target') \in Change
       /\ ~ Newer(target.version, target'.version)
       /\ ResolveTimestamp(TRUE) # None /\ ResolveTimestamp(TRUE)' # None
       /\ ResolveTimestamp(TRUE) <= ResolveTimestamp(TRUE)'
       => \A line, later \in Lines :
            LET before == EvaluateCandidate(line, ResolveTimestamp(TRUE)).at
                after == EvaluateCandidate(later, ResolveTimestamp(TRUE))'.at
            IN  line = None \/ (later # None /\ line <= later)
                => before = None \/ (after # None /\ before <= after)]_vars

=============================================================================
