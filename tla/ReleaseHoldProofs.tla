--------------------------- MODULE ReleaseHoldProofs ---------------------------
(***************************************************************************)
(* Theorems about ReleaseHold, for every set of tags, every hold and soak  *)
(* and every number of days.                                               *)
(***************************************************************************)
EXTENDS ReleaseHold, TLAPS

---------------------------------------------------------------------------
\* Versions

\* Of two versions, one newer than the other, some component differs.
LEMMA NewerDiffers ==
  ASSUME NEW v \in Version, NEW w \in Version, Newer(w, v)
  PROVE  Component(v, w) \in Change
  BY DEF Version, Newer, Component, Change

\* From one tag to one with a newer version
Upgrade(from, to) ==
    /\ from \in Tag /\ to \in Tag
    /\ from.version \in Version /\ to.version \in Version
    /\ Newer(to.version, from.version)

\* The three classifiers of a change, in domain/policy.py, vnext_policy.py and
\* resolver/release.py, agree on an upgrade wherever they know its class.
THEOREM ClassifiersAgree ==
  ASSUME NEW from, NEW to, Upgrade(from, to)
  PROVE  /\ BumpType(from, to) \in Change
         /\ ChangeClass(from, to) \in {BumpType(from, to), "unknown"}
         /\ ResolverClass(from, to) \in {ChangeClass(from, to), "unknown"}
  <1>1. /\ from.version \in Version /\ to.version \in Version
        /\ from.version # None /\ to.version # None
        /\ Newer(to.version, from.version)
    BY HoldAssumption DEF Upgrade
  <1>2. Component(from.version, to.version) \in Change
    BY <1>1, NewerDiffers
  <1>3. BumpType(from, to) = Component(from.version, to.version)
    BY <1>1 DEF BumpType, VersionTuple
  <1>4. ChangeClass(from, to) \in {Component(from.version, to.version), "unknown"}
    BY <1>1 DEF ChangeClass, Semver
  <1>5. ResolverClass(from, to) \in {ChangeClass(from, to), "unknown"}
    BY <1>1 DEF ResolverClass, ParseVersion, ChangeClass, Semver
  <1>6. QED
    BY <1>2, <1>3, <1>4, <1>5

\* What bump_type calls a change is an upgrade.
LEMMA BumpIsUpgrade ==
  ASSUME NEW from \in Tag, NEW to \in Tag, BumpType(from, to) # "none"
  PROVE  Upgrade(from, to)
  BY HoldAssumption DEF BumpType, VersionTuple, Upgrade

---------------------------------------------------------------------------
\* The inductive invariant: no date lies in the future, only published tags are
\* dated, and the candidate's target has appeared, no later than it was first seen.
DatesInv ==
    /\ \A t \in Tag : published[t] # None => published[t] <= today
    /\ stamped \subseteq {t \in Tag : published[t] # None}
    /\ target # None =>
         /\ published[target] # None
         /\ firstSeen # None => published[target] <= firstSeen /\ firstSeen <= today

IInv == TypeOK /\ DatesInv

\* The initial states satisfy it.
LEMMA InitInv == Init => IInv
  <1>1. Init => TypeOK
    BY HoldAssumption DEF Init, TypeOK
  <1>2. Init => DatesInv
    BY HoldAssumption DEF Init, DatesInv
  <1>3. QED
    BY <1>1, <1>2 DEF IInv

\* Every step preserves it.
LEMMA NextInv ==
  ASSUME IInv, [Next]_vars
  PROVE  IInv'
  <1> USE HoldAssumption DEF IInv, TypeOK, DatesInv
  <1>1. ASSUME NEW t \in Tag, Publish(t)
        PROVE  IInv'
    <2>1. /\ published' = [published EXCEPT ![t] = today] /\ published[t] = None
          /\ UNCHANGED <<today, installed, target, firstSeen, soak>>
      BY <1>1 DEF Publish
    <2>2. stamped' \subseteq stamped \cup {t}
      BY <1>1 DEF Publish
    <2>3. target # None => target # t /\ published'[target] = published[target]
      BY <2>1
    <2>4. TypeOK'
      BY <2>1, <2>2
    <2>5. DatesInv'
      BY <2>1, <2>2, <2>3
    <2>6. QED
      BY <2>4, <2>5
  <1>2. CASE Day
    BY <1>2 DEF Day
  <1>3. ASSUME NEW t \in Tag \cup {None}, NEW days \in RowSoak,
               NEW seen \in 0 .. today \cup {None}, Record(t, days, seen)
        PROVE  IInv'
    <2>1. /\ target' = t /\ soak' = days /\ firstSeen' = seen
          /\ UNCHANGED <<today, published, stamped, installed>>
          /\ t # None => published[t] # None
          /\ seen # None => published[t] <= seen /\ seen <= today
      BY <1>3 DEF Record
    <2>2. TypeOK'
      BY <2>1
    <2>3. DatesInv'
      BY <2>1
    <2>4. QED
      BY <2>2, <2>3
  <1>4. CASE Install
    BY <1>4 DEF Install
  <1>5. CASE UNCHANGED vars
    BY <1>5 DEF vars
  <1>6. QED
    BY <1>1, <1>2, <1>3, <1>4, <1>5 DEF Next

\* It holds in every reachable state.
LEMMA Invariance == Spec => []IInv
  <1>1. IInv /\ [Next]_vars => IInv'
    BY NextInv
  <1>2. QED
    BY InitInv, <1>1, PTL DEF Spec

\* Days, tags and the candidate's row keep their types.
THEOREM TypeCorrect == Spec => []TypeOK
  <1>1. IInv => TypeOK
    BY DEF IInv
  <1>2. QED
    BY <1>1, Invariance, PTL

---------------------------------------------------------------------------
\* The deadline

\* The deadline from the dates of line and target
LaterDeadline(line, exact, days) == Latest({d + days : d \in {line, exact} \ {None}})

\* It is the later one of the deadlines that are known.
LEMMA LatestOfTwo ==
  ASSUME NEW line \in Nat \cup {None}, NEW exact \in Nat \cup {None}, NEW days \in Nat
  PROVE  /\ exact # None => /\ LaterDeadline(line, exact, days) # None
                            /\ exact + days <= LaterDeadline(line, exact, days)
         /\ line # None => line + days <= LaterDeadline(line, exact, days)
         /\ LaterDeadline(line, exact, days) # None =>
              /\ LaterDeadline(line, exact, days) \in Nat
              /\ \/ line # None /\ LaterDeadline(line, exact, days) = line + days
                 \/ exact # None /\ LaterDeadline(line, exact, days) = exact + days
  <1> DEFINE S == {d + days : d \in {line, exact} \ {None}}
  <1>0. None \notin Nat
    BY HoldAssumption
  <1>1. CASE line = None /\ exact = None
    BY <1>1 DEF Latest, LaterDeadline
  <1>2. CASE line # None \/ exact # None
    <2>1. \E d \in S : \A e \in S : e <= d
      <3>1. CASE line = None
        BY <1>2, <3>1
      <3>2. CASE exact = None
        BY <1>2, <3>2
      <3>3. CASE line # None /\ exact # None /\ line <= exact
        BY <3>3
      <3>4. CASE line # None /\ exact # None /\ exact <= line
        BY <3>4
      <3>5. QED
        BY <3>1, <3>2, <3>3, <3>4
    <2>2. S # {} /\ S \subseteq Nat
      BY <1>2
    <2>3. Latest(S) \in S /\ \A e \in S : e <= Latest(S)
      <3> HIDE DEF S
      <3>1. Latest(S) = CHOOSE d \in S : \A e \in S : e <= d
        BY <2>2 DEF Latest
      <3>2. QED
        BY <2>1, <3>1
    <2>4. /\ line # None => line + days \in S
          /\ exact # None => exact + days \in S
          /\ \A d \in S : \/ line # None /\ d = line + days
                          \/ exact # None /\ d = exact + days
      OBVIOUS
    <2> HIDE DEF S
    <2>5. QED
      BY <1>0, <1>2, <2>2, <2>3, <2>4 DEF S, LaterDeadline
  <1>3. QED
    BY <1>1, <1>2

\* What hold_decision computes for a change of known class
LEMMA DecisionDeadline ==
  ASSUME NEW from, NEW to, ChangeClass(from, to) \in Change,
         NEW line \in Nat \cup {None}, NEW exact \in Nat \cup {None},
         NEW own \in {0} \cup RowSoak
  PROVE  LET days == IF own # 0 THEN own ELSE Hold[ChangeClass(from, to)]
         IN  /\ days \in Nat
             /\ HoldDecision(from, to, line, exact, IF own # 0 THEN own ELSE None).at
                  = LaterDeadline(line, exact, days)
  <1> DEFINE days == IF own # 0 THEN own ELSE Hold[ChangeClass(from, to)]
             override == IF own # 0 THEN own ELSE None
  <1>1. Hold[ChangeClass(from, to)] \in Nat /\ own \in Nat
    <2>1. Hold \in [Change -> 0 .. 365] /\ RowSoak \subseteq 0 .. 365
      BY HoldAssumption
    <2>2. Hold[ChangeClass(from, to)] \in 0 .. 365
      BY <2>1
    <2>3. QED
      BY <2>1, <2>2
  <1>2. days \in Nat
    BY <1>1
  <1>3. override # None <=> own # 0
    BY <1>1, HoldAssumption
  <1>4. (IF override # None THEN override ELSE Hold[ChangeClass(from, to)]) = days
    BY <1>3
  <1> HIDE DEF days, override
  <1>5. HoldDecision(from, to, line, exact, override).at = LaterDeadline(line, exact, days)
    BY <1>4 DEF HoldDecision, LaterDeadline
  <1>6. QED
    BY <1>2, <1>5 DEF days, override

\* What evaluate_candidate computes for the target of the row
LEMMA Deadline ==
  ASSUME IInv, ChangeClass(installed, target) \in Change,
         NEW line \in Nat \cup {None}, NEW exact \in Nat \cup {None}
  PROVE  /\ HoldDays \in Nat
         /\ EvaluateCandidate(line, exact).at = LaterDeadline(line, exact, HoldDays)
  <1>1. soak \in {0} \cup RowSoak
    BY DEF IInv, TypeOK
  <1>2. QED
    BY <1>1, DecisionDeadline DEF EvaluateCandidate, HoldDays

\* No target with a known class and date is eligible before its hold is over.
THEOREM HoldIsRespected == Spec => []HoldRespected
  <1>1. ASSUME IInv PROVE HoldRespected
    <2> SUFFICES ASSUME target # None, ChangeClass(installed, target) \in Change,
                        NEW line \in Lines, NEW fallback \in BOOLEAN,
                        ResolveTimestamp(fallback) # None,
                        Eligible(line, ResolveTimestamp(fallback))
                 PROVE  today - published[target] >= HoldDays
      BY DEF HoldRespected
    <2> DEFINE exact == ResolveTimestamp(fallback)
    <2>1. /\ today \in Nat /\ published[target] \in Nat
          /\ line \in Nat \cup {None}
          /\ exact \in Nat /\ published[target] <= exact
      BY <1>1, HoldAssumption DEF IInv, TypeOK, DatesInv, Lines, ResolveTimestamp
    <2>2. HoldDays \in Nat
          /\ EvaluateCandidate(line, exact).at = LaterDeadline(line, exact, HoldDays)
      BY <1>1, <2>1, Deadline
    <2>3. exact # None /\ exact + HoldDays <= EvaluateCandidate(line, exact).at
          /\ EvaluateCandidate(line, exact).at \in Nat
      <3>1. line \in Nat \cup {None} /\ exact \in Nat \cup {None} /\ exact # None
        BY <2>1, HoldAssumption
      <3> HIDE DEF exact
      <3>2. /\ LaterDeadline(line, exact, HoldDays) \in Nat
            /\ exact + HoldDays <= LaterDeadline(line, exact, HoldDays)
        BY <2>2, <3>1, LatestOfTwo
      <3>3. QED
        BY <2>2, <3>1, <3>2
    <2>4. today >= EvaluateCandidate(line, exact).at
      BY <2>3, HoldAssumption DEF Eligible
    <2> HIDE DEF exact
    <2>5. QED
      BY <2>1, <2>2, <2>3, <2>4
  <1>2. QED
    BY <1>1, Invariance, PTL

\* A soak that classify finds complete is no shorter than the hold.
THEOREM ReadyWasHeld == Spec => []ReadyIsEligible
  <1>1. ASSUME IInv PROVE ReadyIsEligible
    <2> SUFFICES ASSUME soak = 0, target # None,
                        NEW spec \in Policy, NEW running \in BOOLEAN,
                        NEW fallback \in BOOLEAN,
                        Classify(spec, running, BumpType(installed, target))
                          = "approval_ready",
                        NEW line \in 0 .. published[target] \cup {None}
                 PROVE  Eligible(line, ResolveTimestamp(fallback))
      BY DEF ReadyIsEligible
    <2> DEFINE exact == ResolveTimestamp(fallback)
               at == EvaluateCandidate(line, exact).at
    <2>1. /\ PolicyAllows(spec.policy, BumpType(installed, target))
          /\ ~ (Age < SoakDays(BumpType(installed, target)))
      BY DEF Classify
    <2>2. /\ today \in Nat /\ published[target] \in Nat /\ published[target] <= today
          /\ line \in Nat \cup {None} /\ (line # None => line <= published[target])
          /\ exact \in Nat \cup {None} /\ (exact # None => exact <= today)
          /\ firstSeen # None =>
               /\ firstSeen \in Nat /\ published[target] <= firstSeen
               /\ exact # None => exact <= firstSeen
      BY <1>1, <2>1, HoldAssumption DEF IInv, TypeOK, DatesInv, ResolveTimestamp
    <2>3. CASE ChangeClass(installed, target) \notin Change
      BY <2>3 DEF Eligible, EvaluateCandidate, HoldDecision
    <2>4. CASE ChangeClass(installed, target) \in Change
      <3>1. HoldDays \in Nat /\ at = LaterDeadline(line, exact, HoldDays)
        BY <1>1, <2>2, <2>4, Deadline
      <3>2. /\ BumpType(installed, target) \in Change
            /\ ChangeClass(installed, target) = BumpType(installed, target)
        <4>1. BumpType(installed, target) # "none"
          BY <2>1 DEF PolicyAllows, Change
        <4>2. Upgrade(installed, target)
          BY <1>1, <4>1, BumpIsUpgrade DEF IInv, TypeOK
        <4>3. QED
          BY <2>4, <4>2, ClassifiersAgree DEF Change
      <3>3. SoakDays(BumpType(installed, target)) \in Nat
            /\ HoldDays <= SoakDays(BumpType(installed, target))
        BY <3>2, HoldAssumption, DefaultsAssumption DEF HoldDays, SoakDays
      <3>4. Age \in Int /\ HoldDays <= Age
        <4>1. Age \in Int
          BY <2>2 DEF Age
        <4>2. QED
          BY <2>1, <3>1, <3>3, <4>1
      <3>5. at # None => \/ line # None /\ at = line + HoldDays
                         \/ exact # None /\ at = exact + HoldDays
        BY <2>2, <3>1, LatestOfTwo
      <3>6. QED
        BY <2>2, <3>1, <3>4, <3>5 DEF Age, Eligible
    <2>5. QED
      BY <2>3, <2>4
  <1>2. QED
    BY <1>1, Invariance, PTL

---------------------------------------------------------------------------
\* Two targets in succession

\* A newer version is held at least as long as an older one.
LEMMA HoldsGrow ==
  ASSUME NEW v \in Version, NEW w \in Version, NEW x \in Version,
         Newer(w, v), ~ Newer(w, x)
  PROVE  /\ Hold[Component(v, w)] \in Nat /\ Hold[Component(v, x)] \in Nat
         /\ Hold[Component(v, w)] <= Hold[Component(v, x)]
  <1>1. /\ v[1] \in Nat /\ v[2] \in Nat /\ v[3] \in Nat
        /\ w[1] \in Nat /\ w[2] \in Nat /\ w[3] \in Nat
        /\ x[1] \in Nat /\ x[2] \in Nat /\ x[3] \in Nat
    BY DEF Version
  <1>2. \/ Component(v, x) = "major" /\ Component(v, w) \in Change
        \/ Component(v, x) = "minor" /\ Component(v, w) \in {"patch", "minor"}
        \/ Component(v, x) = "patch" /\ Component(v, w) = "patch"
    BY <1>1 DEF Newer, Component, Change
  <1>3. Hold["patch"] \in Nat /\ Hold["minor"] \in Nat /\ Hold["major"] \in Nat
    <2>1. \A c \in Change : Hold[c] \in 0 .. 365
      BY HoldAssumption
    <2>2. QED
      BY <2>1 DEF Change
  <1>4. QED
    BY <1>2, <1>3, DefaultsAssumption DEF Change

\* Later dates and a longer hold make a later deadline.
LEMMA DeadlinesGrow ==
  ASSUME NEW line \in Nat \cup {None}, NEW later \in Nat \cup {None},
         line = None \/ (later # None /\ line <= later),
         NEW exact \in Nat, NEW newer \in Nat, exact <= newer,
         NEW days \in Nat, NEW longer \in Nat, days <= longer
  PROVE  /\ LaterDeadline(later, newer, longer) # None
         /\ LaterDeadline(line, exact, days) <= LaterDeadline(later, newer, longer)
  <1> DEFINE before == LaterDeadline(line, exact, days)
             after == LaterDeadline(later, newer, longer)
  <1>0. None \notin Nat
    BY HoldAssumption
  <1>1. /\ after \in Nat /\ newer + longer <= after
        /\ later # None => later + longer <= after
    <2>1. newer \in Nat \cup {None} /\ newer # None
      BY <1>0
    <2>2. QED
      BY <2>1, LatestOfTwo
  <1>2. /\ before \in Nat
        /\ before = exact + days \/ (line # None /\ before = line + days)
    <2>1. exact \in Nat \cup {None} /\ exact # None
      BY <1>0
    <2>2. QED
      BY <2>1, LatestOfTwo
  <1> HIDE DEF before, after
  <1>3. before <= after
    BY <1>1, <1>2
  <1>4. QED
    BY <1>0, <1>1, <1>3 DEF before, after

\* An update replaced by one not older and dated no earlier ends its hold no earlier.
THEOREM RetargetingKeepsHold == Spec => NewTargetHoldsLonger
  <1>1. ASSUME IInv, IInv',
               target # None, target' # None,
               installed' = installed, soak' = soak,
               BumpType(installed, target) # "none",
               ChangeClass(installed', target') \in Change,
               ~ Newer(target.version, target'.version),
               ResolveTimestamp(TRUE) # None, ResolveTimestamp(TRUE)' # None,
               ResolveTimestamp(TRUE) <= ResolveTimestamp(TRUE)',
               NEW line \in Lines, NEW later \in Lines,
               line = None \/ (later # None /\ line <= later)
        PROVE  LET before == EvaluateCandidate(line, ResolveTimestamp(TRUE)).at
                   after == EvaluateCandidate(later, ResolveTimestamp(TRUE))'.at
               IN  before = None \/ (after # None /\ before <= after)
    <2> DEFINE exact == ResolveTimestamp(TRUE)
               kind(t) == ChangeClass(installed, t)
               days(t) == IF soak # 0 THEN soak ELSE Hold[kind(t)]
    <2>1. exact \in Nat /\ exact' \in Nat /\ exact <= exact'
      BY <1>1, HoldAssumption DEF IInv, TypeOK, DatesInv, ResolveTimestamp
    <2>2. /\ installed \in Tag /\ target \in Tag /\ target' \in Tag
          /\ soak \in {0} \cup RowSoak /\ today \in Nat
      BY <1>1 DEF IInv, TypeOK
    <2>3. line \in Nat \cup {None} /\ later \in Nat \cup {None}
      BY <2>2 DEF Lines
    <2>4. Upgrade(installed, target)
      BY <1>1, <2>2, BumpIsUpgrade
    <2> HIDE DEF exact
    <2>5. /\ days(target') \in Nat
          /\ EvaluateCandidate(later, exact)'.at = LaterDeadline(later, exact', days(target'))
      <3>1. kind(target') \in Change /\ exact' \in Nat \cup {None}
        BY <1>1, <2>1
      <3>2. HoldDecision(installed, target', later, exact', IF soak # 0 THEN soak ELSE None).at
              = EvaluateCandidate(later, exact)'.at
        BY <1>1 DEF EvaluateCandidate
      <3>3. /\ days(target') \in Nat
            /\ HoldDecision(installed, target', later, exact', IF soak # 0 THEN soak ELSE None).at
                 = LaterDeadline(later, exact', days(target'))
        BY <2>2, <2>3, <3>1, DecisionDeadline
      <3>4. QED
        BY <3>2, <3>3
    <2>6. CASE kind(target) \notin Change
      BY <2>6 DEF EvaluateCandidate, HoldDecision, exact
    <2>7. CASE kind(target) \in Change
      <3>1. /\ days(target) \in Nat
            /\ EvaluateCandidate(line, exact).at = LaterDeadline(line, exact, days(target))
        <4>1. exact \in Nat \cup {None}
          BY <2>1
        <4>2. QED
          BY <2>2, <2>3, <2>7, <4>1, DecisionDeadline DEF EvaluateCandidate
      <3>2. days(target) <= days(target')
        <4>1. /\ kind(target) = Component(installed.version, target.version)
              /\ kind(target') = Component(installed.version, target'.version)
              /\ target'.version # None
          BY <1>1, <2>7 DEF ChangeClass, Semver, Change
        <4>2. target'.version \in Version
          BY <2>2, <4>1, HoldAssumption
        <4>3. Hold[kind(target)] <= Hold[kind(target')]
          BY <1>1, <2>4, <4>1, <4>2, HoldsGrow DEF Upgrade
        <4>4. soak \in Nat
          BY <2>2, HoldAssumption
        <4>5. QED
          BY <4>3, <4>4
      <3> HIDE DEF days
      <3>3. QED
        BY <1>1, <2>1, <2>3, <2>5, <3>1, <3>2, DeadlinesGrow DEF exact
    <2>8. QED
      BY <2>6, <2>7
  <1>2. IInv /\ IInv' =>
          [/\ target # None /\ target' # None /\ target' # target
           /\ installed' = installed /\ soak' = soak
           /\ BumpType(installed, target) # "none"
           /\ ChangeClass(installed', target') \in Change
           /\ ~ Newer(target.version, target'.version)
           /\ ResolveTimestamp(TRUE) # None /\ ResolveTimestamp(TRUE)' # None
           /\ ResolveTimestamp(TRUE) <= ResolveTimestamp(TRUE)'
           => \A line, later \in Lines :
                LET before == EvaluateCandidate(line, ResolveTimestamp(TRUE)).at
                    after == EvaluateCandidate(later, ResolveTimestamp(TRUE))'.at
                IN  line = None \/ (later # None /\ line <= later)
                    => before = None \/ (after # None /\ before <= after)]_vars
    BY <1>1
  <1>3. QED
    BY <1>2, Invariance, PTL DEF Spec, NewTargetHoldsLonger

=============================================================================
