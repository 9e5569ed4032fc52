----------------------- MODULE CandidateEligibilityProofs -----------------------
(***************************************************************************)
(* What CandidateEligibility keeps for every set of reports, labels,       *)
(* overrides and gates, and any number of changes.                         *)
(***************************************************************************)
EXTENDS CandidateEligibility, TLAPS

\* An image reference is no version, so its semver is None.
LEMMA ReferenceIsNoVersion ==
    ASSUME NEW x \in Reference
    PROVE  x \notin Version
<1>1. SUFFICES ASSUME x \in Version PROVE FALSE
    OBVIOUS
<1>2. DOMAIN x = {"repository", "tag"}
    BY DEF Reference
<1>3. DOMAIN x = {"major", "minor", "patch"}
    BY <1>1, EligibilityAssumption
<1> QED
    BY <1>2, <1>3

\* The change of a container with valid labels is never classified.
LEMMA ChangeOfReferences ==
    ASSUME NEW target
    PROVE  ChangeClass(Image, target) = "unknown"
<1>1. Semver(Image) = None
    BY ReferenceIsNoVersion, EligibilityAssumption DEF Semver
<1> QED
    BY <1>1 DEF ChangeClass

\* normalized_gates returns a row of every risk.
LEMMA GatesNormalized ==
    ASSUME NEW value \in Gates \cup {None}
    PROVE  NormalizedGates(value) \in Gates
<1> DEFINE gate == IF value = None THEN DefaultGates ELSE value
<1>1. DefaultGates \in Gates
    BY DEF DefaultGates, Gates, Risks, Changes
<1>2. gate \in Gates
    BY <1>1
<1>3. \A r \in Risks : gate[r].research \in BOOLEAN /\ gate[r].manual \in BOOLEAN
    BY <1>2 DEF Gates
<1> QED
    BY <1>3 DEF NormalizedGates, Gates

\* What save_risk_gates stores is a row of every risk.
LEMMA FormIsGates ==
    ASSUME NEW form \in GateForm
    PROVE  FormGates(form) \in Gates
<1>1. form.low \subseteq {"patch", "minor"}
    BY EligibilityAssumption
<1>2. [r \in Risks |-> [allowed |-> IF r = "low" THEN form.low ELSE {},
                        research |-> r \in form.research, manual |-> r # "low"]] \in Gates
    BY <1>1 DEF Gates, Changes
<1> QED
    BY <1>2, GatesNormalized DEF FormGates

\* normalize returns a candidate, and a ready one within the boundary.
LEMMA Normalized ==
    ASSUME NEW row \in Report, NEW l \in Labels, NEW hold \in BOOLEAN,
           NEW o \in Override \cup {None}, NEW value \in Gates \cup {None}
    PROVE  LET c == Normalize(row, l, hold, o, value)
           IN  /\ c \in Candidate
               /\ c.ready => /\ c.risk = "low"
                             /\ c.change \in {"patch", "minor"}
                             /\ c.policy \in {"patch", "minor"}
                             /\ c.target # None /\ c.state = "running"
<1> DEFINE risk == IF o # None THEN o.risk ELSE Or(l["risk"], "medium")
           policy == IF o # None THEN o.policy ELSE Or(l["policy"], "manual")
<1>1. /\ row.status \in {"running", "exited"} /\ row.change \in Changes
      /\ TargetImage(row) \in Reference \cup {None}
    BY EligibilityAssumption DEF TargetImage, Reference
<1>2. risk \in Word /\ policy \in Word
  <2>1. \A k \in Key : l[k] \in Word \cup {None}
      BY DEF Labels
  <2>2. {"medium", "manual"} \subseteq Word
      BY EligibilityAssumption DEF Risks, Policies
  <2>3. o # None => o.risk \in Word /\ o.policy \in Word
      BY EligibilityAssumption DEF Risks, Policies
  <2> QED
      BY <2>1, <2>2, <2>3 DEF Or, Key
<1>3. CASE Valid(l)
  <2>1. Normalize(row, l, hold, o, value) = VnextItem(row, l, hold, o)
      BY <1>3 DEF Normalize
  <2>2. VnextItem(row, l, hold, o).ready = FALSE
    <3>1. "unknown" \notin DOMAIN Rank
        BY DEF Rank
    <3> QED
        BY <3>1, ChangeOfReferences DEF VnextItem
  <2>3. l["policy"] \in Word
      BY <1>3, EligibilityAssumption DEF Valid, Policies
  <2>4. VnextItem(row, l, hold, o) =
          [target |-> TargetImage(row), change |-> "unknown", policy |-> l["policy"],
           risk |-> risk, state |-> row.status, ready |-> FALSE]
      BY <2>2, ChangeOfReferences DEF VnextItem
  <2> QED
      BY <1>1, <1>2, <2>1, <2>3, <2>4 DEF Candidate, Changes
<1>4. CASE ~Valid(l) /\ HasVnext(l)
  <2>1. {"invalid", "critical"} \subseteq Word
      BY EligibilityAssumption DEF Risks
  <2>2. Normalize(row, l, hold, o, value) = InvalidItem(row)
      BY <1>4 DEF Normalize
  <2> QED
      BY <1>1, <2>1, <2>2 DEF InvalidItem, Candidate
<1>5. CASE ~Valid(l) /\ ~HasVnext(l)
  <2> DEFINE gate == NormalizedGates(value)[IF risk \in Risks THEN risk ELSE "critical"]
  <2>1. Normalize(row, l, hold, o, value) = LegacyItem(row, l, hold, o, value)
      BY <1>5 DEF Normalize
  <2>2. gate.manual = FALSE => risk = "low"
      BY DEF NormalizedGates, Risks
  <2>3. LegacyItem(row, l, hold, o, value) =
          [target |-> TargetImage(row), change |-> row.change, policy |-> policy,
           risk |-> risk, state |-> row.status,
           ready |-> /\ row.status = "running" /\ TargetImage(row) # None /\ ~hold
                     /\ row.change \in {"patch", "minor"} /\ policy \in {"patch", "minor"}
                     /\ row.change \in gate.allowed /\ ~gate.manual /\ ~gate.research]
      BY Zenon DEF LegacyItem
  <2> HIDE DEF gate, risk, policy
  <2> QED
      BY <1>1, <1>2, <2>1, <2>2, <2>3 DEF Candidate
<1> QED
    BY <1>3, <1>4, <1>5

\* Effective labels are labels.
LEMMA MergedLabels ==
    ASSUME template \in Labels, runtime \in Labels, NEW l \in Labels
    PROVE  Merged(l) \in Labels
BY DEF Merged, Labels

---------------------------------------------------------------------------
Inv == TypeOK /\ ReadyWithinBoundary

LEMMA Initially == Init => Inv
<1> SUFFICES ASSUME Init PROVE Inv
    OBVIOUS
<1>1. Unread \in Labels
    BY DEF Unread, Labels
<1> QED
    BY <1>1, EligibilityAssumption DEF Init, Inv, TypeOK, ReadyWithinBoundary, Thread

\* What a scan publishes was normalized.
LEMMA ItemIsNormalized ==
    ASSUME TypeOK, NEW p \in Thread, report[p] # None
    PROVE  /\ Item(p) \in Candidate
           /\ Item(p).ready => /\ Item(p).risk = "low"
                               /\ Item(p).change \in {"patch", "minor"}
                               /\ Item(p).policy \in {"patch", "minor"}
                               /\ Item(p).target # None /\ Item(p).state = "running"
<1>1. /\ report[p] \in Report /\ labels[p] \in Labels /\ held[p] \in BOOLEAN
      /\ over[p] \in Override \cup {None} /\ stored[p] \in Gates \cup {None}
    BY DEF TypeOK
<1> QED
    BY <1>1, Normalized DEF Item

\* No step of a scan leaves the invariant.
LEMMA ScanKeeps ==
    ASSUME Inv, NEW p \in Thread, Scan(p)
    PROVE  Inv'
<1> USE DEF Inv, settings
<1>1. p \in {"scheduler", "web"}
    BY DEF Thread
<1>2. CASE FetchReport(p)
  <2>1. Follow[p]["report"] = "inventory"
      BY <1>1 DEF Follow
  <2> QED
      BY <1>2, <2>1 DEF FetchReport, Advance, TypeOK, ReadyWithinBoundary
<1>3. CASE ReadInventory(p)
  <2>1. Follow[p]["inventory"] \in {"controls", "override"}
      BY <1>1 DEF Follow
  <2>2. Merged(labels[p]) \in Labels
      BY MergedLabels DEF TypeOK
  <2> QED
      BY <1>3, <2>1, <2>2 DEF ReadInventory, Advance, TypeOK, ReadyWithinBoundary
<1>4. CASE ReadControls(p)
  <2>1. Follow[p]["controls"] \in {"override", "upsert"}
      BY <1>1 DEF Follow
  <2> QED
      BY <1>4, <2>1 DEF ReadControls, Advance, TypeOK, ReadyWithinBoundary
<1>5. CASE ReadOverride(p)
  <2>1. Follow[p]["override"] = "gates"
      BY <1>1 DEF Follow
  <2> QED
      BY <1>5, <2>1 DEF ReadOverride, Advance, TypeOK, ReadyWithinBoundary
<1>6. CASE ReadGates(p)
  <2>1. Follow[p]["gates"] \in {"upsert", "controls"}
      BY <1>1 DEF Follow
  <2> QED
      BY <1>6, <2>1 DEF ReadGates, Advance, TypeOK, ReadyWithinBoundary
<1>7. CASE Upsert(p)
  <2>1. Follow[p]["upsert"] \in {"supersede", "resolve"}
      BY <1>1 DEF Follow
  <2>2. active' \subseteq Candidate /\ ReadyWithinBoundary'
    <3>1. CASE report[p] = None
        BY <1>7, <3>1 DEF Upsert, TypeOK, ReadyWithinBoundary
    <3>2. CASE report[p] # None
      <4>1. active' \subseteq active \cup {Item(p)}
          BY <1>7, <3>2 DEF Upsert
      <4> QED
          BY <3>2, <4>1, ItemIsNormalized DEF TypeOK, ReadyWithinBoundary
    <3> QED
        BY <3>1, <3>2
  <2>3. pc' \in [Thread -> {"idle", "report", "inventory", "controls", "override", "gates",
                            "upsert", "supersede", "resolve"}]
      BY <1>7, <2>1 DEF Upsert, Advance, TypeOK
  <2>4. alone' \subseteq Thread
      BY <1>7 DEF Upsert, TypeOK
  <2> QED
      BY <1>7, <2>2, <2>3, <2>4 DEF Upsert, locals, TypeOK
<1>8. CASE Supersede(p)
  <2>1. active' \subseteq active
      BY <1>8 DEF Supersede
  <2>2. Follow[p]["supersede"] = "resolve"
      BY <1>8 DEF Supersede, Follow
  <2>3. pc' \in [Thread -> {"idle", "report", "inventory", "controls", "override", "gates",
                            "upsert", "supersede", "resolve"}]
      BY <1>8, <2>2 DEF Supersede, Advance, TypeOK
  <2>4. alone' \subseteq Thread
      BY <1>8 DEF Supersede, TypeOK
  <2> QED
      BY <1>8, <2>1, <2>3, <2>4 DEF Supersede, locals, TypeOK, ReadyWithinBoundary
<1>9. CASE Resolve(p)
  <2>1. active' \subseteq active
      BY <1>9 DEF Resolve
  <2>2. Unread \in Labels
      BY DEF Unread, Labels
  <2> QED
      BY <1>9, <2>1, <2>2 DEF Resolve, TypeOK, ReadyWithinBoundary
<1> QED
    BY <1>2, <1>3, <1>4, <1>5, <1>6, <1>7, <1>8, <1>9 DEF Scan

\* Nor does a change of policy, labels, pause or of WUD's row.
LEMMA ChangeKeeps ==
    ASSUME Inv, NEW p \in Thread, UNCHANGED <<active, locals>>,
           changes' \in Nat, alone' \subseteq Thread,
           pc' = pc \/ pc' = [pc EXCEPT ![p] = "report"],
           wud' \in Report \cup {None}, template' \in Labels, runtime' \in Labels,
           watched' \in Labels,
           override' \in Override \cup {None}, gates' \in Gates \cup {None},
           paused' \in BOOLEAN
    PROVE  Inv'
BY DEF Inv, TypeOK, ReadyWithinBoundary, locals

\* TypeOK and the boundary are kept by every step.
LEMMA Steps == Inv /\ [Next]_vars => Inv'
<1> SUFFICES ASSUME Inv, [Next]_vars PROVE Inv'
    OBVIOUS
<1> USE DEF settings
<1>0. /\ wud \in Report \cup {None} /\ template \in Labels /\ runtime \in Labels
      /\ watched \in Labels
      /\ override \in Override \cup {None} /\ gates \in Gates \cup {None}
      /\ paused \in BOOLEAN /\ alone \subseteq Thread /\ changes \in Nat
    BY DEF Inv, TypeOK
<1>1. "web" \in Thread /\ "scheduler" \in Thread
    BY DEF Thread
<1>2. \A p \in Thread : Begin(p) => alone' \subseteq Thread
    BY DEF Begin
<1>3. CASE Trigger
    BY <1>0, <1>1, <1>2, <1>3, ChangeKeeps DEF Trigger, Begin
<1>4. CASE \E p \in Thread : Scan(p)
    BY <1>4, ScanKeeps
<1>5. ASSUME NEW o \in (Override \cup {None}) \ {override}, SaveOverride(o) PROVE Inv'
  <2>1. changes' \in Nat
      BY <1>0, <1>5 DEF SaveOverride, Change
  <2>2. Begin("web")
      BY <1>5 DEF SaveOverride
  <2> QED
      BY <1>0, <1>1, <1>2, <1>5, <2>1, <2>2, ChangeKeeps DEF SaveOverride, Begin
<1>6. ASSUME NEW form \in GateForm, SaveGates(form) PROVE Inv'
  <2>1. changes' \in Nat
      BY <1>0, <1>6 DEF SaveGates, Change
  <2>2. Begin("web")
      BY <1>6 DEF SaveGates
  <2> QED
      BY <1>0, <1>1, <1>2, <1>6, <2>1, <2>2, FormIsGates, ChangeKeeps DEF SaveGates, Begin
<1>7. ASSUME NEW l \in LabelSet, SaveLabels(l) PROVE Inv'
  <2>1. [l EXCEPT !["risk"] = None] \in Labels
      BY EligibilityAssumption DEF Labels
  <2>2. changes' \in Nat
      BY <1>0, <1>7 DEF SaveLabels, Change
  <2>3. Begin("web")
      BY <1>7 DEF SaveLabels
  <2> QED
      BY <1>0, <1>1, <1>2, <1>7, <2>1, <2>2, <2>3, ChangeKeeps DEF SaveLabels, Begin
<1>8. ASSUME NEW l \in LabelSet, EditTemplate(l) PROVE Inv'
    BY <1>0, <1>1, <1>8, EligibilityAssumption, ChangeKeeps DEF EditTemplate, Change
<1>9. CASE SetPaused
    BY <1>0, <1>1, <1>9, ChangeKeeps DEF SetPaused, Change
<1>10. CASE Recreate \/ WudWatch
    BY <1>0, <1>1, <1>10, ChangeKeeps DEF Recreate, WudWatch
<1>11. ASSUME NEW row \in Report \cup {None}, WudChange(row) PROVE Inv'
    BY <1>0, <1>1, <1>11, ChangeKeeps DEF WudChange, Change
<1>12. CASE UNCHANGED vars
    BY <1>12 DEF vars, locals, Inv, TypeOK, ReadyWithinBoundary
<1> QED
    BY <1>3, <1>4, <1>5, <1>6, <1>7, <1>8, <1>9, <1>10, <1>11, <1>12 DEF Next

---------------------------------------------------------------------------
\* The settings, the candidates and the locals of both scans keep their types.
THEOREM TypeCorrect == Spec => []TypeOK
BY Initially, Steps, PTL DEF Spec, Inv

\* README.md:33: no setting, label, override or order of reads makes a candidate
\* approval-ready unless it is a resolved patch or minor update of low risk.
THEOREM BoundaryHolds == Spec => []ReadyWithinBoundary
BY Initially, Steps, PTL DEF Spec, Inv

---------------------------------------------------------------------------
\* Labels

\* With labels of the new format, override and gates decide nothing but the risk,
\* and malformed ones are never ready.
LEMMA LabelsAlone ==
    ASSUME NEW row, NEW l, NEW hold, NEW o, NEW value, HasVnext(l)
    PROVE  LET c == Normalize(row, l, hold, o, value)
           IN  /\ ~Valid(l) => ~c.ready
               /\ \A p, w :
                     LET d == Normalize(row, l, hold, p, w)
                     IN  /\ c.ready = d.ready /\ c.policy = d.policy
                         /\ c.target = d.target /\ c.change = d.change
<1>1. CASE Valid(l)
    BY <1>1 DEF Normalize, VnextItem
<1>2. CASE ~Valid(l)
    BY <1>2 DEF Normalize, InvalidItem
<1> QED
    BY <1>1, <1>2

\* A thread leaves upsert only by its own step.
LEMMA OwnUpsert ==
    ASSUME TypeOK, [Next]_vars, NEW p \in Thread, pc[p] = "upsert", pc'[p] # "upsert"
    PROVE  Upsert(p)
<1> USE DEF TypeOK, Thread
<1>1. ASSUME NEW q \in Thread, Scan(q) PROVE Upsert(p)
  <2>1. q = p
      BY <1>1 DEF Scan, FetchReport, ReadInventory, ReadControls, ReadOverride, ReadGates,
                  Upsert, Supersede, Resolve, Advance
  <2> QED
      BY <1>1, <2>1 DEF Scan, FetchReport, ReadInventory, ReadControls, ReadOverride,
                        ReadGates, Supersede, Resolve
<1>2. CASE Trigger
    BY <1>2 DEF Trigger, Begin
<1>3. ASSUME NEW o, SaveOverride(o) PROVE FALSE
    BY <1>3 DEF SaveOverride, Begin
<1>4. ASSUME NEW form, SaveGates(form) PROVE FALSE
    BY <1>4 DEF SaveGates, Begin
<1>5. ASSUME NEW l, SaveLabels(l) \/ EditTemplate(l) PROVE FALSE
    BY <1>5 DEF SaveLabels, EditTemplate, Begin
<1>6. ASSUME NEW row, WudChange(row) PROVE FALSE
    BY <1>6 DEF WudChange
<1> QED
    BY <1>1, <1>2, <1>3, <1>4, <1>5, <1>6 DEF Next, SetPaused, Recreate, WudWatch, vars

\* wud.py:75: labels of the new format fail closed when they are malformed, and
\* neither an override nor the gates change what they decide.
THEOREM LabelsDecide == Spec => LabelsAuthoritative
<1>1. TypeOK /\ [Next]_vars =>
        [\A p \in Thread : pc[p] = "upsert" /\ pc'[p] # "upsert" /\ HasVnext(labels[p]) =>
           \A c \in active' \ active :
              /\ ~Valid(labels[p]) => ~c.ready
              /\ \A o \in AnyOverride, value \in AnyGates :
                    LET d == Normalize(report[p], labels[p], held[p], o, value)
                    IN  /\ c.ready = d.ready /\ c.policy = d.policy
                        /\ c.target = d.target /\ c.change = d.change]_vars
  <2> SUFFICES ASSUME TypeOK, [Next]_vars, NEW p \in Thread,
                      pc[p] = "upsert", pc'[p] # "upsert", HasVnext(labels[p]),
                      NEW c \in active' \ active
               PROVE  /\ ~Valid(labels[p]) => ~c.ready
                      /\ \A o \in AnyOverride, value \in AnyGates :
                            LET d == Normalize(report[p], labels[p], held[p], o, value)
                            IN  /\ c.ready = d.ready /\ c.policy = d.policy
                                /\ c.target = d.target /\ c.change = d.change
      OBVIOUS
  <2>1. c = Normalize(report[p], labels[p], held[p], over[p], stored[p])
      BY OwnUpsert DEF Upsert, Item
  <2> QED
      BY <2>1, LabelsAlone
<1> QED
    BY <1>1, TypeCorrect, PTL DEF Spec, LabelsAuthoritative

---------------------------------------------------------------------------
\* A scan that is alone

\* What such a scan has read is what stands there, what it has published is what
\* it makes of that, and the other thread is idle.
Undisturbed(p) ==
    /\ pc[p] # "idle" /\ pc[Other(p)] = "idle"
    /\ pc[p] # "report" => report[p] = wud
    /\ pc[p] = "inventory" => labels[p] = watched
    /\ pc[p] \notin {"report", "inventory"} => labels[p] = Merged(watched)
    /\ \/ pc[p] \in {"upsert", "supersede", "resolve"}
       \/ p = "scheduler" /\ pc[p] \in {"override", "gates"}
       => held[p] = paused
    /\ \/ pc[p] \in {"gates", "upsert", "supersede", "resolve"}
       \/ p = "web" /\ pc[p] = "controls"
       => over[p] = override
    /\ \/ pc[p] \in {"upsert", "supersede", "resolve"}
       \/ p = "web" /\ pc[p] = "controls"
       => stored[p] = gates
    /\ pc[p] \in {"supersede", "resolve"} /\ report[p] # None =>
         {c \in active : Same(c, Item(p))} = {Item(p)}

AloneInv == \A p \in alone : Undisturbed(p)

\* The settings and the rows that a scan reads
Inputs == <<wud, template, runtime, watched, override, gates, paused>>

\* A step of a thread: of a scan that stays alone it is the scan's own step.
LEMMA ScanStaysAlone ==
    ASSUME TypeOK, AloneInv, NEW p \in Thread, Scan(p)
    PROVE  AloneInv'
<1> USE DEF Thread, settings, locals, Inputs
<1> SUFFICES ASSUME NEW q \in alone' PROVE Undisturbed(q)'
    BY DEF AloneInv
<1>1. pc[p] # "idle" /\ q \in alone /\ UNCHANGED Inputs
    BY DEF Scan, FetchReport, ReadInventory, ReadControls, ReadOverride, ReadGates,
           Upsert, Supersede, Resolve
<1>2. q = p /\ p \in {"scheduler", "web"} /\ Undisturbed(p) /\ p \in alone'
    BY <1>1 DEF AloneInv, Undisturbed, Other, TypeOK
<1>3. Merged(watched)' = Merged(watched)
    BY <1>1 DEF Merged
<1>4. pc[Other(p)] = "idle" /\ Other(p) # p
    BY <1>2 DEF Undisturbed, Other
<1>5. ASSUME NEW step, pc' = [pc EXCEPT ![p] = step]
      PROVE  pc'[p] = step /\ pc'[Other(p)] = "idle"
    BY <1>4, <1>5 DEF TypeOK, Other
<1>6. Item(p)' = Normalize(report'[p], labels'[p], held'[p], over'[p], stored'[p])
    BY DEF Item
<1> SUFFICES Undisturbed(p)'
    BY <1>2
<1>7. CASE FetchReport(p)
  <2>1. Follow[p]["report"] = "inventory"
      BY <1>2 DEF Follow
  <2>2. pc'[p] = "inventory" /\ report'[p] = wud /\ labels'[p] = watched
      BY <1>2, <1>5, <1>7, <2>1 DEF FetchReport, Advance, TypeOK
  <2> QED
      BY <1>1, <1>5, <1>7, <2>1, <2>2 DEF FetchReport, Advance, Undisturbed
<1>8. CASE ReadInventory(p)
  <2>1. Follow[p]["inventory"] = IF p = "web" THEN "override" ELSE "controls"
      BY <1>2 DEF Follow
  <2>2. /\ pc'[p] = Follow[p]["inventory"] /\ pc'[Other(p)] = "idle"
        /\ labels'[p] = Merged(watched)
      BY <1>2, <1>5, <1>8 DEF ReadInventory, Advance, TypeOK, Undisturbed
  <2> QED
      BY <1>1, <1>2, <1>3, <1>8, <2>1, <2>2 DEF ReadInventory, Undisturbed
<1>9. CASE ReadControls(p)
  <2>1. Follow[p]["controls"] = IF p = "web" THEN "upsert" ELSE "override"
      BY <1>2 DEF Follow
  <2>2. /\ pc'[p] = Follow[p]["controls"] /\ pc'[Other(p)] = "idle"
        /\ held'[p] = paused
      BY <1>5, <1>9 DEF ReadControls, Advance, TypeOK
  <2> QED
      BY <1>1, <1>2, <1>3, <1>9, <2>1, <2>2 DEF ReadControls, Undisturbed
<1>10. CASE ReadOverride(p)
  <2>1. Follow[p]["override"] = "gates"
      BY <1>2 DEF Follow
  <2>2. /\ pc'[p] = "gates" /\ pc'[Other(p)] = "idle" /\ over'[p] = override
      BY <1>5, <1>10, <2>1 DEF ReadOverride, Advance, TypeOK
  <2> QED
      BY <1>1, <1>2, <1>3, <1>10, <2>1, <2>2 DEF ReadOverride, Undisturbed
<1>11. CASE ReadGates(p)
  <2>1. Follow[p]["gates"] = IF p = "web" THEN "controls" ELSE "upsert"
      BY <1>2 DEF Follow
  <2>2. /\ pc'[p] = Follow[p]["gates"] /\ pc'[Other(p)] = "idle"
        /\ stored'[p] = gates
      BY <1>5, <1>11 DEF ReadGates, Advance, TypeOK
  <2> QED
      BY <1>1, <1>2, <1>3, <1>11, <2>1, <2>2 DEF ReadGates, Undisturbed
<1>12. CASE Upsert(p)
  <2>1. Follow[p]["upsert"] \in {"supersede", "resolve"}
      BY <1>2 DEF Follow
  <2>2. /\ pc'[p] \in {"supersede", "resolve"} /\ pc'[Other(p)] = "idle"
        /\ UNCHANGED <<locals, Inputs>> /\ Item(p)' = Item(p)
      BY <1>5, <1>6, <1>12, <2>1 DEF Upsert, Advance, Item
  <2>3. report[p] # None => {c \in active' : Same(c, Item(p))} = {Item(p)}
    <3>1. Same(Item(p), Item(p))
        BY DEF Same
    <3> QED
        BY <1>12, <3>1 DEF Upsert
  <2> QED
      BY <1>2, <1>3, <1>12, <2>2, <2>3 DEF Upsert, Undisturbed, Same
<1>13. CASE Supersede(p)
  <2>1. Follow[p]["supersede"] = "resolve"
      BY <1>13 DEF Supersede, Follow
  <2>2. /\ pc'[p] = "resolve" /\ pc'[Other(p)] = "idle"
        /\ UNCHANGED <<locals, Inputs>> /\ Item(p)' = Item(p)
      BY <1>5, <1>6, <1>13, <2>1 DEF Supersede, Advance, Item
  <2>3. report[p] # None => {c \in active' : Same(c, Item(p))} = {Item(p)}
    <3>1. report[p] # None => {c \in active : Same(c, Item(p))} = {Item(p)}
        BY <1>2, <1>13 DEF Supersede, Undisturbed
    <3> QED
        BY <1>13, <3>1 DEF Supersede
  <2> QED
      BY <1>2, <1>3, <1>13, <2>2, <2>3 DEF Supersede, Undisturbed, Same
<1>14. CASE Resolve(p)
    BY <1>2, <1>14 DEF Resolve
<1> QED
    BY <1>7, <1>8, <1>9, <1>10, <1>11, <1>12, <1>13, <1>14 DEF Scan

\* A scan that begins is alone, and has read nothing, if the other thread is idle.
LEMMA BeginsAlone ==
    ASSUME TypeOK, NEW p \in Thread, Begin(p)
    PROVE  AloneInv'
<1>1. pc'[p] = "report" /\ pc'[Other(p)] = pc[Other(p)]
    BY DEF Begin, TypeOK, Other, Thread
<1>2. alone' \subseteq {p} /\ (p \in alone' => pc[Other(p)] = "idle")
    BY DEF Begin
<1> QED
    BY <1>1, <1>2 DEF AloneInv, Undisturbed

LEMMA AloneSteps == TypeOK /\ AloneInv /\ [Next]_vars => AloneInv'
<1> SUFFICES ASSUME TypeOK, AloneInv, [Next]_vars PROVE AloneInv'
    OBVIOUS
<1>1. CASE \E p \in Thread : Scan(p)
    BY <1>1, ScanStaysAlone
<1>2. ASSUME NEW p \in Thread, Begin(p) PROVE AloneInv'
    BY <1>2, BeginsAlone
<1>3. CASE alone' = {}
    BY <1>3 DEF AloneInv
<1>4. CASE UNCHANGED vars
    BY <1>4 DEF vars, settings, locals, AloneInv, Undisturbed, Merged, Item, Same
<1>5. "web" \in Thread /\ "scheduler" \in Thread
    BY DEF Thread
<1> QED
    BY <1>1, <1>2, <1>3, <1>4, <1>5
    DEF Next, Trigger, SaveOverride, SaveGates, SaveLabels, EditTemplate, SetPaused,
        Recreate, WudWatch, WudChange

\* A request that saves a policy, or any other scan during which nothing else
\* changes, leaves exactly the candidate that the settings call for.
THEOREM SavesTakeEffect == Spec => SaveTakesEffect
<1>1. TypeOK /\ AloneInv /\ [Next]_vars =>
        [\A p \in alone : pc[p] = "resolve" /\ pc'[p] = "idle" => active' = Current]_vars
  <2> SUFFICES ASSUME TypeOK, AloneInv, [Next]_vars, NEW p \in alone,
                      pc[p] = "resolve", pc'[p] = "idle"
               PROVE  active' = Current
      OBVIOUS
  <2>1. p \in Thread /\ Undisturbed(p) /\ pc[Other(p)] = "idle"
      BY DEF TypeOK, AloneInv, Undisturbed
  <2>2. Resolve(p)
    <3>1. ASSUME NEW q \in Thread, Scan(q) PROVE Resolve(p)
      <4>1. pc[q] # "idle"
          BY <3>1 DEF Scan, FetchReport, ReadInventory, ReadControls, ReadOverride,
                      ReadGates, Upsert, Supersede, Resolve
      <4>2. q = p
          BY <2>1, <4>1 DEF Other, Thread
      <4> QED
          BY <3>1, <4>2 DEF Scan, FetchReport, ReadInventory, ReadControls, ReadOverride,
                            ReadGates, Upsert, Supersede
    <3>2. ASSUME NEW q \in Thread, pc[q] = "idle", Begin(q) PROVE FALSE
        BY <2>1, <3>2 DEF Begin, TypeOK
    <3>3. pc' # pc
        OBVIOUS
    <3> QED
        BY <3>1, <3>2, <3>3
        DEF Next, Trigger, SaveOverride, SaveGates, SaveLabels, EditTemplate, SetPaused,
            Recreate, WudWatch, WudChange, vars, Thread
  <2>3. active' = IF report[p] = None THEN {} ELSE {Item(p)}
      BY <2>1, <2>2 DEF Resolve, Undisturbed
  <2>4. /\ report[p] = wud /\ labels[p] = Merged(watched) /\ held[p] = paused
        /\ over[p] = override /\ stored[p] = gates
      BY <2>1 DEF Undisturbed
  <2> QED
      BY <2>3, <2>4 DEF Current, Item
<1>2. Init => AloneInv
    BY DEF Init, AloneInv
<1>3. Spec => []AloneInv
    BY <1>2, AloneSteps, TypeCorrect, PTL DEF Spec
<1> QED
    BY <1>1, <1>3, TypeCorrect, PTL DEF Spec, SaveTakesEffect

=============================================================================
