-------------------------- MODULE AdminRequestsProofs --------------------------
(***************************************************************************)
(* What the records keep for every set of requests, forms and templates,   *)
(* and any number of edits, failing calls and crashes.                     *)
(***************************************************************************)
EXTENDS AdminRequests, TemplateLabelsProofs, TLAPS

Event == [by : Req, step : {"insert_row", "insert"}, prev : Nat]
JsonLine == [of : SUBSET Req, prev : Nat, whole : BOOLEAN, ended : BOOLEAN]
StepName == {"idle", "parse", "change"} \cup Saving \cup Auditing \cup Returned

\* The types that the records need; the templates are of no account to them.
RecordType ==
    /\ trail \in Seq(Event) /\ file \in Seq(JsonLine)
    /\ what \in [Req -> Request]
    /\ pc \in [Req -> StepName]
    /\ seen \in [Req -> Nat]

Early == {"idle", "parse", "change"} \cup Saving
Lined(r) == \E i \in DOMAIN file : r \in file[i].of

\* How far a request has come tells which of its records exist.
Progress(r) ==
    /\ pc[r] \in {"parse"} \cup Saving => what[r].kind = "labels"
    /\ pc[r] \in {"select_row", "insert_row", "tail", "append"} => what[r].kind = "decision"
    /\ pc[r] \in Auditing \cup {"ok"} /\ what[r].kind # "login" => r \in done
    /\ pc[r] \in Early \cup {"select_row", "insert_row"} => ~ Told(r, "insert_row")
    /\ pc[r] \in Early \cup {"select_row", "insert_row", "select", "insert"} => ~ Told(r, "insert")
    /\ pc[r] \in {"select", "insert", "tail", "append", "ok"} /\ what[r].kind = "decision"
          => Told(r, "insert_row")
    /\ pc[r] \in {"tail", "append", "ok"} => Told(r, "insert")
    /\ pc[r] \notin Returned => ~ Lined(r)
    /\ pc[r] = "ok" /\ what[r].kind = "decision" /\ EvidenceRoot => Filed(r)

\* Each event follows its change, and none is written twice.
Once ==
    /\ \A i \in DOMAIN trail : what[trail[i].by].kind # "login" => trail[i].by \in done
    /\ \A i, j \in DOMAIN trail :
          trail[i].by = trail[j].by /\ trail[i].step = trail[j].step => i = j
    /\ \A i, j \in DOMAIN file : file[i].of \cap file[j].of # {} => i = j

\* As long as nobody was between another's read and write, a request that is
\* about to write has read the record that is still the last.
Fresh ==
    /\ "trail" \notin overlap =>
          \A r \in Req : pc[r] \in {"insert_row", "insert"} => seen[r] = Len(trail)
    /\ "file" \notin overlap =>
          \A r \in Req : pc[r] = "append" => seen[r] = Len(file) /\ ~ Torn

\* Every line is somebody's.
Written == \A i \in DOMAIN file : file[i].of # {}

IInv ==
    /\ RecordType
    /\ \A r \in Req : Progress(r)
    /\ Once /\ Written
    /\ Fresh
    /\ ChainWithoutOverlap

\* What Append does to positions and elements.
LEMMA AppendFacts ==
    ASSUME NEW S, NEW s \in Seq(S), NEW x \in S
    PROVE  /\ Append(s, x) \in Seq(S)
           /\ Len(s) \in Nat /\ Len(Append(s, x)) = Len(s) + 1
           /\ DOMAIN s = 1 .. Len(s)
           /\ DOMAIN Append(s, x) = 1 .. (Len(s) + 1)
           /\ \A i \in 1 .. Len(s) : Append(s, x)[i] = s[i]
           /\ Append(s, x)[Len(s) + 1] = x
    OBVIOUS

LEMMA InitRecords == Init => IInv
<1> SUFFICES ASSUME Init PROVE IInv
    OBVIOUS
<1>1. RecordType
    BY DEF Init, RecordType, StepName
<1>2. DOMAIN trail = {} /\ DOMAIN file = {}
    BY DEF Init
<1>3. \A r \in Req : Progress(r)
    BY <1>2 DEF Init, Progress, Told, Lined, Filed, Saving, Auditing, Returned, Early
<1> QED
    BY <1>1, <1>2, <1>3 DEF Init, IInv, Once, Written, Fresh, ChainWithoutOverlap

\* A step that writes no record keeps the invariant when it takes its own
\* request where the invariant allows.
LEMMA QuietStep ==
    ASSUME IInv, NEW r \in Req, NEW p \in StepName,
           pc' = [pc EXCEPT ![r] = p], seen' \in [Req -> Nat],
           \A s \in Req \ {r} : seen'[s] = seen[s],
           UNCHANGED <<trail, file, what>>,
           done \subseteq done', overlap \subseteq overlap',
           p \in {"insert_row", "insert"} => seen'[r] = Len(trail),
           p = "append" => seen'[r] = Len(file) /\ ~ Torn,
           Progress(r)'
    PROVE  IInv'
<1>1. RecordType'
    BY DEF IInv, RecordType
<1>2. \A s \in Req : Progress(s)'
  <2> SUFFICES ASSUME NEW s \in Req, s # r PROVE Progress(s)'
      OBVIOUS
  <2>1. pc'[s] = pc[s] /\ Progress(s)
      BY DEF IInv, RecordType
  <2> QED
      BY <2>1 DEF Progress, Told, Lined, Filed
<1>3. Once' /\ Written'
    BY DEF IInv, Once, Written
<1>4. Fresh'
  <2>1. \A s \in Req : s # r => pc'[s] = pc[s] /\ seen'[s] = seen[s]
      BY DEF IInv, RecordType
  <2>2. pc'[r] = p
      BY DEF IInv, RecordType
  <2>3. Torn' = Torn
      BY DEF Torn
  <2> QED
      BY <2>1, <2>2, <2>3 DEF IInv, Fresh
<1>5. ChainWithoutOverlap'
    BY DEF IInv, ChainWithoutOverlap
<1> QED
    BY <1>1, <1>2, <1>3, <1>4, <1>5 DEF IInv

\* Steps that go on, or end, without touching the records.
LEMMA StepsBeforeTheChange ==
    ASSUME IInv, NEW r \in Req,
           Send(r) \/ Parse(r) \/ ReadBefore(r) \/ Backup(r)
    PROVE  IInv'
<1> USE DEF StepName, Saving, Auditing, Returned, Early
<1>1. PICK p \in {"parse", "change", "select", "before", "backup", "replace", "err"} :
          /\ pc' = [pc EXCEPT ![r] = p]
          /\ p = "select" => what[r].kind = "login"
          /\ p = "parse" => what[r].kind = "labels"
          /\ p \in Saving => pc[r] \in {"parse"} \cup Saving
          /\ p # "change" \/ pc[r] = "idle"
          /\ pc[r] \in Early
    BY DEF Send, Parse, ReadBefore, Backup, Raise, Goto
<1>2. UNCHANGED <<trail, file, what, seen, done, overlap>>
    BY DEF Send, Parse, ReadBefore, Backup, records, env
<1>3. Progress(r) /\ pc'[r] = p
    BY <1>1 DEF IInv, RecordType
<1>4. Progress(r)'
    BY <1>1, <1>2, <1>3 DEF Progress, Told, Lined, Filed
<1>5. seen \in [Req -> Nat]
    BY DEF IInv, RecordType
<1> QED
    BY <1>1, <1>2, <1>4, <1>5, QuietStep

\* A change is made, or fails.
LEMMA StepsOfTheChange ==
    ASSUME IInv, NEW r \in Req,
           Replace(r) \/ ChangeControl(r) \/ RecordDecision(r)
    PROVE  IInv'
<1> USE DEF StepName, Saving, Auditing, Returned, Early
<1>1. UNCHANGED <<trail, file, what, seen>> /\ overlap \subseteq overlap'
    BY DEF Replace, ChangeControl, RecordDecision, records, env
<1>2. PICK p \in {"select", "select_row", "err"} :
          /\ pc' = [pc EXCEPT ![r] = p]
          /\ p # "err" => r \in done'
          /\ p = "select_row" => what[r].kind = "decision"
          /\ pc[r] \in Early
          /\ p = "select" => what[r].kind # "decision" \/ pc[r] = "replace"
    BY DEF Replace, ChangeControl, RecordDecision, Raise, Goto
<1>3. done \subseteq done'
    BY DEF Replace, ChangeControl, RecordDecision
<1>4. Progress(r) /\ pc'[r] = p
    BY <1>2 DEF IInv, RecordType
<1>5. Progress(r)'
    BY <1>1, <1>2, <1>4 DEF Progress, Told, Lined, Filed
<1>6. seen \in [Req -> Nat]
    BY DEF IInv, RecordType
<1> QED
    BY <1>1, <1>2, <1>3, <1>5, <1>6, QuietStep

\* The last record is read.
LEMMA StepsThatRead ==
    ASSUME IInv, NEW r \in Req,
           SelectLast(r) \/ ReadTail(r)
    PROVE  IInv'
<1> USE DEF StepName, Saving, Auditing, Returned, Early
<1>1. UNCHANGED <<trail, file, what, done, overlap>>
    BY DEF SelectLast, ReadTail, records, env
<1>2. seen \in [Req -> Nat] /\ Len(trail) \in Nat /\ Len(file) \in Nat
    BY DEF IInv, RecordType
<1>3. /\ seen' \in [Req -> Nat]
      /\ \A s \in Req \ {r} : seen'[s] = seen[s]
    BY <1>2 DEF SelectLast, ReadTail
<1>4. PICK p \in {"insert_row", "insert", "append", "err"} :
          /\ pc' = [pc EXCEPT ![r] = p]
          /\ p = "insert_row" => pc[r] = "select_row"
          /\ p = "insert" => pc[r] = "select"
          /\ p = "append" => pc[r] = "tail"
          /\ p \in {"insert_row", "insert"} => seen'[r] = Len(trail)
          /\ p = "append" => seen'[r] = Len(file) /\ ~ Torn
    BY <1>2 DEF SelectLast, ReadTail, Raise, Goto
<1>5. Progress(r) /\ pc'[r] = p
    BY <1>4 DEF IInv, RecordType
<1>6. Progress(r)'
    BY <1>1, <1>4, <1>5 DEF Progress, Told, Lined, Filed
<1> QED
    BY <1>1, <1>3, <1>4, <1>6, QuietStep

\* db.audit writes its row.
LEMMA StepInsertEvent ==
    ASSUME IInv, NEW r \in Req, InsertEvent(r)
    PROVE  IInv'
<1> USE DEF StepName, Saving, Auditing, Returned, Early
<1> DEFINE event == [by |-> r, step |-> pc[r], prev |-> seen[r]]
           n == Len(trail) + 1
<1>1. CASE UNCHANGED <<trail, overlap>> /\ Raise(r)
  <2>1. pc' = [pc EXCEPT ![r] = "err"] /\ UNCHANGED <<trail, file, what, seen, done, overlap>>
      BY <1>1 DEF InsertEvent, Raise, Goto
  <2>2. Progress(r) /\ pc'[r] = "err"
      BY <2>1 DEF IInv, RecordType
  <2>3. Progress(r)'
      BY <2>1, <2>2 DEF Progress, Told, Lined, Filed
  <2>4. seen \in [Req -> Nat]
      BY DEF IInv, RecordType
  <2> QED
      BY <2>1, <2>3, <2>4, QuietStep
<1>2. CASE /\ trail' = Append(trail, event)
           /\ overlap' = overlap \cup Between(r, {"insert_row", "insert"}, "trail")
           /\ Goto(r, IF pc[r] = "insert_row" THEN "select"
                      ELSE IF what[r].kind = "decision" /\ EvidenceRoot THEN "tail" ELSE "ok")
  <2>1. /\ pc[r] \in {"insert_row", "insert"}
        /\ UNCHANGED <<file, what, seen, done>>
      BY DEF InsertEvent
  <2>2. event \in Event /\ trail \in Seq(Event)
      BY <2>1 DEF IInv, RecordType, Event
  <2>3. /\ trail' \in Seq(Event)
        /\ Len(trail) \in Nat /\ Len(trail') = n
        /\ DOMAIN trail = 1 .. Len(trail) /\ DOMAIN trail' = 1 .. n
        /\ \A i \in 1 .. Len(trail) : trail'[i] = trail[i]
        /\ trail'[n] = event
      BY <1>2, <2>2, AppendFacts
  <2>4. PICK p \in {"select", "tail", "ok"} :
          /\ pc' = [pc EXCEPT ![r] = p]
          /\ p = "select" <=> pc[r] = "insert_row"
          /\ p = "tail" => what[r].kind = "decision"
          /\ p = "ok" => ~ (what[r].kind = "decision" /\ EvidenceRoot)
      BY <1>2, <2>1 DEF Goto
  <2>5. Progress(r) /\ pc'[r] = p /\ \A s \in Req \ {r} : pc'[s] = pc[s]
      BY <2>4 DEF IInv, RecordType
  <2>6. RecordType'
      BY <2>1, <2>3, <2>4 DEF IInv, RecordType
  <2>7. \A s \in Req, step \in {"insert_row", "insert"} :
          Told(s, step)' <=> Told(s, step) \/ (s = r /\ step = pc[r])
      BY <2>3 DEF Told
  <2>8. \A s \in Req : Progress(s)'
    <3>1. CASE pc[r] = "insert_row"
        BY <2>1, <2>4, <2>5, <2>7, <1>2, <3>1 DEF IInv, Progress, Lined, Filed
    <3>2. CASE pc[r] = "insert"
        BY <2>1, <2>4, <2>5, <2>7, <1>2, <3>2 DEF IInv, Progress, Lined, Filed
    <3> QED
        BY <2>1, <3>1, <3>2
  <2>9. Once' /\ Written'
    <3>1. \A i \in DOMAIN trail : trail[i].by \in Req
      <4>1. \A i \in DOMAIN trail : trail[i] \in Event
          BY <2>2
      <4> QED
          BY <4>1 DEF Event
    <3>2. what[r].kind # "login" => r \in done
        BY <2>1, <2>5 DEF Progress
    <3>3. ~ Told(r, pc[r])
        BY <2>1, <2>5 DEF Progress
    <3> QED
        BY <2>1, <2>3, <3>1, <3>2, <3>3 DEF IInv, Once, Written, Told
  <2>10. "trail" \notin overlap' =>
            /\ "trail" \notin overlap
            /\ \A s \in Req \ {r} : pc[s] \notin {"insert_row", "insert"}
      BY <1>2 DEF Between
  <2>11. "file" \notin overlap' => "file" \notin overlap
      BY <1>2
  <2>12. Fresh'
    <3>1. Torn' = Torn
        BY <2>1 DEF Torn
    <3> QED
        BY <2>1, <2>4, <2>5, <2>10, <2>11, <3>1 DEF IInv, Fresh
  <2>13. ChainWithoutOverlap'
    <3>1. "trail" \notin overlap' => seen[r] = Len(trail)
        BY <2>1, <2>10 DEF IInv, Fresh
    <3> QED
        BY <2>1, <2>3, <2>10, <2>11, <3>1 DEF IInv, ChainWithoutOverlap
  <2> QED
      BY <2>6, <2>8, <2>9, <2>12, <2>13 DEF IInv
<1> QED
    BY <1>1, <1>2 DEF InsertEvent

\* What a write leaves: every line but the last one it touches is as before.
LEMMA LineWritten ==
    ASSUME RecordType, NEW r \in Req, NEW whole \in BOOLEAN, NEW ended \in BOOLEAN,
           Write(r, whole, ended)
    PROVE  LET n == IF Unended THEN Len(file) ELSE Len(file) + 1
           IN  /\ file' \in Seq(JsonLine)
               /\ Len(file) \in Nat /\ n \in Nat \ {0} /\ Len(file') = n
               /\ DOMAIN file = 1 .. Len(file) /\ DOMAIN file' = 1 .. n
               /\ \A i \in 1 .. n : i # n => i \in DOMAIN file /\ file'[i] = file[i]
               /\ file'[n].ended = ended
               /\ Unended =>
                     /\ file[n] \in JsonLine /\ ~ file[n].ended
                     /\ file'[n].of = file[n].of \cup {r} /\ file'[n].prev = file[n].prev
                     /\ ~ file'[n].whole
               /\ ~ Unended =>
                     /\ file'[n].of = {r} /\ file'[n].prev = seen[r]
                     /\ file'[n].whole = whole
<1>1. /\ file \in Seq(JsonLine) /\ seen[r] \in Nat
      /\ Len(file) \in Nat /\ DOMAIN file = 1 .. Len(file)
    BY DEF RecordType
<1>2. CASE Unended
  <2> DEFINE n == Len(file)
             line == [of |-> file[n].of \cup {r}, prev |-> file[n].prev,
                      whole |-> FALSE, ended |-> ended]
  <2>1. n \in DOMAIN file /\ ~ file[n].ended
      BY <1>1, <1>2 DEF Unended
  <2>2. file[n] \in JsonLine
      BY <1>1, <2>1
  <2>3. /\ line \in JsonLine /\ line.of = file[n].of \cup {r} /\ line.prev = file[n].prev
        /\ line.whole = FALSE /\ line.ended = ended
      BY <2>2 DEF JsonLine
  <2>4. file' = [file EXCEPT ![n] = line]
      BY <1>2 DEF Write
  <2> HIDE DEF line
  <2>5. /\ file' \in Seq(JsonLine) /\ Len(file') = n /\ DOMAIN file' = 1 .. n
        /\ \A i \in 1 .. n : i # n => i \in DOMAIN file /\ file'[i] = file[i]
        /\ file'[n] = line
    <3>1. n \in 1 .. Len(file) /\ n \in Nat \ {0}
        BY <1>1, <2>1
    <3>2. /\ file' \in Seq(JsonLine) /\ Len(file') = Len(file)
          /\ \A i \in 1 .. Len(file) : file'[i] = IF i = n THEN line ELSE file[i]
        BY <1>1, <2>3, <2>4, <3>1, ExceptSeq
    <3>3. DOMAIN file' = 1 .. Len(file')
        BY <3>2, LenProperties
    <3> QED
        BY <1>1, <3>1, <3>2, <3>3
  <2> QED
      BY <1>1, <1>2, <2>1, <2>2, <2>3, <2>5
<1>3. CASE ~ Unended
  <2> DEFINE line == [of |-> {r}, prev |-> seen[r], whole |-> whole, ended |-> ended]
  <2>1. line \in JsonLine
      BY <1>1 DEF JsonLine
  <2>2. file' = Append(file, line)
      BY <1>3 DEF Write
  <2>3. /\ line.of = {r} /\ line.prev = seen[r] /\ line.whole = whole /\ line.ended = ended
      OBVIOUS
  <2> HIDE DEF line
  <2>4. /\ file' \in Seq(JsonLine) /\ Len(file') = Len(file) + 1
        /\ DOMAIN file' = 1 .. (Len(file) + 1)
        /\ \A i \in 1 .. Len(file) : file'[i] = file[i]
        /\ file'[Len(file) + 1] = line
      BY <1>1, <2>1, <2>2, AppendFacts
  <2> QED
      BY <1>1, <1>3, <2>3, <2>4
<1> QED
    BY <1>2, <1>3

\* A write keeps what holds of the file, if the request has no line yet and nobody
\* was between its read and its write.
LEMMA FileExtended ==
    ASSUME IInv, NEW r \in Req, NEW whole \in BOOLEAN, NEW ended \in BOOLEAN,
           Write(r, whole, ended), pc[r] = "append",
           UNCHANGED <<trail, what, done>>,
           "trail" \notin overlap' => "trail" \notin overlap,
           "file" \notin overlap' => seen[r] = Len(file) /\ "file" \notin overlap /\ ~ Torn
    PROVE  /\ file' \in Seq(JsonLine)
           /\ \A s \in Req : Lined(s)' <=> Lined(s) \/ s = r
           /\ \A s \in Req : Filed(s) => Filed(s)'
           /\ ended /\ whole => Filed(r)'
           /\ Once' /\ Written' /\ ChainWithoutOverlap'
<1> DEFINE n == IF Unended THEN Len(file) ELSE Len(file) + 1
<1>1. /\ file' \in Seq(JsonLine)
      /\ Len(file) \in Nat /\ n \in Nat \ {0} /\ Len(file') = n
      /\ DOMAIN file = 1 .. Len(file) /\ DOMAIN file' = 1 .. n
      /\ \A i \in 1 .. n : i # n => i \in DOMAIN file /\ file'[i] = file[i]
      /\ file'[n].ended = ended
      /\ Unended =>
            /\ file[n] \in JsonLine /\ ~ file[n].ended
            /\ file'[n].of = file[n].of \cup {r} /\ file'[n].prev = file[n].prev
            /\ ~ file'[n].whole
      /\ ~ Unended =>
            /\ file'[n].of = {r} /\ file'[n].prev = seen[r]
            /\ file'[n].whole = whole
    BY LineWritten DEF IInv
<1>2. /\ Unended => n = Len(file) /\ n \in DOMAIN file
      /\ ~ Unended => n = Len(file) + 1 /\ n \notin DOMAIN file
  <2>1. Len(file) \in Nat /\ n \in Nat \ {0} /\ DOMAIN file = 1 .. Len(file)
      BY <1>1
  <2>2. CASE Unended
      BY <2>1, <2>2
  <2>3. CASE ~ Unended
    <3>1. n = Len(file) + 1
        BY <2>3
    <3> HIDE DEF n
    <3>2. n \notin DOMAIN file
        BY <2>1, <3>1
    <3> QED
        BY <2>3, <3>1, <3>2
  <2> QED
      BY <2>2, <2>3
<1>3. /\ n \in DOMAIN file'
      /\ \A i \in DOMAIN file' : i # n => i \in DOMAIN file
      /\ \A i \in DOMAIN file : i \in DOMAIN file' /\ (i # n => file'[i] = file[i])
  <2>1. /\ Len(file) \in Nat /\ n \in Nat \ {0}
        /\ DOMAIN file = 1 .. Len(file) /\ DOMAIN file' = 1 .. n
        /\ \A i \in 1 .. n : i # n => i \in DOMAIN file /\ file'[i] = file[i]
      BY <1>1
  <2>2. n = Len(file) \/ n = Len(file) + 1
      BY <1>2
  <2> HIDE DEF n
  <2>3. n \in 1 .. n /\ 1 .. Len(file) \subseteq 1 .. n
    <3>1. \A m \in Nat, k \in Nat \ {0} : k = m \/ k = m + 1 =>
              k \in 1 .. k /\ 1 .. m \subseteq 1 .. k
        OBVIOUS
    <3>2. Len(file) \in Nat /\ n \in Nat \ {0}
        BY <2>1
    <3> QED
        BY <2>2, <3>1, <3>2
  <2> QED
      BY <2>1, <2>3
<1>4. ~ Lined(r)
    BY DEF IInv, Progress, Returned
<1> HIDE DEF n
<1>5. \A s \in Req : Lined(s)' <=> Lined(s) \/ s = r
    BY <1>1, <1>2, <1>3 DEF Lined
<1>6. \A s \in Req : Filed(s) => Filed(s)'
  <2> SUFFICES ASSUME NEW s \in Req, NEW i \in DOMAIN file,
                      s \in file[i].of, file[i].ended, file[i].of = {s} => file[i].whole
               PROVE  Filed(s)'
      BY DEF Filed
  <2>1. i # n
      BY <1>1, <1>2
  <2> QED
      BY <1>3, <2>1 DEF Filed
<1>7. ended /\ whole => Filed(r)'
  <2> SUFFICES ASSUME ended, whole PROVE Filed(r)'
      OBVIOUS
  <2>1. r \in file'[n].of /\ file'[n].ended
      BY <1>1
  <2>2. file'[n].of = {r} => ~ Unended \/ file[n].of \subseteq {r}
      BY <1>1
  <2>3. Unended => ~ (file[n].of \subseteq {r})
    <3>1. Unended => r \notin file[n].of
        BY <1>2, <1>4 DEF Lined
    <3>2. Unended => file[n].of # {}
        BY <1>2 DEF IInv, Written
    <3> QED
        BY <3>1, <3>2
  <2> QED
      BY <1>1, <1>3, <2>1, <2>2, <2>3 DEF Filed
<1>8. Once' /\ Written'
  <2>1. \A i \in DOMAIN file : r \notin file[i].of
      BY <1>4 DEF Lined
  <2>2. \A i \in DOMAIN file' : i # n =>
            /\ file'[i].of \cap file'[n].of = {}
            /\ file'[n].of \cap file'[i].of = {}
    <3> SUFFICES ASSUME NEW i \in DOMAIN file', i # n
                 PROVE  file'[i].of \cap file'[n].of = {}
        OBVIOUS
    <3>1. i \in DOMAIN file /\ file'[i] = file[i]
        BY <1>3
    <3>2. Unended => file[i].of \cap file[n].of = {}
        BY <1>2, <3>1 DEF IInv, Once
    <3> QED
        BY <1>1, <2>1, <3>1, <3>2
  <2>3. \A i, j \in DOMAIN file' : file'[i].of \cap file'[j].of # {} => i = j
    <3> SUFFICES ASSUME NEW i \in DOMAIN file', NEW j \in DOMAIN file', i # j
                 PROVE  file'[i].of \cap file'[j].of = {}
        OBVIOUS
    <3>1. CASE i # n /\ j # n
        BY <1>3, <3>1 DEF IInv, Once
    <3> QED
        BY <2>2, <3>1
  <2>4. Written'
    <3> SUFFICES ASSUME NEW i \in DOMAIN file' PROVE file'[i].of # {}
        BY DEF Written
    <3>1. CASE i = n
        BY <1>1, <3>1
    <3>2. CASE i # n
        BY <1>3, <3>2 DEF IInv, Written
    <3> QED
        BY <3>1, <3>2
  <2> QED
      BY <2>3, <2>4 DEF IInv, Once
<1>9. ChainWithoutOverlap'
  <2> SUFFICES ASSUME "file" \notin overlap', NEW i \in DOMAIN file'
               PROVE  file'[i].prev = i - 1 /\ (file'[i].whole \/ i = Len(file'))
      BY DEF IInv, ChainWithoutOverlap
  <2>1. /\ \A j \in DOMAIN file : file[j].prev = j - 1 /\ (file[j].whole \/ j = Len(file))
        /\ seen[r] = Len(file)
        /\ Len(file) \in DOMAIN file => file[Len(file)].whole
    <3>1. "file" \notin overlap /\ seen[r] = Len(file) /\ ~ Torn
        OBVIOUS
    <3>2. \A j \in DOMAIN file : file[j].prev = j - 1 /\ (file[j].whole \/ j = Len(file))
        BY <3>1 DEF IInv, ChainWithoutOverlap
    <3> QED
        BY <1>1, <3>1, <3>2 DEF Torn
  <2>2. CASE i = n
    <3>1. Unended => file[n].prev = n - 1
        BY <1>2, <2>1
    <3>2. ~ Unended => seen[r] = n - 1
      <4>1. Len(file) \in Nat
          BY <1>1
      <4> QED
          BY <1>2, <2>1, <4>1
    <3>3. file'[n].prev = n - 1
        BY <1>1, <3>1, <3>2
    <3>4. Len(file') = n
        BY <1>1
    <3> QED
        BY <2>2, <3>3, <3>4
  <2>3. CASE i # n
    <3>1. i \in DOMAIN file /\ file'[i] = file[i]
        BY <1>3, <2>3
    <3>2. file[i].whole
        BY <1>1, <1>2, <2>1, <2>3, <3>1
    <3> QED
        BY <2>1, <3>1, <3>2
  <2> QED
      BY <2>2, <2>3
<1> QED
    BY <1>1, <1>5, <1>6, <1>7, <1>8, <1>9

\* append_jsonl writes its line, tears it, or fails.
LEMMA StepAppendLine ==
    ASSUME IInv, NEW r \in Req, AppendLine(r)
    PROVE  IInv'
<1> USE DEF StepName, Saving, Auditing, Returned, Early
<1>1. /\ pc[r] = "append" /\ Progress(r)
      /\ UNCHANGED <<trail, what, seen, done>>
    BY DEF AppendLine, IInv
<1>2. PICK p \in {"ok", "err"} : pc' = [pc EXCEPT ![r] = p]
    BY DEF AppendLine, Raise, Goto
<1>3. pc'[r] = p /\ \A s \in Req \ {r} : pc'[s] = pc[s]
    BY <1>2 DEF IInv, RecordType
<1>4. seen \in [Req -> Nat]
    BY DEF IInv, RecordType
<1>5. CASE Raise(r) /\ UNCHANGED <<file, overlap>>
  <2>1. p = "err"
      BY <1>3, <1>5 DEF Raise, Goto, IInv, RecordType
  <2>2. Progress(r)'
      BY <1>1, <1>3, <1>5, <2>1 DEF Progress, Told, Lined, Filed
  <2> QED
      BY <1>1, <1>2, <1>4, <1>5, <2>1, <2>2, QuietStep
<1>6. ASSUME NEW whole \in BOOLEAN, NEW ended \in BOOLEAN, Write(r, whole, ended),
             overlap' = overlap \cup Between(r, {"append"}, "file"),
             p = "ok" => whole /\ ended
      PROVE  IInv'
  <2>1. "file" \notin overlap' =>
            /\ "file" \notin overlap /\ seen[r] = Len(file) /\ ~ Torn
            /\ \A s \in Req \ {r} : pc[s] # "append"
      BY <1>1, <1>6 DEF Between, IInv, Fresh
  <2>2. "trail" \notin overlap' => "trail" \notin overlap
      BY <1>6
  <2>3. /\ file' \in Seq(JsonLine)
        /\ \A s \in Req : Lined(s)' <=> Lined(s) \/ s = r
        /\ \A s \in Req : Filed(s) => Filed(s)'
        /\ ended /\ whole => Filed(r)'
        /\ Once' /\ Written' /\ ChainWithoutOverlap'
      BY <1>1, <1>6, <2>1, <2>2, FileExtended
  <2>4. RecordType'
      BY <1>1, <1>2, <2>3 DEF IInv, RecordType
  <2>5. \A s \in Req : Progress(s)'
    <3>1. Progress(r)'
        BY <1>1, <1>3, <1>6, <2>3 DEF Progress, Told
    <3>2. ASSUME NEW s \in Req \ {r} PROVE Progress(s)'
      <4>1. Progress(s) /\ pc'[s] = pc[s]
          BY <1>3 DEF IInv
      <4> QED
          BY <1>1, <2>3, <4>1 DEF Progress, Told
    <3> QED
        BY <3>1, <3>2
  <2>6. Fresh'
      BY <1>1, <1>3, <2>1, <2>2 DEF IInv, Fresh
  <2> QED
      BY <2>3, <2>4, <2>5, <2>6 DEF IInv
<1>7. CASE Raise(r) /\ WritePart(r) /\ overlap' = overlap \cup Between(r, {"append"}, "file")
  <2>1. p = "err"
      BY <1>3, <1>7 DEF Raise, Goto, IInv, RecordType
  <2> QED
      BY <1>6, <1>7, <2>1 DEF WritePart
<1> QED
    BY <1>5, <1>6, <1>7 DEF AppendLine

LEMMA StepCrash == IInv /\ Crash => IInv'
<1> SUFFICES ASSUME IInv, Crash PROVE IInv'
    OBVIOUS
<1> USE DEF StepName, Saving, Auditing, Returned, Early
<1>1. UNCHANGED <<trail, what, seen, done, overlap>>
    BY DEF Crash
<1>2. \A s \in Req : pc'[s] \in {"idle", "ok", "err", "dead"} /\ pc'[s] \in {pc[s], "dead"}
    BY DEF Crash, IInv, RecordType
<1>3. pc' \in [Req -> StepName]
    BY DEF Crash, IInv, RecordType
<1>4. Fresh'
    BY <1>2 DEF Fresh
<1>5. CASE file' = file
  <2>1. RecordType'
      BY <1>1, <1>3, <1>5 DEF IInv, RecordType
  <2>2. \A s \in Req : Progress(s)'
      BY <1>1, <1>2, <1>5 DEF IInv, Progress, Told, Lined, Filed
  <2>3. Once' /\ Written' /\ ChainWithoutOverlap'
      BY <1>1, <1>5 DEF IInv, Once, Written, ChainWithoutOverlap
  <2> QED
      BY <1>4, <2>1, <2>2, <2>3 DEF IInv
<1>6. ASSUME NEW r \in Req, pc[r] = "append",
             NEW whole \in BOOLEAN, NEW ended \in BOOLEAN, Write(r, whole, ended)
      PROVE  IInv'
  <2>1. "file" \notin overlap' => seen[r] = Len(file) /\ "file" \notin overlap /\ ~ Torn
      BY <1>1, <1>6 DEF IInv, Fresh
  <2>2. "trail" \notin overlap' => "trail" \notin overlap
      BY <1>1
  <2>3. /\ file' \in Seq(JsonLine)
        /\ \A s \in Req : Lined(s)' <=> Lined(s) \/ s = r
        /\ \A s \in Req : Filed(s) => Filed(s)'
        /\ Once' /\ Written' /\ ChainWithoutOverlap'
      BY <1>1, <1>6, <2>1, <2>2, FileExtended
  <2>4. RecordType'
      BY <1>1, <1>3, <2>3 DEF IInv, RecordType
  <2>5. \A s \in Req : Progress(s)'
    <3> SUFFICES ASSUME NEW s \in Req PROVE Progress(s)'
        OBVIOUS
    <3>1. s = r => pc'[s] = "dead"
        BY <1>2, <1>6
    <3>2. Progress(s)
        BY DEF IInv
    <3> QED
        BY <1>1, <1>2, <2>3, <3>1, <3>2 DEF Progress, Told
  <2> QED
      BY <1>4, <2>3, <2>4, <2>5 DEF IInv
<1> QED
    BY <1>5, <1>6 DEF Crash, WritePart

\* An edit of Unraid, like stuttering, leaves the records alone.
LEMMA StepEdit ==
    ASSUME IInv, UNCHANGED <<trail, file, what, pc, seen, done, overlap>>
    PROVE  IInv'
<1>1. RecordType'
    BY DEF IInv, RecordType
<1>2. \A r \in Req : Progress(r)'
    BY DEF IInv, Progress, Told, Lined, Filed
<1>3. Once' /\ Written' /\ Fresh' /\ ChainWithoutOverlap'
    BY DEF IInv, Once, Written, Fresh, Torn, ChainWithoutOverlap
<1> QED
    BY <1>1, <1>2, <1>3 DEF IInv

LEMMA NextRecords == IInv /\ [Next]_vars => IInv'
<1> SUFFICES ASSUME IInv, [Next]_vars PROVE IInv'
    OBVIOUS
<1>1. ASSUME NEW r \in Req, Step(r) PROVE IInv'
    BY <1>1, StepsBeforeTheChange, StepsOfTheChange, StepsThatRead, StepInsertEvent,
       StepAppendLine DEF Step
<1>2. CASE Edit
    BY <1>2, StepEdit DEF Edit, records
<1>3. CASE Crash
    BY <1>3, StepCrash
<1>4. CASE UNCHANGED vars
    BY <1>4, StepEdit DEF vars, records
<1> QED
    BY <1>1, <1>2, <1>3, <1>4 DEF Next

LEMMA Records == Spec => []IInv
<1> QED
    BY InitRecords, NextRecords, PTL DEF Spec

\* db.audit and append_audit chain every record to the one before it unless two
\* requests were between the read of the last record and their own write.
THEOREM RecordsChained == Spec => []ChainWithoutOverlap
<1>1. IInv => ChainWithoutOverlap
    BY DEF IInv
<1> QED
    BY <1>1, Records, PTL

\* The records tell nothing that did not happen, nothing twice, and everything
\* of the requests that were answered.
THEOREM RecordsHonest == Spec => []AuditHonest
<1>1. IInv => AuditHonest
  <2> SUFFICES ASSUME IInv PROVE AuditHonest
      OBVIOUS
  <2>1. ASSUME NEW r \in Req, pc[r] = "ok"
        PROVE  \A step \in Recording(r) : Told(r, step)
      BY <2>1 DEF IInv, Progress, Recording
  <2>2. ASSUME NEW r \in Req, pc[r] = "ok",
               what[r].kind = "decision", EvidenceRoot
        PROVE  Filed(r)
      BY <2>2 DEF IInv, Progress
  <2> QED
      BY <2>1, <2>2 DEF IInv, Once, AuditHonest
<1> QED
    BY <1>1, Records, PTL

---------------------------------------------------------------------------
\* The types

\* What RecordType leaves out
StateType ==
    /\ template \in TemplateFile /\ bak \in TemplateFile
    /\ tree \in [Req -> TemplateFile]
    /\ paused \in BOOLEAN
    /\ done \subseteq Req /\ disturbed \subseteq Req
    /\ overlap \subseteq {"labels", "control", "trail", "file"}
    /\ edits \in Nat /\ faults \in Nat /\ crashes \in Nat

\* What the form of a label save may ask for
LEMMA FormLabels ==
    ASSUME what \in [Req -> Request], NEW r \in Req, what[r].kind = "labels"
    PROVE  \A k \in PolicyKey \cap DOMAIN what[r].labels : what[r].labels[k] \in Value
<1>1. what[r] \in Request
    OBVIOUS
<1>2. what[r].labels \in Form
    BY <1>1 DEF Request
<1> QED
    BY <1>2, AdminAssumption

LEMMA CountersCount ==
    ASSUME StateType, [Next]_vars
    PROVE  edits' \in Nat /\ faults' \in Nat /\ crashes' \in Nat
<1> USE DEF StateType
<1>1. ASSUME NEW r \in Req, Step(r)
      PROVE  UNCHANGED <<edits, crashes>> /\ faults' \in {faults, faults + 1}
    BY <1>1 DEF Step, Send, Parse, ReadBefore, Backup, Replace, ChangeControl, RecordDecision,
                SelectLast, InsertEvent, ReadTail, AppendLine, Raise, env
<1>2. Edit => edits' = edits + 1 /\ UNCHANGED <<faults, crashes>>
    BY DEF Edit
<1>3. Crash => crashes' = crashes + 1 /\ UNCHANGED <<edits, faults>>
    BY DEF Crash
<1>4. UNCHANGED vars => UNCHANGED <<edits, faults, crashes>>
    BY DEF vars, env
<1> QED
    BY <1>1, <1>2, <1>3, <1>4 DEF Next

LEMMA StateTypeStep ==
    ASSUME IInv, StateType, [Next]_vars
    PROVE  StateType'
<1>1. edits' \in Nat /\ faults' \in Nat /\ crashes' \in Nat
    BY CountersCount
<1> DEFINE Rest == /\ template' \in TemplateFile /\ bak' \in TemplateFile
                   /\ tree' \in [Req -> TemplateFile]
                   /\ paused' \in BOOLEAN
                   /\ done' \subseteq Req /\ disturbed' \subseteq Req
                   /\ overlap' \subseteq {"labels", "control", "trail", "file"}
<1>2. ASSUME NEW r \in Req, Step(r) PROVE Rest
  <2> USE DEF StateType
  <2>1. Send(r) \/ ReadBefore(r) \/ SelectLast(r) \/ ReadTail(r) => Rest
      BY DEF Send, ReadBefore, SelectLast, ReadTail, records, env
  <2>2. Parse(r) => Rest
      BY DEF Parse
  <2>3. Backup(r) => Rest
      BY DEF Backup, Disturb
  <2>4. ASSUME Replace(r) PROVE Rest
    <3>1. what[r].kind = "labels"
        BY <2>4 DEF Replace, IInv, Progress, Saving
    <3>2. Saved(tree[r], PolicyLabels(what[r].labels)) \in TemplateFile
        BY <3>1, FormLabels, SavedIsTemplate DEF IInv, RecordType
    <3>3. Crossing(r) \subseteq {"labels"}
        BY <3>1 DEF Crossing
    <3> QED
        BY <2>4, <3>2, <3>3 DEF Replace, Disturb
  <2>5. ASSUME ChangeControl(r) PROVE Rest
    <3>1. what[r].kind = "control" /\ what[r] \in Request
        BY <2>5 DEF ChangeControl, IInv, RecordType
    <3>2. what[r].paused \in BOOLEAN
        BY <3>1 DEF Request
    <3>3. Crossing(r) \subseteq {"control"}
        BY <3>1 DEF Crossing
    <3> QED
        BY <2>5, <3>2, <3>3 DEF ChangeControl
  <2>6. RecordDecision(r) => Rest
      BY DEF RecordDecision, records
  <2>7. InsertEvent(r) => Rest
      BY DEF InsertEvent, Between
  <2>8. AppendLine(r) => Rest
      BY DEF AppendLine, Between
  <2> QED
      BY <1>2, <2>1, <2>2, <2>3, <2>4, <2>5, <2>6, <2>7, <2>8 DEF Step
<1>3. Edit => Rest
    BY AdminAssumption DEF Edit, StateType
<1>4. Crash => Rest
    BY DEF Crash, StateType
<1>5. UNCHANGED vars => Rest
    BY DEF vars, StateType
<1> HIDE DEF Rest
<1>6. Rest
    BY <1>2, <1>3, <1>4, <1>5 DEF Next
<1> QED
    BY <1>1, <1>6 DEF StateType, Rest

LEMMA States == Spec => []StateType
<1>1. Init => StateType
  <2>1. Template \subseteq TemplateFile
      BY AdminAssumption
  <2>2. ASSUME Init
        PROVE  /\ template \in TemplateFile /\ bak \in TemplateFile
               /\ tree \in [Req -> TemplateFile]
      BY <2>1, <2>2 DEF Init
  <2>3. ASSUME Init
        PROVE  /\ paused \in BOOLEAN
               /\ done \subseteq Req /\ disturbed \subseteq Req
               /\ overlap \subseteq {"labels", "control", "trail", "file"}
      BY <2>3 DEF Init
  <2>4. Init => edits \in Nat /\ faults \in Nat /\ crashes \in Nat
      BY DEF Init
  <2> QED
      BY <2>2, <2>3, <2>4 DEF StateType
<1>2. IInv /\ StateType /\ [Next]_vars => StateType'
    BY StateTypeStep
<1> QED
    BY <1>1, <1>2, Records, PTL DEF Spec

\* Whatever the requests, Unraid, failing calls and crashes do, the template on
\* disk, its .bak and the trees in memory are templates of the editor's kind, and
\* the records and the locals keep their types.
THEOREM TypesKept == Spec => []TypeOK
<1>1. IInv /\ StateType => TypeOK
    BY DEF IInv, RecordType, StateType, TypeOK, Event, JsonLine, StepName
<1> QED
    BY <1>1, Records, States, PTL

---------------------------------------------------------------------------
\* A save that nobody disturbs

\* Its tree is what still stands in the template, and then in the .bak too.
Undisturbed ==
    \A r \in Req : pc[r] \in Saving /\ r \notin disturbed =>
        /\ tree[r] = template
        /\ pc[r] = "replace" => bak = template

\* A step that writes neither file keeps this, when its own request stays where
\* it has parsed or does not save.
LEMMA QuietSave ==
    ASSUME Undisturbed, NEW r \in Req,
           \A s \in Req \ {r} : pc'[s] = pc[s],
           pc'[r] \in Saving => pc[r] \in Saving /\ pc'[r] # "replace",
           UNCHANGED <<template, bak, tree, disturbed>>
    PROVE  Undisturbed'
    BY DEF Undisturbed

\* A request that is replacing the template has it replaced, or fails.
LEMMA UndisturbedStep ==
    ASSUME IInv, StateType, Undisturbed, [Next]_vars
    PROVE  Undisturbed'
<1> USE DEF IInv, RecordType
<1>1. ASSUME NEW r \in Req, Step(r) PROVE Undisturbed'
  <2>1. \A s \in Req \ {r} : pc'[s] = pc[s]
      BY <1>1 DEF Step, Send, Parse, ReadBefore, Backup, Replace, ChangeControl,
                  RecordDecision, SelectLast, InsertEvent, ReadTail, AppendLine, Raise, Goto
  <2>2. ASSUME Send(r) PROVE Undisturbed'
    <3>1. pc'[r] \notin Saving
        BY <2>2, Zenon DEF Send, Goto, Saving, StepName
    <3> QED
        BY <2>1, <2>2, <3>1, QuietSave DEF Send
  <2>3. ASSUME Parse(r) PROVE Undisturbed'
      BY <2>1, <2>3 DEF Parse, Goto, Undisturbed, Saving, StateType
  <2>4. ASSUME ReadBefore(r) PROVE Undisturbed'
    <3>1. pc[r] \in Saving /\ pc'[r] \in {"backup", "err"}
        BY <2>4 DEF ReadBefore, Goto, Saving
    <3> QED
        BY <2>1, <2>4, <3>1, QuietSave DEF ReadBefore
  <2>5. ASSUME Backup(r) PROVE Undisturbed'
      BY <2>1, <2>5 DEF Backup, Disturb, Raise, Goto, Undisturbed, Saving, StateType
  <2>6. ASSUME Replace(r) PROVE Undisturbed'
      BY <2>1, <2>6 DEF Replace, Disturb, Raise, Goto, Undisturbed, Saving, StateType
  <2>7. ASSUME ChangeControl(r) \/ RecordDecision(r) PROVE Undisturbed'
    <3>1. pc'[r] \notin Saving /\ UNCHANGED <<template, bak, tree, disturbed>>
        BY <2>7 DEF ChangeControl, RecordDecision, Raise, Goto, Saving
    <3> QED
        BY <2>1, <3>1, QuietSave
  <2>8. ASSUME SelectLast(r) \/ InsertEvent(r) PROVE Undisturbed'
    <3>1. pc'[r] \notin Saving /\ UNCHANGED <<template, bak, tree, disturbed>>
        BY <2>8 DEF SelectLast, InsertEvent, Raise, Goto, Saving
    <3> QED
        BY <2>1, <3>1, QuietSave
  <2>9. ASSUME ReadTail(r) \/ AppendLine(r) PROVE Undisturbed'
    <3>1. pc'[r] \notin Saving /\ UNCHANGED <<template, bak, tree, disturbed>>
        BY <2>9 DEF ReadTail, AppendLine, Raise, Goto, Saving
    <3> QED
        BY <2>1, <3>1, QuietSave
  <2> QED
      BY <1>1, <2>2, <2>3, <2>4, <2>5, <2>6, <2>7, <2>8, <2>9 DEF Step
<1>2. Edit => Undisturbed'
    BY DEF Edit, Undisturbed
<1>3. Crash => Undisturbed'
    BY DEF Crash, Undisturbed, Saving, Returned
<1>4. UNCHANGED vars => Undisturbed'
    BY DEF vars, Undisturbed
<1> QED
    BY <1>1, <1>2, <1>3, <1>4 DEF Next

LEMMA Saves == Spec => []Undisturbed
<1>1. Init => Undisturbed
    BY DEF Init, Undisturbed, Saving
<1>2. IInv /\ StateType /\ Undisturbed /\ [Next]_vars => Undisturbed'
    BY UndisturbedStep
<1> QED
    BY <1>1, <1>2, Records, States, PTL DEF Spec

\* Only the step that renames the temporary file takes a request from there on.
LEMMA ReplacesByReplace ==
    ASSUME IInv, [Next]_vars, NEW r \in Req, Replaces(r)
    PROVE  /\ template' = Saved(tree[r], PolicyLabels(what[r].labels))
           /\ bak' = bak /\ what[r].kind = "labels"
<1> USE DEF IInv, RecordType
<1>1. pc[r] = "replace" /\ pc'[r] = "select"
    BY DEF Replaces
<1>2. what[r].kind = "labels"
    BY <1>1 DEF Progress, Saving
<1>3. PICK s \in Req : Step(s)
    BY <1>1 DEF Next, Edit, Crash, Returned, vars
<1>4. s = r
    BY <1>1, <1>3 DEF Step, Send, Parse, ReadBefore, Backup, Replace, ChangeControl,
                      RecordDecision, SelectLast, InsertEvent, ReadTail, AppendLine, Raise, Goto
<1>5. Replace(r)
    BY <1>1, <1>3, <1>4 DEF Step, Send, Parse, ReadBefore, Backup, ChangeControl,
                            RecordDecision, SelectLast, InsertEvent, ReadTail, AppendLine
<1>6. ~ Raise(r)
    BY <1>1 DEF Raise, Goto
<1> QED
    BY <1>2, <1>5, <1>6 DEF Replace

\* Nothing else writes the template, Unraid apart.
LEMMA OnlyReplaceWrites ==
    ASSUME IInv, [Next]_vars, template' # template, edits' = edits, StateType
    PROVE  \E r \in Req : Replaces(r)
<1> USE DEF IInv, RecordType
<1>1. ~ Edit
    BY DEF Edit, StateType
<1>2. PICK r \in Req : Step(r)
    BY <1>1 DEF Next, Crash, vars
<1>3. Replace(r)
    BY <1>2 DEF Step, Send, Parse, ReadBefore, Backup, ChangeControl,
                RecordDecision, SelectLast, InsertEvent, ReadTail, AppendLine
<1>4. pc[r] = "replace" /\ pc'[r] = "select"
    BY <1>3 DEF Replace, Goto
<1> QED
    BY <1>4 DEF Replaces

\* apply_policy_labels makes the template say what the form says, whoever else
\* writes it, and what it overlooks because of a blank; undisturbed, it leaves the
\* file in the .bak and everything that is not the updater's in place.
THEOREM SavesAreExact == Spec => SaveExact
<1> DEFINE Foreign == {a \in Arg : a.form = "token" \/ a.key \in ForeignKey}
<1>1. Foreign \subseteq Unowned /\ Foreign \subseteq UnownedNode
    BY TemplateAssumption DEF Unowned, UnownedNode, IsLabel
<1>2. ASSUME IInv, StateType, [Next]_vars, NEW r \in Req, Replaces(r)
      PROVE  PolicyLabels(ParseTemplateLabels(template'))
               = Over(PolicyLabels(what[r].labels), Overlooked(tree[r]))
  <2>1. \A k \in PolicyKey \cap DOMAIN what[r].labels : what[r].labels[k] \in Value
      BY <1>2, ReplacesByReplace, FormLabels DEF IInv, RecordType
  <2>2. tree[r] \in TemplateFile
      BY <1>2 DEF StateType
  <2> QED
      BY <1>2, <2>1, <2>2, ReplacesByReplace, SavedLabelsReadBack
<1>3. ASSUME IInv, StateType, Undisturbed, [Next]_vars,
             NEW r \in Req, Replaces(r), r \notin disturbed
      PROVE  /\ bak' = template
             /\ Others(template'.params) = Others(template.params)
             /\ Others(template'.nodes) = Others(template.nodes)
  <2>1. \A k \in PolicyKey \cap DOMAIN what[r].labels : what[r].labels[k] \in Value
      BY <1>3, ReplacesByReplace, FormLabels DEF IInv, RecordType
  <2>2. tree[r] = template /\ bak = template /\ template \in TemplateFile
      BY <1>3 DEF Undisturbed, StateType, Replaces, Saving
  <2>3. template' = Saved(template, PolicyLabels(what[r].labels)) /\ bak' = template
      BY <1>3, <2>2, ReplacesByReplace
  <2> HIDE DEF Foreign
  <2>4. LET saved == Saved(template, PolicyLabels(what[r].labels))
        IN  /\ Sift(saved.params, Foreign) = Sift(template.params, Foreign)
            /\ Sift(saved.nodes, Foreign) = Sift(template.nodes, Foreign)
    <3>1. template \in TemplateFile
        BY <2>2
    <3> QED
        BY <1>1, <2>1, <3>1, SavedKeepsOthers
  <2> QED
      BY <2>3, <2>4 DEF Others, Foreign
<1>4. IInv /\ StateType /\ Undisturbed /\ [Next]_vars =>
        [/\ \A r \in Req : Replaces(r) =>
              PolicyLabels(ParseTemplateLabels(template'))
                = Over(PolicyLabels(what[r].labels), Overlooked(tree[r]))
         /\ \A r \in Req : Replaces(r) /\ r \notin disturbed =>
              /\ bak' = template
              /\ Others(template'.params) = Others(template.params)
              /\ Others(template'.nodes) = Others(template.nodes)
         /\ template' # template /\ edits' = edits => \E r \in Req : Replaces(r)]_vars
    BY <1>2, <1>3, OnlyReplaceWrites
<1> QED
    BY <1>4, Records, States, Saves, PTL DEF Spec, SaveExact

---------------------------------------------------------------------------
\* What the trail tells

\* A request that has changed something and has its event still to write
Pending(r) == pc[r] \in {"select", "insert"}
Alike(kind) == {r \in Req : what[r].kind = kind}
EventsOf(kind) == {i \in DOMAIN trail : what[trail[i].by].kind = kind}

\* The state is the one that r has made.
Shows(r) ==
    IF what[r].kind = "control" THEN paused = what[r].paused
    ELSE edits = 0 =>
            PolicyLabels(ParseTemplateLabels(template))
              = Over(PolicyLabels(what[r].labels), Overlooked(template))

\* Changes that did not cross come one at a time.  When none has lost its event,
\* the state shows the one that is pending, or else the last in the trail.
Telling(kind) ==
    kind \notin overlap =>
        /\ \A r, s \in Alike(kind) : Pending(r) /\ Pending(s) => r = s
        /\ (\A r \in Alike(kind) \cap done : Told(r, "insert") \/ Pending(r)) =>
              /\ \A r \in Alike(kind) : Pending(r) => Shows(r)
              /\ (\A r \in Alike(kind) : ~ Pending(r)) /\ EventsOf(kind) # {}
                    => Shows(trail[Max(EventsOf(kind))].by)

\* Only decisions have a row of their own in the trail.
RowsAreDecisions ==
    \A i \in DOMAIN trail : trail[i].step = "insert_row" => what[trail[i].by].kind = "decision"

LEMMA LastEvent ==
    ASSUME RecordType, NEW kind, EventsOf(kind) # {}
    PROVE  /\ Max(EventsOf(kind)) \in EventsOf(kind)
           /\ \A i \in EventsOf(kind) : i <= Max(EventsOf(kind))
<1>1. Len(trail) \in Nat /\ EventsOf(kind) \subseteq 1 .. Len(trail)
    BY DEF RecordType, EventsOf
<1> QED
    BY <1>1, MaxOfPlaces

LEMMA EventsOfRequests ==
    ASSUME RecordType
    PROVE  \A i \in DOMAIN trail : trail[i] \in Event /\ trail[i].by \in Req
<1>1. \A i \in DOMAIN trail : trail[i] \in Event
    BY DEF RecordType
<1> QED
    BY <1>1 DEF Event

\* A pending change is done and has no event.
LEMMA PendingChange ==
    ASSUME IInv, NEW kind \in {"labels", "control"}, NEW r \in Alike(kind), Pending(r)
    PROVE  r \in done /\ ~ Told(r, "insert")
<1>1. r \in Req /\ what[r].kind = kind /\ Progress(r) /\ kind # "login"
    BY DEF Alike, IInv
<1> QED
    BY <1>1 DEF Progress, Pending, Auditing

\* Steps that leave the changes of a kind, and what shows of them, as they are
LEMMA KeptTelling ==
    ASSUME IInv, NEW kind \in {"labels", "control"}, Telling(kind),
           UNCHANGED what, overlap \subseteq overlap',
           EventsOf(kind)' = EventsOf(kind),
           \A i \in EventsOf(kind) : trail'[i] = trail[i],
           \A s \in Alike(kind) :
               /\ pc'[s] \in {"select", "insert"} <=> Pending(s)
               /\ Told(s, "insert")' <=> Told(s, "insert")
               /\ Shows(s) => Shows(s)'
               /\ s \in done' <=> s \in done
    PROVE  Telling(kind)'
<1>1. Alike(kind)' = Alike(kind)
    BY DEF Alike
<1>2. \A s \in Alike(kind) : Pending(s)' <=> Pending(s)
    BY DEF Pending
<1>3. EventsOf(kind) # {} =>
         /\ Max(EventsOf(kind)) \in EventsOf(kind)
         /\ trail[Max(EventsOf(kind))].by \in Alike(kind)
    BY LastEvent, EventsOfRequests DEF IInv, EventsOf, Alike
<1>4. EventsOf(kind) # {} =>
         (Shows(trail[Max(EventsOf(kind))].by) => Shows(trail[Max(EventsOf(kind))].by)')
  <2> DEFINE last == trail[Max(EventsOf(kind))].by
  <2>1. EventsOf(kind) # {} => last' = last /\ last \in Alike(kind)
      BY <1>3
  <2> HIDE DEF last
  <2>2. EventsOf(kind) # {} /\ Shows(last) => Shows(last)'
      BY <2>1
  <2> QED
      BY <2>2 DEF last
<1>5. kind \notin overlap' => kind \notin overlap
    OBVIOUS
<1>6. ASSUME kind \notin overlap'
      PROVE  \A r, s \in Alike(kind)' : Pending(r)' /\ Pending(s)' => r = s
    BY <1>1, <1>2, <1>5, <1>6 DEF Telling
<1>7. ASSUME kind \notin overlap',
             \A r \in (Alike(kind) \cap done)' : Told(r, "insert")' \/ Pending(r)'
      PROVE  \A r \in Alike(kind) \cap done : Told(r, "insert") \/ Pending(r)
    BY <1>1, <1>2, <1>7
<1>8. ASSUME kind \notin overlap',
             \A r \in (Alike(kind) \cap done)' : Told(r, "insert")' \/ Pending(r)'
      PROVE  /\ \A r \in Alike(kind)' : Pending(r)' => Shows(r)'
             /\ (\A r \in Alike(kind)' : ~ Pending(r)') /\ EventsOf(kind)' # {}
                   => Shows(trail[Max(EventsOf(kind))].by)'
    BY <1>1, <1>2, <1>4, <1>5, <1>7, <1>8 DEF Telling
<1> QED
    BY <1>6, <1>8 DEF Telling

\* A change that can no longer have an event leaves nothing to tell.
LEMMA LostTelling ==
    ASSUME IInv, NEW kind \in {"labels", "control"}, Telling(kind),
           UNCHANGED <<trail, what>>, overlap \subseteq overlap', done \subseteq done',
           NEW r \in Alike(kind), Pending(r), pc'[r] \notin {"select", "insert"},
           \A s \in Alike(kind) : pc'[s] \in {"select", "insert"} => Pending(s)
    PROVE  Telling(kind)'
<1>1. Alike(kind)' = Alike(kind) /\ r \in done' /\ ~ Pending(r)' /\ ~ Told(r, "insert")'
    BY PendingChange DEF Alike, Pending, Told
<1>2. \A s \in Alike(kind) : Pending(s)' => Pending(s)
    BY DEF Pending
<1>3. kind \notin overlap' => kind \notin overlap
    OBVIOUS
<1> QED
    BY <1>1, <1>2, <1>3 DEF Telling

\* The same for steps that write no event
LEMMA QuietTelling ==
    ASSUME IInv, NEW kind \in {"labels", "control"}, Telling(kind),
           UNCHANGED <<trail, what>>, overlap \subseteq overlap',
           \A s \in Alike(kind) :
               /\ pc'[s] \in {"select", "insert"} <=> Pending(s)
               /\ Shows(s) => Shows(s)'
               /\ s \in done' <=> s \in done
    PROVE  Telling(kind)'
<1>1. EventsOf(kind)' = EventsOf(kind) /\ \A s \in Req : Told(s, "insert")' <=> Told(s, "insert")
    BY DEF EventsOf, Told
<1> QED
    BY <1>1, KeptTelling DEF Alike

\* A change shows, whatever it finds.
LEMMA ChangeTelling ==
    ASSUME IInv, StateType, NEW kind \in {"labels", "control"}, Telling(kind), [Next]_vars,
           NEW r \in Alike(kind), Replace(r) \/ ChangeControl(r), pc'[r] = "select"
    PROVE  Telling(kind)'
<1> USE DEF IInv, RecordType
<1>1. r \in Req /\ what[r].kind = kind /\ UNCHANGED <<what, edits>>
    BY DEF Alike, Replace, ChangeControl
<1>2. Alike(kind)' = Alike(kind)
    BY <1>1 DEF Alike
<1>3. \A s \in Alike(kind) \ {r} : pc'[s] = pc[s]
    BY <1>1 DEF Replace, ChangeControl, Raise, Goto, Alike
<1>4. overlap' = overlap \cup Crossing(r)
    BY <1>1 DEF Replace, ChangeControl, Raise, Goto
<1>5. kind \notin overlap' => \A s \in Alike(kind) \ {r} : ~ Pending(s)
    BY <1>1, <1>4 DEF Crossing, Pending, Alike
<1>6. \A s \in Alike(kind) \ {r} : Pending(s)' <=> Pending(s)
    BY <1>3 DEF Pending
<1>7. Shows(r)'
  <2>1. CASE Replace(r)
    <3>1. Replaces(r)
        BY <2>1 DEF Replaces, Replace
    <3>2. what[r].kind = "labels" /\ template' = Saved(tree[r], PolicyLabels(what[r].labels))
        BY <1>1, <3>1, ReplacesByReplace
    <3>3. /\ \A k \in PolicyKey \cap DOMAIN what[r].labels : what[r].labels[k] \in Value
          /\ tree[r] \in TemplateFile
        BY <1>1, <3>2, FormLabels DEF StateType
    <3>4. PolicyLabels(ParseTemplateLabels(template'))
            = Over(PolicyLabels(what[r].labels), Overlooked(tree[r]))
        BY <3>2, <3>3, SavedLabelsReadBack
    <3>5. Overlooked(template') = Overlooked(tree[r])
        BY <3>2, <3>3, OverlookedSaved
    <3>6. PolicyLabels(ParseTemplateLabels(template'))
            = Over(PolicyLabels(what'[r].labels), Overlooked(template'))
        BY <1>1, <3>4, <3>5
    <3> QED
        BY <1>1, <3>2, <3>6 DEF Shows
  <2>2. CASE ChangeControl(r)
    <3>1. paused' = what[r].paused /\ what[r].kind = "control"
        BY <1>1, <2>2 DEF ChangeControl, Raise, Goto
    <3> QED
        BY <1>1, <3>1 DEF Shows
  <2> QED
      BY <2>1, <2>2
<1>8. Pending(r)'
    BY DEF Pending
<1> QED
    BY <1>2, <1>5, <1>6, <1>7, <1>8 DEF Telling

\* The event of a change is the last of its kind, and tells what shows.
LEMMA EventTelling ==
    ASSUME IInv, NEW kind \in {"labels", "control"}, Telling(kind),
           NEW r \in Alike(kind), InsertEvent(r), pc'[r] # "err"
    PROVE  Telling(kind)'
<1> USE DEF IInv, RecordType
<1> DEFINE n == Len(trail) + 1
           event == [by |-> r, step |-> pc[r], prev |-> seen[r]]
<1>1. /\ r \in Req /\ what[r].kind = kind /\ pc[r] = "insert" /\ pc'[r] = "ok"
      /\ UNCHANGED <<what, done, paused, template, edits>> /\ overlap \subseteq overlap'
      /\ trail' = Append(trail, event)
      /\ \A s \in Alike(kind) \ {r} : pc'[s] = pc[s]
  <2>1. r \in Req /\ what[r].kind = kind /\ pc[r] = "insert"
      BY DEF Alike, InsertEvent, Progress
  <2> QED
      BY <2>1 DEF Alike, InsertEvent, Raise, Goto
<1>2. event \in Event
    BY <1>1 DEF Event
<1>3. /\ Len(trail) \in Nat /\ DOMAIN trail = 1 .. Len(trail) /\ DOMAIN trail' = 1 .. n
      /\ \A i \in 1 .. Len(trail) : trail'[i] = trail[i]
      /\ trail'[n] = event
    BY <1>1, <1>2, AppendFacts
<1>4. Alike(kind)' = Alike(kind) /\ EventsOf(kind)' = EventsOf(kind) \cup {n}
    BY <1>1, <1>3 DEF Alike, EventsOf
<1>5. Max(EventsOf(kind)') = n
  <2>1. EventsOf(kind) \subseteq 1 .. n /\ n \in Nat
      BY <1>3 DEF EventsOf
  <2>2. EventsOf(kind) \cup {n} \subseteq 1 .. n
      BY <1>3, <2>1
  <2>3. /\ Max(EventsOf(kind) \cup {n}) \in 1 .. n
        /\ n <= Max(EventsOf(kind) \cup {n})
      BY <2>1, <2>2, MaxOfPlaces
  <2> QED
      BY <1>3, <1>4, <2>3
<1>6. \A s \in Alike(kind) \ {r} :
         /\ Pending(s)' <=> Pending(s)
         /\ Told(s, "insert")' <=> Told(s, "insert")
    BY <1>1, <1>3 DEF Pending, Told
<1>7. Pending(r) /\ ~ Pending(r)'
    BY <1>1 DEF Pending
<1>8. \A s \in Alike(kind) : Shows(s) => Shows(s)'
    BY <1>1 DEF Shows
<1>9. kind \notin overlap' => kind \notin overlap
    BY <1>1
<1>10. trail'[Max(EventsOf(kind)')].by = r
    BY <1>3, <1>5
<1>11. (\A s \in (Alike(kind) \cap done)' : Told(s, "insert")' \/ Pending(s)')
          => \A s \in Alike(kind) \cap done : Told(s, "insert") \/ Pending(s)
    BY <1>1, <1>4, <1>6, <1>7
<1> HIDE DEF n, event, IInv
<1>12. ASSUME kind \notin overlap',
              \A s \in (Alike(kind) \cap done)' : Told(s, "insert")' \/ Pending(s)'
       PROVE  Shows(r)' /\ \A s \in Alike(kind) : ~ Pending(s)'
  <2>1. Shows(r) /\ \A s \in Alike(kind) \ {r} : ~ Pending(s)
      BY <1>7, <1>9, <1>11, <1>12 DEF Telling
  <2> QED
      BY <1>6, <1>7, <1>8, <2>1
<1>13. \A s \in Alike(kind) : Pending(s)' => Pending(s)
    BY <1>6, <1>7
<1> QED
    BY <1>4, <1>9, <1>10, <1>12, <1>13 DEF Telling

\* An event of another kind
LEMMA OtherEventTelling ==
    ASSUME IInv, NEW kind \in {"labels", "control"}, Telling(kind),
           NEW r \in Req \ Alike(kind), InsertEvent(r)
    PROVE  Telling(kind)'
<1> USE DEF IInv, RecordType
<1> DEFINE event == [by |-> r, step |-> pc[r], prev |-> seen[r]]
<1>1. /\ UNCHANGED <<what, done, paused, template, edits>> /\ overlap \subseteq overlap'
      /\ \A s \in Alike(kind) : pc'[s] = pc[s] /\ s # r
    BY DEF InsertEvent, Raise, Goto, Alike
<1>2. trail' = trail \/ trail' = Append(trail, event)
    BY DEF InsertEvent
<1>3. \A s \in Alike(kind) : (pc'[s] \in {"select", "insert"} <=> Pending(s)) /\ (Shows(s) => Shows(s)')
    BY <1>1 DEF Pending, Shows
<1>4. CASE trail' = trail
    BY <1>1, <1>3, <1>4, QuietTelling
<1>5. CASE trail' = Append(trail, event)
  <2>1. event \in Event
      BY DEF Event, InsertEvent
  <2>2. /\ Len(trail) \in Nat
        /\ DOMAIN trail = 1 .. Len(trail) /\ DOMAIN trail' = 1 .. (Len(trail) + 1)
        /\ \A i \in 1 .. Len(trail) : trail'[i] = trail[i]
        /\ trail'[Len(trail) + 1] = event
      BY <1>5, <2>1, AppendFacts
  <2>3. EventsOf(kind)' = EventsOf(kind) /\ \A i \in EventsOf(kind) : trail'[i] = trail[i]
      BY <1>1, <2>2 DEF EventsOf, Alike
  <2>4. ASSUME NEW s \in Alike(kind) PROVE Told(s, "insert")' <=> Told(s, "insert")
    <3>1. s # r /\ trail'[Len(trail) + 1].by = r
        BY <1>1, <2>2
    <3> HIDE DEF IInv, RecordType, event
    <3> QED
        BY <2>2, <3>1 DEF Told
  <2>5. \A s \in Alike(kind) :
           /\ pc'[s] \in {"select", "insert"} <=> Pending(s)
           /\ Told(s, "insert")' <=> Told(s, "insert")
           /\ Shows(s) => Shows(s)'
           /\ s \in done' <=> s \in done
      BY <1>1, <1>3, <2>4
  <2>6. UNCHANGED what /\ overlap \subseteq overlap'
      BY <1>1
  <2> HIDE DEF IInv, RecordType, event
  <2> QED
      BY <2>3, <2>5, <2>6, KeptTelling
<1> QED
    BY <1>2, <1>4, <1>5

\* A request of the kind that does not get to, or past, its event
LEMMA MoveTelling ==
    ASSUME IInv, NEW kind \in {"labels", "control"}, Telling(kind),
           UNCHANGED <<trail, what, paused, template>>, overlap \subseteq overlap',
           NEW r \in Req, \A s \in Req \ {r} : pc'[s] = pc[s],
           \A s \in Alike(kind) : s \in done' <=> s \in done,
           edits' = edits, done \subseteq done',
           r \in Alike(kind) /\ pc'[r] \in {"select", "insert"} => Pending(r)
    PROVE  Telling(kind)'
<1>1. \A s \in Alike(kind) : Shows(s) => Shows(s)'
    BY DEF Shows
<1>2. \A s \in Alike(kind) : s \in Req
    BY DEF Alike
<1>3. \A s \in Alike(kind) : pc'[s] \in {"select", "insert"} => Pending(s)
    BY <1>2 DEF Pending
<1>4. CASE r \in Alike(kind) /\ Pending(r) /\ pc'[r] \notin {"select", "insert"}
    BY <1>3, <1>4, LostTelling
<1>5. CASE ~ (r \in Alike(kind) /\ Pending(r) /\ pc'[r] \notin {"select", "insert"})
  <2>1. \A s \in Alike(kind) : pc'[s] \in {"select", "insert"} <=> Pending(s)
      BY <1>2, <1>5 DEF Pending
  <2> QED
      BY <1>1, <2>1, QuietTelling
<1> QED
    BY <1>4, <1>5

LEMMA TellingOfRequests ==
    ASSUME IInv, StateType, NEW kind \in {"labels", "control"}, Telling(kind), [Next]_vars,
           NEW r \in Req, Step(r)
    PROVE  Telling(kind)'
<1>1. /\ Progress(r) /\ pc[r] \in StepName /\ pc \in [Req -> StepName]
      /\ r \in Alike(kind) <=> what[r].kind = kind
    BY DEF IInv, RecordType, Alike
<1>2. \A s \in Req \ {r} : pc'[s] = pc[s]
    BY <1>1 DEF Step, Send, Parse, ReadBefore, Backup, Replace, ChangeControl,
                RecordDecision, SelectLast, InsertEvent, ReadTail, AppendLine, Raise, Goto
<1>3. ASSUME Send(r) PROVE Telling(kind)'
  <2>1. r \in Alike(kind) => pc'[r] \notin {"select", "insert"}
    <3>1. what[r].kind # "login" =>
             (CASE what[r].kind = "labels" -> "parse"
                [] what[r].kind = "login" -> "select"
                [] OTHER -> "change") \in {"parse", "change"}
        BY Zenon
    <3>2. r \in Alike(kind) => pc'[r] \in {"parse", "change"}
        BY <1>1, <1>3, <3>1, Zenon DEF Send, Goto
    <3> QED
        BY <3>2
  <2> QED
      BY <1>2, <1>3, <2>1, MoveTelling DEF Send, records, env
<1>4. ASSUME Parse(r) \/ ReadBefore(r) \/ Backup(r) PROVE Telling(kind)'
  <2>1. /\ UNCHANGED <<trail, what, paused, template, overlap, done, edits>>
        /\ pc'[r] \notin {"select", "insert"}
      BY <1>1, <1>4 DEF Parse, ReadBefore, Backup, Raise, Goto, records, env
  <2> QED
      BY <1>2, <2>1, MoveTelling
<1>5. ASSUME Replace(r) \/ ChangeControl(r) PROVE Telling(kind)'
  <2>1. /\ UNCHANGED <<trail, what, edits>> /\ overlap \subseteq overlap'
        /\ done' \in {done, done \cup {r}}
        /\ pc'[r] \in {"select", "err"}
        /\ pc'[r] = "err" => UNCHANGED <<done, paused, template>>
        /\ ~ Pending(r)
      BY <1>1, <1>5 DEF Replace, ChangeControl, Raise, Goto, records, env, Pending
  <2>2. CASE pc'[r] = "err"
      BY <1>2, <2>1, <2>2, MoveTelling
  <2>3. CASE pc'[r] = "select" /\ r \in Alike(kind)
      BY <1>5, <2>3, ChangeTelling
  <2>4. CASE pc'[r] = "select" /\ r \notin Alike(kind)
    <3>1. \A s \in Alike(kind) : s # r /\ pc'[s] = pc[s]
        BY <1>2, <2>4 DEF Alike
    <3>2. CASE Replace(r)
      <4>1. kind = "control" /\ paused' = paused
          BY <1>1, <2>4, <3>2 DEF Replace, Progress, Saving
      <4>2. \A s \in Alike(kind) : Shows(s) => Shows(s)'
          BY <2>1, <4>1 DEF Shows, Alike
      <4>3. \A s \in Alike(kind) : (pc'[s] \in {"select", "insert"} <=> Pending(s))
                                   /\ (s \in done' <=> s \in done)
          BY <2>1, <3>1 DEF Pending
      <4> QED
          BY <2>1, <4>2, <4>3, QuietTelling
    <3>3. CASE ChangeControl(r)
      <4>1. kind = "labels" /\ template' = template
          BY <1>1, <2>4, <3>3 DEF ChangeControl
      <4>2. \A s \in Alike(kind) : Shows(s) => Shows(s)'
          BY <2>1, <4>1 DEF Shows, Alike
      <4>3. \A s \in Alike(kind) : (pc'[s] \in {"select", "insert"} <=> Pending(s))
                                   /\ (s \in done' <=> s \in done)
          BY <2>1, <3>1 DEF Pending
      <4> QED
          BY <2>1, <4>2, <4>3, QuietTelling
    <3> QED
        BY <1>5, <3>2, <3>3
  <2> QED
      BY <2>1, <2>2, <2>3, <2>4
<1>6. ASSUME RecordDecision(r) PROVE Telling(kind)'
  <2>1. /\ UNCHANGED <<trail, what, paused, template, overlap, edits>>
        /\ done' \in {done, done \cup {r}}
        /\ r \notin Alike(kind)
      BY <1>1, <1>6 DEF RecordDecision, Raise, Goto, records
  <2>2. \A s \in Alike(kind) : s \in done' <=> s \in done
      BY <2>1
  <2> QED
      BY <1>2, <2>1, <2>2, MoveTelling
<1>7. ASSUME SelectLast(r) PROVE Telling(kind)'
  <2>1. /\ UNCHANGED <<trail, what, paused, template, overlap, done, edits>>
        /\ r \in Alike(kind) => pc[r] = "select"
      BY <1>1, <1>7 DEF SelectLast, Progress, Raise, Goto, records
  <2> QED
      BY <1>2, <2>1, MoveTelling DEF Pending
<1>8. ASSUME InsertEvent(r) PROVE Telling(kind)'
  <2>1. CASE r \notin Alike(kind)
      BY <1>8, <2>1, OtherEventTelling
  <2>2. CASE r \in Alike(kind) /\ pc'[r] # "err"
      BY <1>8, <2>2, EventTelling
  <2>3. CASE r \in Alike(kind) /\ pc'[r] = "err"
    <3>1. UNCHANGED <<trail, what, paused, template, overlap, done, edits>>
        BY <1>1, <1>8, <2>3 DEF InsertEvent, Raise, Goto
    <3> QED
        BY <1>2, <2>3, <3>1, MoveTelling
  <2> QED
      BY <2>1, <2>2, <2>3
<1>9. ASSUME ReadTail(r) \/ AppendLine(r) PROVE Telling(kind)'
  <2>1. /\ UNCHANGED <<trail, what, paused, template, done, edits>> /\ overlap \subseteq overlap'
        /\ r \notin Alike(kind)
      BY <1>1, <1>9 DEF ReadTail, AppendLine, Progress, Raise, records, env
  <2> QED
      BY <1>2, <2>1, MoveTelling
<1> QED
    BY <1>3, <1>4, <1>5, <1>6, <1>7, <1>8, <1>9 DEF Step

LEMMA TellingStep ==
    ASSUME IInv, StateType, NEW kind \in {"labels", "control"}, Telling(kind), [Next]_vars
    PROVE  Telling(kind)'
<1>1. ASSUME NEW r \in Req, Step(r) PROVE Telling(kind)'
    BY <1>1, TellingOfRequests
<1>2. ASSUME Edit PROVE Telling(kind)'
  <2>1. edits' # 0 /\ UNCHANGED <<trail, what, paused, pc, overlap, done>>
      BY <1>2 DEF Edit, StateType, records
  <2>2. \A s \in Alike(kind) : (Shows(s) => Shows(s)') /\ (pc'[s] \in {"select", "insert"} <=> Pending(s))
      BY <2>1 DEF Shows, Pending
  <2> QED
      BY <2>1, <2>2, QuietTelling
<1>3. ASSUME Crash PROVE Telling(kind)'
  <2>1. UNCHANGED <<trail, what, paused, template, overlap, done, edits>>
      BY <1>3 DEF Crash
  <2>2. \A s \in Alike(kind) : pc'[s] \notin {"select", "insert"}
      BY <1>3 DEF Crash, Alike, Returned
  <2>3. \A s \in Alike(kind) : Shows(s) => Shows(s)'
      BY <2>1 DEF Shows
  <2>4. CASE \A s \in Alike(kind) : ~ Pending(s)
      BY <2>1, <2>2, <2>3, <2>4, QuietTelling
  <2>5. ASSUME NEW r \in Alike(kind), Pending(r) PROVE Telling(kind)'
      BY <2>1, <2>2, <2>5, LostTelling
  <2> QED
      BY <2>4, <2>5
<1>4. ASSUME UNCHANGED vars PROVE Telling(kind)'
  <2>1. UNCHANGED <<trail, what, paused, template, overlap, done, edits, pc>>
      BY <1>4 DEF vars, records, env
  <2>2. \A s \in Alike(kind) : (Shows(s) => Shows(s)') /\ (pc'[s] \in {"select", "insert"} <=> Pending(s))
      BY <2>1 DEF Shows, Pending
  <2> QED
      BY <2>1, <2>2, QuietTelling
<1> QED
    BY <1>1, <1>2, <1>3, <1>4 DEF Next

LEMMA RowsStep ==
    ASSUME IInv, RowsAreDecisions, [Next]_vars
    PROVE  RowsAreDecisions'
<1>1. what' = what
    BY DEF Next, Step, Send, Parse, ReadBefore, Backup, Replace, ChangeControl, RecordDecision,
           SelectLast, InsertEvent, ReadTail, AppendLine, Edit, Crash, vars
<1>2. CASE trail' = trail
    BY <1>1, <1>2 DEF RowsAreDecisions
<1>3. CASE trail' # trail
  <2>1. PICK r \in Req : InsertEvent(r)
      BY <1>3 DEF Next, Step, Send, Parse, ReadBefore, Backup, Replace, ChangeControl,
                  RecordDecision, SelectLast, ReadTail, AppendLine, Edit, Crash, vars, records
  <2> DEFINE event == [by |-> r, step |-> pc[r], prev |-> seen[r]]
  <2>2. trail' = Append(trail, event) /\ pc[r] \in {"insert_row", "insert"}
      BY <1>3, <2>1 DEF InsertEvent
  <2>3. event \in Event
      BY <2>2 DEF Event, IInv, RecordType
  <2>4. /\ Len(trail) \in Nat
        /\ DOMAIN trail = 1 .. Len(trail) /\ DOMAIN trail' = 1 .. (Len(trail) + 1)
        /\ \A i \in 1 .. Len(trail) : trail'[i] = trail[i]
        /\ trail'[Len(trail) + 1] = event
      BY <2>2, <2>3, AppendFacts DEF IInv, RecordType
  <2>5. event.step = "insert_row" => what[event.by].kind = "decision"
      BY DEF IInv, Progress
  <2> HIDE DEF event
  <2> QED
      BY <1>1, <2>4, <2>5 DEF RowsAreDecisions
<1> QED
    BY <1>2, <1>3

LEMMA Tellings == Spec => [](Telling("labels") /\ Telling("control") /\ RowsAreDecisions)
<1> DEFINE Tells == Telling("labels") /\ Telling("control") /\ RowsAreDecisions
<1>1. ASSUME Init PROVE Tells
  <2>1. DOMAIN trail = {} /\ \A r \in Req : pc[r] = "idle"
      BY <1>1 DEF Init
  <2>2. ASSUME NEW kind PROVE Telling(kind)
    <3>1. EventsOf(kind) = {} /\ \A r \in Alike(kind) : ~ Pending(r)
        BY <2>1 DEF EventsOf, Pending, Alike
    <3> QED
        BY <3>1 DEF Telling
  <2> QED
      BY <2>1, <2>2 DEF RowsAreDecisions
<1>2. IInv /\ StateType /\ Tells /\ [Next]_vars => Tells'
    BY TellingStep, RowsStep
<1> HIDE DEF Tells
<1>3. Spec => []Tells
    BY <1>1, <1>2, Records, States, PTL DEF Spec
<1> QED
    BY <1>3 DEF Tells

\* As long as the changes of a kind did not cross and each has its event, the
\* last event tells the pause of the container, and the labels in its template
\* unless Unraid has edited it.
THEOREM TrailIsCurrent == Spec => []TrailTellsState
<1>1. ASSUME IInv, RowsAreDecisions, NEW kind \in {"labels", "control"}, Telling(kind),
             kind \notin overlap, EventsOf(kind) # {},
             \A r \in done : what[r].kind = kind => \E i \in EventsOf(kind) : trail[i].by = r
      PROVE  /\ Shows(trail[Max(EventsOf(kind))].by)
             /\ what[trail[Max(EventsOf(kind))].by].kind = kind
  <2>1. ASSUME NEW r \in Alike(kind) \cap done PROVE Told(r, "insert")
    <3>1. PICK i \in EventsOf(kind) : trail[i].by = r
        BY <1>1, <2>1 DEF Alike
    <3>2. trail[i] \in Event /\ i \in DOMAIN trail /\ what[r].kind = kind
        BY <1>1, <3>1, EventsOfRequests DEF IInv, EventsOf
    <3>3. trail[i].step = "insert"
        BY <1>1, <3>1, <3>2 DEF RowsAreDecisions, Event
    <3> QED
        BY <3>1, <3>2, <3>3 DEF Told
  <2>2. \A r \in Alike(kind) : ~ Pending(r)
      BY <1>1, <2>1, PendingChange
  <2>3. Shows(trail[Max(EventsOf(kind))].by)
      BY <1>1, <2>1, <2>2 DEF Telling
  <2>4. Max(EventsOf(kind)) \in EventsOf(kind)
      BY <1>1, LastEvent DEF IInv
  <2> QED
      BY <2>3, <2>4 DEF EventsOf
<1>2. ASSUME IInv, Telling("labels") /\ Telling("control") /\ RowsAreDecisions
      PROVE  TrailTellsState
  <2>1. ASSUME "control" \notin overlap, EventsOf("control") # {},
               \A r \in done : what[r].kind = "control" =>
                   \E i \in EventsOf("control") : trail[i].by = r
        PROVE  paused = what[trail[Max(EventsOf("control"))].by].paused
      BY <1>1, <1>2, <2>1 DEF Shows
  <2>2. ASSUME "labels" \notin overlap, EventsOf("labels") # {}, edits = 0,
               \A r \in done : what[r].kind = "labels" =>
                   \E i \in EventsOf("labels") : trail[i].by = r
        PROVE  PolicyLabels(ParseTemplateLabels(template))
                 = Over(PolicyLabels(what[trail[Max(EventsOf("labels"))].by].labels),
                        Overlooked(template))
      BY <1>1, <1>2, <2>2 DEF Shows
  <2> QED
      BY <2>1, <2>2 DEF TrailTellsState, EventsOf
<1> QED
    BY <1>2, Records, Tellings, PTL

=============================================================================
