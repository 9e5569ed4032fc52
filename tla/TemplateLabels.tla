----------------------------- MODULE TemplateLabels -----------------------------
(***************************************************************************)
(* The label editor's functions on a dockerMan template.  A template is    *)
(* the arguments that shlex finds in its ExtraParams and its legacy        *)
(* <Label> nodes: an argument is one --label key=value, in either of its   *)
(* two spellings, or any other token.  The key is the stripped one; a      *)
(* blank before it is kept, since only the reader strips it.               *)
(***************************************************************************)
EXTENDS Naturals, Sequences, FiniteSetsExt

CONSTANTS
    PolicyOrder,    \* the keys of policy_labels, sorted
    OtherOwned,     \* further keys below io.jmengit.upgrade, such as risk
    ForeignKey,     \* keys of labels the updater does not own
    Value,          \* values of labels
    Token           \* other arguments of docker create

PolicyKey == Range(PolicyOrder)
OwnedKey == PolicyKey \cup OtherOwned

ASSUME TemplateAssumption ==
    /\ PolicyOrder \in Seq(PolicyKey)
    /\ ForeignKey \cap OwnedKey = {}

Arg == [form : {"label"}, key : OwnedKey \cup ForeignKey, value : Value, blank : BOOLEAN]
       \cup [form : {"token"}, key : Token, value : {""}, blank : {FALSE}]

\* broken: the XML or the quoting of ExtraParams cannot be parsed.
TemplateFile == [params : Seq(Arg), nodes : Seq(Arg), broken : {"no", "xml", "params"}]

IsLabel(arg) == arg.form = "label"

\* _labels_from_params, and the loop over <Label> nodes: both strip the key, and
\* the last one wins.
LabelsOf(args) ==
    LET places == {i \in DOMAIN args : IsLabel(args[i])}
    IN  [k \in {args[i].key : i \in places} |->
            args[Max({i \in places : args[i].key = k})].value]

\* parse_template_labels: what ExtraParams says overrides the legacy nodes.
ParseTemplateLabels(t) == LabelsOf(t.nodes \o t.params)

\* policy_labels: the keys of the policy that have a value
PolicyLabels(labels) ==
    Restrict(labels, {k \in PolicyKey \cap DOMAIN labels : labels[k] # ""})

\* The elements of s that belong to S, in their order
Sift(s, S) ==
    LET sift[n \in 0 .. Len(s)] ==
            IF n = 0 THEN <<>>
            ELSE IF s[n] \in S THEN Append(sift[n - 1], s[n]) ELSE sift[n - 1]
    IN  sift[Len(s)]

\* An argument whose text begins with the prefix is the updater's, a node whose
\* stripped text does.
Unowned == {arg \in Arg : IsLabel(arg) /\ arg.key \in OwnedKey => arg.blank}
UnownedNode == {arg \in Arg : IsLabel(arg) => arg.key \notin OwnedKey}

\* _without_owned_labels
WithoutOwned(args) == Sift(args, Unowned)

\* The arguments appended for the labels that are wanted.
LabelArgs(wanted) ==
    LET keys == Sift(PolicyOrder, DOMAIN wanted)
    IN  [i \in DOMAIN keys |->
            [form |-> "label", key |-> keys[i], value |-> wanted[keys[i]], blank |-> FALSE]]

\* Mutant of Saved: legacy nodes stay.
SavedParams(t, wanted) == [t EXCEPT !.params = WithoutOwned(@) \o LabelArgs(wanted)]

\* What apply_policy_labels makes of the tree it has parsed.
Saved(t, wanted) ==
    [t EXCEPT !.params = WithoutOwned(@) \o LabelArgs(wanted), !.nodes = Sift(@, UnownedNode)]

---------------------------------------------------------------------------
\* For the properties of a save

\* The policy labels of ExtraParams with a blank before their key: they are read
\* (label_edit.py:87) and not removed (133, 141).
Overlooked(t) == PolicyLabels(LabelsOf(Sift(t.params, {arg \in Arg : IsLabel(arg) /\ arg.blank})))

\* The labels that are wanted, and those left for keys that are not wanted.
Over(wanted, left) ==
    [k \in DOMAIN wanted \cup DOMAIN left |->
        IF k \in DOMAIN wanted THEN wanted[k] ELSE left[k]]

=============================================================================
