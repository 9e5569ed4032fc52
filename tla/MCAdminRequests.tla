--------------------------- MODULE MCAdminRequests ---------------------------
(***************************************************************************)
(* Instances of AdminRequests for TLC: two policy keys, one optional, and  *)
(* templates with foreign, owned, repeated and blank labels and with       *)
(* legacy nodes.                                                           *)
(***************************************************************************)
EXTENDS AdminRequests, TLC

MCPolicyOrder == <<"hold-days", "policy">>
MCValue == {"", "7", "minor", "patch"}

MCForm == {"policy" :> "minor", "policy" :> "patch" @@ "hold-days" :> "7"}

Label(k, v) == [form |-> "label", key |-> k, value |-> v, blank |-> FALSE]
Blank(k, v) == [Label(k, v) EXCEPT !.blank = TRUE]
Flag == [form |-> "token", key |-> "--cap-add", value |-> "", blank |-> FALSE]

\* One as Unraid keeps it for a container with labels of every sort, one with
\* an empty label and a node, one that shlex cannot split, and one that is no XML.
MCTemplate == {
    [params |-> <<Label("policy", "patch"), Flag, Label("traefik", "7"),
                  Blank("hold-days", "7"), Label("risk", "minor"), Blank("policy", "patch"),
                  Label("policy", "minor"), Flag>>,
     nodes |-> <<Blank("policy", "7"), Label("hold-days", "7"), Label("traefik", "minor")>>,
     broken |-> "no"],
    [params |-> <<Label("policy", "")>>, nodes |-> <<Label("hold-days", "7")>>, broken |-> "no"],
    [params |-> <<Flag>>, nodes |-> <<>>, broken |-> "params"],
    [params |-> <<>>, nodes |-> <<>>, broken |-> "xml"]}

\* Requests differ in nothing but their names.
Symmetry == Permutations(Req)

=============================================================================
