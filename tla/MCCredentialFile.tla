-------------------------- MODULE MCCredentialFile --------------------------
(***************************************************************************)
(* CredentialFile for TLC.                                                  *)
(***************************************************************************)
EXTENDS CredentialFile

CONSTANTS k1, k2, k3, e1, e2

\* Edits are interchangeable.
Symmetry == Permutations(Editors)

Exact(name) == [body |-> name, star |-> FALSE]
Wild(prefix) == [body |-> prefix, star |-> TRUE]

Scope(types, commands, refs) ==
    [scoped |-> TRUE, types |-> types, commands |-> commands, refs |-> refs]

Issue(id, role, notAfter, allow) ==
    [id |-> id, role |-> role, notAfter |-> notAfter, allow |-> allow]

\* Every role; unscoped, exact and wildcard scopes, lists that are absent,
\* empty and filled; k3 takes the place of k1 under the same ID.
SmallIssues ==
    {(k1 :> Issue("a", "admin", 3, NoAllow)) @@
     (k2 :> Issue("b", "writer", NeverExpires,
                  Scope({Exact(<<"n", "x">>)}, List({}), List({Wild(<<"r">>)})))) @@
     (k3 :> Issue("a", "operator", NeverExpires, NoAllow)),
     (k1 :> Issue("a", "writer", NeverExpires, Scope({}, Absent, Absent))) @@
     (k2 :> Issue("b", "writer", 2,
                  Scope({Wild(<<"n">>)}, List({"c"}), List({})))) @@
     (k3 :> Issue("a", "reader", 3, NoAllow)),
     (k1 :> Issue("a", "writer", 2, NoAllow)) @@
     (k2 :> Issue("b", "operator", 3, Scope({Exact(<<"n", "y">>)}, Absent, Absent))) @@
     (k3 :> Issue("a", "admin", NeverExpires,
                  Scope({Exact(<<"n", "y">>)}, List({"c"}), List({Exact(<<"r">>)}))))}

SmallFirstFiles == {{k1}, {k1, k2}}

SmallOperations ==
    [route : {"read", "maintain", "catalog"}]
        \cup [route : {"append"}, type : {<<"n", "x">>, <<"m", "x">>}, command : {"c", "d"}]
        \cup [route : {"putRef"}, name : {<<"r">>, <<"r", "s">>}]
=============================================================================
