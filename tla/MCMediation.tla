---------------------------- MODULE MCMediation ----------------------------
(* The corpus of policy/rbac.yaml and fixtures/world.json, and the calls to  *)
(* each tool that differ in a field some profile or the oracle looks at.     *)
EXTENDS Mediation

MCOwner == [t \in Tools |-> IF t = "memory/recall" THEN "supervisor" ELSE "maya"]
MCResource == [t \in Tools |->
  CASE t \in {"drive/create", "approval/execute"} -> "drive/create"
    [] OTHER -> t]
MCResources == Tools \cup {"harbor"}
MCArcadeGrants == {<<MCOwner[t], t>> : t \in Tools} \cup {<<"leo", "gmail/send">>}

\* The resource the tool was granted, one granted for another tool with the
\* same action where there is one, and one nobody was granted.
ResourcesFor(t) ==
  {"harbor"} \cup
  {MCResource[u] : u \in {v \in Tools : Action[v] = Action[t]
                          /\ v \in {t, "credential/vend", "gmail/send"}}}
MCCallsTo(t) ==
  [tool : {t}, action : {Action[t], "write"}, resource : ResourcesFor(t),
   purpose : IF t \in {"catalog/query", "gmail/send"} THEN Purposes ELSE {None},
   delegated : IF t \in ArcadeTools THEN {"maya", "leo", None} ELSE {None},
   content : Content(t)]
MCCalls ==
  UNION {MCCallsTo(t) : t \in Tools} \cup
  [tool : {"unknown/admin"}, action : {"execute"}, resource : {"harbor"},
   purpose : {None}, delegated : {None}, content : {None}]
=============================================================================
