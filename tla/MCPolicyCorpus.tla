--------------------------- MODULE MCPolicyCorpus ---------------------------
(* The corpus of the repository, and its versions after an edit of a role,   *)
(* an assignment or a field: lists that grow, shrink or repeat themselves,   *)
(* names that are taken or unknown, grants that move to another subject.     *)
EXTENDS PolicyCorpus

Res(kind, name) == [kind |-> kind, name |-> name]
Energy == Res("lakecat", "northstar")
Harbor == Res("lakecat", "harbor")
Study == Res("dataset", "northstar")
Role(name, permission, resources) ==
  [name |-> name, permissions |-> <<permission>>, resources |-> resources]
Roles ==
  << Role("maya_catalog_read", "read", <<Energy>>),
     Role("maya_dashboard_view", "dataset:view", <<Study>>),
     Role("maya_saas_execute", "execute",
          <<Res("saas", "drive/create"), Res("saas", "gmail/send")>>),
     Role("maya_delegate", "delegate", <<Res("report", "public-summary")>>),
     Role("maya_auxiliary_read", "read",
          <<Res("credential", "study"), Res("policy", "study"), Res("join", "study")>>),
     Role("maya_replay_write", "write", <<Res("replay", "study")>>),
     Role("supervisor_memory_read", "read", <<Res("memory", "finding")>>) >>
Assign(subject, roles) == [subject |-> subject, roles |-> roles]
MayasRoles == [i \in 1 .. 6 |-> Roles[i].name]
Rbac(roles, assignments) == [form |-> "closed", roles |-> roles, assignments |-> assignments]
ShippedRbac ==
  Rbac(Roles, <<Assign("maya", MayasRoles), Assign("supervisor", <<Roles[7].name>>)>>)

RoleEdits(r) ==
  {[r EXCEPT !.name = n] : n \in {NoString, "maya_dashboard_view"}} \cup
  {[r EXCEPT !.permissions = p] : p \in {<<>>, <<NoString>>, r.permissions \o <<"read">>}} \cup
  {[r EXCEPT !.resources = p] : p \in {Tail(r.resources), Append(r.resources, r.resources[1]),
                                         Append(r.resources, Harbor), Append(r.resources, Study)}}
AssignmentEdits(a) ==
  {[a EXCEPT !.subject = s] : s \in {NoString, "maya", "leo"}} \cup
  {[a EXCEPT !.roles = p] :
     p \in {Tail(a.roles), Append(a.roles, a.roles[1]), Append(a.roles, "unknown"),
          Append(a.roles, "supervisor_memory_read")}}

\* A second role under a name, before or after the first; a role that moves to
\* leo, or that leo has too.
Rival(i) == [Roles[i] EXCEPT !.resources = <<Harbor>>]
LeosToo(i, mayas) ==
  Rbac(Roles, <<Assign("maya", mayas), Assign("supervisor", <<Roles[7].name>>),
                Assign("leo", <<Roles[i].name>>)>>)

MCRbacs ==
  {ShippedRbac}
  \cup {[ShippedRbac EXCEPT !.form = f] : f \in {"open", "duplicate key", "alias"}}
  \cup {[ShippedRbac EXCEPT !.roles = <<>>], [ShippedRbac EXCEPT !.assignments = <<>>]}
  \cup UNION {{[ShippedRbac EXCEPT !.roles[i] = r] : r \in RoleEdits(Roles[i])} : i \in DOMAIN Roles}
  \cup UNION {{[ShippedRbac EXCEPT !.assignments[i] = a] :
                 a \in AssignmentEdits(ShippedRbac.assignments[i])} : i \in {1, 2}}
  \cup {[ShippedRbac EXCEPT !.roles = <<Rival(i)>> \o @] : i \in DOMAIN Roles}
  \cup {[ShippedRbac EXCEPT !.roles = @ \o <<Rival(i)>>] : i \in DOMAIN Roles}
  \cup {LeosToo(i, RemoveAt(MayasRoles, i)) : i \in 1 .. 6}
  \cup {LeosToo(i, MayasRoles) : i \in 1 .. 6}

ShippedColumns == <<"region", "energy_source">>
ShippedOdrl ==
  [form |-> "closed", uid |-> "energy-study", assignee |-> "maya", action |-> "read",
   target |-> Energy, purpose |-> "energy-assistance-research",
   columns |-> ShippedColumns, predicate |-> "approved cohort",
   ttl |-> [type |-> "int", n |-> 60], prohibitions |-> <<"marketing", "train">>]
MCOdrls ==
  {ShippedOdrl}
  \cup {[ShippedOdrl EXCEPT !.form = f] : f \in {"open", "duplicate key"}}
  \cup {[ShippedOdrl EXCEPT ![f] = NoString] : f \in OdrlStrings}
  \cup {[ShippedOdrl EXCEPT !.assignee = "leo"], [ShippedOdrl EXCEPT !.action = "write"],
         [ShippedOdrl EXCEPT !.target = Harbor], [ShippedOdrl EXCEPT !.purpose = "marketing"],
         [ShippedOdrl EXCEPT !.predicate = "TRUE"]}
  \cup {[ShippedOdrl EXCEPT !.columns = c] :
         c \in {<<>>, <<NoString>>, Append(ShippedColumns, "region"), Append(ShippedColumns, "*"),
               Reverse(ShippedColumns)}}
  \cup {[ShippedOdrl EXCEPT !.ttl = [type |-> t, n |-> 60]] : t \in {"float", "boolean", "string"}}
  \cup {[ShippedOdrl EXCEPT !.ttl.n = n] : n \in {-1, 0, 3600}}
  \cup {[ShippedOdrl EXCEPT !.prohibitions = p] : p \in {<<>>, <<NoString>>, <<"train", "train">>, <<"train">>}}

ShippedWorld ==
  [approved |-> Energy, study |-> Study, analyst |-> "maya", supervisor |-> "supervisor",
   delegation |-> 30]
MCWorlds ==
  {ShippedWorld, [ShippedWorld EXCEPT !.approved = Harbor],
   [ShippedWorld EXCEPT !.study = Res("dataset", "harbor")],
   [ShippedWorld EXCEPT !.analyst = "leo"], [ShippedWorld EXCEPT !.supervisor = "leo"],
   [ShippedWorld EXCEPT !.delegation = 300]}

MCShipped == [rbac |-> ShippedRbac, odrl |-> ShippedOdrl, world |-> ShippedWorld]
=============================================================================
