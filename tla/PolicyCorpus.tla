----------------------------- MODULE PolicyCorpus -----------------------------
(***************************************************************************)
(* The policy corpus and what is made of it: policy/rbac.yaml,             *)
(* policy/odrl.json and fixtures/world.json are edited by hand; scripts    *)
(* translate them into the data of the Rego policy and into the Cerbos     *)
(* policies; the release gate refuses stale translations; and a deployment *)
(* starts the engines on the translations and the process on the corpus    *)
(* (world.py, scripts/build_*.py, state.py:ClosedPolicyLoader).            *)
(*                                                                         *)
(* NoString stands for every value that is no non-empty string.            *)
(* A document is open when a mapping of it lacks a key or has one too      *)
(* many.  A resource is a kind, the prefix the generator looks for, and a  *)
(* name.                                                                   *)
(***************************************************************************)
EXTENDS Integers, FiniteSets, SequencesExt

CONSTANTS
  Rbacs, Odrls, Worlds,   \* the versions of the documents an edit writes
  Shipped,                \* the corpus of the repository, [rbac, odrl, world]
  CanonicalPredicate,     \* the one row predicate the executor knows
  NoString,               \* an empty string, or a value of another type
  Nothing,                \* a file or a deployment that is not there
  MaxEdits                \* bound: edits

ASSUME ShippedAssumption ==
  /\ Shipped.rbac \in Rbacs /\ Shipped.odrl \in Odrls /\ Shipped.world \in Worlds
  /\ MaxEdits \in Nat

VARIABLES
  rbac, odrl, world,      \* the source documents
  opaData, cerbosFiles,   \* policy/opa/data.json and policy/cerbos, generated
  running,                \* what the deployed process and engines loaded
  edits                   \* edits so far

sources == <<rbac, odrl, world>>
files == <<opaData, cerbosFiles>>
vars == <<sources, files, running, edits>>

----------------------------------------------------------------------------
(* The parser of the RBAC policy. *)

NonemptyStrings(list) == list # <<>> /\ NoString \notin ToSet(list) /\ IsInjective(list)
Named(items, field) == \A i \in DOMAIN items : items[i][field] # NoString

\* Mutant: a second role or subject of a name replaces the first.
LastOneWins(items, field) == TRUE
NoTwoOf(items, field) ==
  \A i, j \in DOMAIN items : items[i][field] = items[j][field] => i = j

\* The dictionary of the expanded roles: the last role stored under a name.
RoleNamed(doc, name) ==
  LET at == CHOOSE i \in DOMAIN doc.roles :
              /\ doc.roles[i].name = name
              /\ \A j \in DOMAIN doc.roles : doc.roles[j].name = name => j <= i
  IN doc.roles[at]
RoleNames(doc) == {doc.roles[i].name : i \in DOMAIN doc.roles}

RbacAccepted(doc) ==
  /\ doc.form = "closed" /\ doc.roles # <<>> /\ doc.assignments # <<>>
  /\ Named(doc.roles, "name") /\ NoTwoOf(doc.roles, "name")
  /\ \A i \in DOMAIN doc.roles :
       NonemptyStrings(doc.roles[i].permissions) /\ NonemptyStrings(doc.roles[i].resources)
  /\ Named(doc.assignments, "subject") /\ NoTwoOf(doc.assignments, "subject")
  /\ \A i \in DOMAIN doc.assignments :
       /\ NonemptyStrings(doc.assignments[i].roles)
       /\ ToSet(doc.assignments[i].roles) \subseteq RoleNames(doc)

Expanded(role) == ToSet(role.permissions) \X ToSet(role.resources)
Grants(doc) ==
  UNION {{<<doc.assignments[i].subject, e[1], e[2]>> :
            e \in UNION {Expanded(RoleNamed(doc, n)) : n \in ToSet(doc.assignments[i].roles)}} :
         i \in DOMAIN doc.assignments}

\* Roles come in a list, and a document is finite, as is what it grants.
ASSUME DocumentsAssumption ==
  \A doc \in Rbacs : /\ DOMAIN doc.roles \subseteq Nat
                     /\ RbacAccepted(doc) => IsFiniteSet(Grants(doc))

----------------------------------------------------------------------------
(* The two parsers of the ODRL policy. *)

OdrlStrings == {"uid", "assignee", "action", "target", "purpose", "predicate"}

\* What a document has, an open one too: a value under every key of the profile
\* (NoString under a missing one), and lists for columns and prohibitions.
ASSUME OdrlsAssumption ==
  /\ NoString # "none"
  /\ \A doc \in Odrls :
       /\ doc.form \in {"closed", "open", "duplicate key"}
       /\ OdrlStrings \cup {"form", "columns", "prohibitions", "ttl"} \subseteq DOMAIN doc
       /\ {"type", "n"} \subseteq DOMAIN doc.ttl
       /\ doc.columns \in Seq(ToSet(doc.columns))
       /\ doc.prohibitions \in Seq(ToSet(doc.prohibitions))

OdrlAccepted(doc) ==
  /\ doc.form = "closed"
  /\ \A f \in OdrlStrings : doc[f] # NoString
  /\ NonemptyStrings(doc.columns) /\ NonemptyStrings(doc.prohibitions)
  /\ doc.ttl.type = "int" /\ doc.ttl.n >= 0

\* Mutant: the loader overlooks the keys it does not know.
SupportsOpen(doc) ==
  /\ \A f \in OdrlStrings : doc[f] # NoString
  /\ NoString \notin ToSet(doc.prohibitions)
  /\ doc.columns # <<>> /\ NoString \notin ToSet(doc.columns)
  /\ doc.ttl.type \in {"int", "float"} /\ doc.ttl.n >= 0

\* The loader of a document presented at run time, which no longer tells a
\* duplicate key; it takes a lifetime with a fraction, a list with duplicates
\* and a policy without prohibitions.
Supports(doc) ==
  /\ doc.form # "open"
  /\ \A f \in OdrlStrings : doc[f] # NoString
  /\ NoString \notin ToSet(doc.prohibitions)
  /\ doc.columns # <<>> /\ NoString \notin ToSet(doc.columns)
  /\ doc.ttl.type \in {"int", "float"} /\ doc.ttl.n >= 0
Decoded(doc) == [doc EXCEPT !.form = IF @ = "duplicate key" THEN "closed" ELSE @]
IsCanonical(doc, trusted) == Supports(doc) /\ Decoded(doc) = trusted

----------------------------------------------------------------------------
(* Loading the corpus, and translating it. *)

CarrierGrant(o) == <<o.assignee, o.action, o.target>>

Parses == RbacAccepted(rbac) /\ OdrlAccepted(odrl)

\* Mutant: the fixture's dashboard is not looked up among the grants.
LoadsWithoutDashboard ==
  /\ Parses
  /\ CarrierGrant(odrl) \in Grants(rbac)
  /\ odrl.target = world.approved
  /\ odrl.predicate = CanonicalPredicate
Loads ==
  /\ Parses
  /\ CarrierGrant(odrl) \in Grants(rbac)
  /\ odrl.target = world.approved
  /\ <<world.analyst, "dataset:view", world.study>> \in Grants(rbac)
  /\ odrl.predicate = CanonicalPredicate

\* The scripts import the module that loads the world, and run only if it does.
OpaBuilds == Loads
OpaBuild == [grants |-> Grants(rbac), odrl |-> odrl, world |-> world]

Matching(action, kind) == {g \in Grants(rbac) : g[2] = action /\ g[3].kind = kind}
OneGrant(action, kind) == Cardinality(Matching(action, kind)) = 1
The(action, kind) == CHOOSE g \in Matching(action, kind) : TRUE

\* The resource kinds with a policy of one grantee and one resource each.
PolicyAction ==
  [kind \in {"lakecat", "dataset", "report", "memory", "credential", "replay", "policy", "join"} |->
    CASE kind = "dataset" -> "dataset:view"
      [] kind = "report" -> "delegate"
      [] kind = "replay" -> "write"
      [] OTHER -> "read"]
Saas == [kind : {"saas"}, name : {"drive/create", "gmail/send"}]
SaasGrants == {g \in Grants(rbac) : g[2] = "execute" /\ g[3] \in Saas}
SaasSubjects == {g[1] : g \in SaasGrants}

CerbosBuilds ==
  /\ Loads
  /\ \A kind \in DOMAIN PolicyAction : OneGrant(PolicyAction[kind], kind)
  /\ Cardinality(SaasGrants) = 2 /\ Cardinality(SaasSubjects) = 1
  /\ The("read", "lakecat") = CarrierGrant(odrl)
  /\ world.approved = The("read", "lakecat")[3]
  /\ world.study = The("dataset:view", "dataset")[3]
  /\ world.analyst = The("read", "lakecat")[1]
  /\ world.supervisor = The("read", "memory")[1]

\* What the policies name: a grant per kind, the grants of the shared policy and
\* of the approvals, and the constants in their conditions.
CerbosBuild ==
  [grants |-> {The(PolicyAction[kind], kind) : kind \in DOMAIN PolicyAction} \cup SaasGrants,
   approver |-> SaasSubjects,
   purpose |-> odrl.purpose, columns |-> odrl.columns, predicate |-> odrl.predicate,
   ttl |-> odrl.ttl.n, delegation |-> world.delegation]

----------------------------------------------------------------------------

Init ==
  /\ rbac = Shipped.rbac /\ odrl = Shipped.odrl /\ world = Shipped.world
  /\ opaData = IF OpaBuilds THEN OpaBuild ELSE Nothing
  /\ cerbosFiles = IF CerbosBuilds THEN CerbosBuild ELSE Nothing
  /\ running = Nothing
  /\ edits = 0

\* Someone edits a source document, whether or not it is still well formed.
EditedWith(r, o, w) ==
  /\ edits < MaxEdits /\ edits' = edits + 1
  /\ rbac' = r /\ odrl' = o /\ world' = w
  /\ UNCHANGED <<files, running>>
Edit ==
  \/ \E r \in Rbacs : EditedWith(r, odrl, world)
  \/ \E o \in Odrls : EditedWith(rbac, o, world)
  \/ \E w \in Worlds : EditedWith(rbac, odrl, w)

\* A script whose checks fail ends before it writes.
BuildOpa ==
  /\ OpaBuilds /\ opaData' = OpaBuild
  /\ UNCHANGED <<sources, cerbosFiles, running, edits>>
BuildCerbos ==
  /\ CerbosBuilds /\ cerbosFiles' = CerbosBuild
  /\ UNCHANGED <<sources, opaData, running, edits>>

\* Mutant: the gate looks whether the translations are there.
FilesExist == OpaBuilds /\ CerbosBuilds /\ opaData # Nothing /\ cerbosFiles # Nothing
\* --check of the two scripts.
FilesCurrent ==
  /\ OpaBuilds /\ opaData = OpaBuild
  /\ CerbosBuilds /\ cerbosFiles = CerbosBuild

\* The gate passes, and what is released is deployed.
Release ==
  /\ FilesCurrent
  /\ running' = [grants |-> Grants(rbac), odrl |-> odrl, world |-> world,
                 opa |-> opaData, cerbos |-> cerbosFiles, source |-> rbac]
  /\ UNCHANGED <<sources, files, edits>>

Next == Edit \/ BuildOpa \/ BuildCerbos \/ Release
Spec == Init /\ [][Next]_vars

----------------------------------------------------------------------------
(* Properties. *)

Deployed == running # Nothing

\* A released RBAC policy has one reading (world.py:parse_rbac_policy).  The
\* process expands it here, the Rust gate parses the same text with a library
\* of its own: whether a reader keeps the first, the last or all of what is
\* declared under one name, it finds the grants of the process.
Declared(doc) ==
  {g \in UNION {{a.subject} \X ToSet(r.permissions) \X ToSet(r.resources) :
                   a \in ToSet(doc.assignments), r \in ToSet(doc.roles)} :
     \E a \in ToSet(doc.assignments), r \in ToSet(doc.roles) :
       /\ g[1] = a.subject /\ r.name \in ToSet(a.roles)
       /\ <<g[2], g[3]>> \in Expanded(r)}
OneReading == Deployed => running.grants = Declared(running.source)

\* However the corpus was edited since the translations were made, the engines
\* that are deployed decide on the corpus the process loaded (the --check of
\* scripts/build_opa_data.py and build_cerbos_policies.py): the same grants,
\* all of them and no others for the kinds that have a policy, and the same
\* constants.
TranslationsAgree ==
  Deployed =>
    LET r == running
        Covered(g) == \/ g[3] \in Saas /\ g[2] = "execute"
                      \/ g[3].kind \in DOMAIN PolicyAction /\ g[2] = PolicyAction[g[3].kind]
    IN /\ r.opa = [grants |-> r.grants, odrl |-> r.odrl, world |-> r.world]
       /\ r.cerbos.grants = {g \in r.grants : Covered(g)}
       /\ <<r.cerbos.purpose, r.cerbos.columns, r.cerbos.predicate, r.cerbos.ttl>>
            = <<r.odrl.purpose, r.odrl.columns, r.odrl.predicate, r.odrl.ttl.n>>
       /\ r.cerbos.delegation = r.world.delegation

\* What Mediation assumes of the corpus is true of every corpus that can be
\* released: a resource has one grantee, who has both SaaS resources and alone
\* executes approvals, and the roles the fixture names are the grantees.
CorpusIsMediations ==
  Deployed =>
    LET Grantees(resource) == {g[1] : g \in {h \in running.cerbos.grants : h[3] = resource}}
    IN /\ \A g \in running.cerbos.grants : Grantees(g[3]) = {g[1]}
       /\ \A s \in Saas : Grantees(s) = running.cerbos.approver
       /\ Grantees(running.odrl.target) = {running.odrl.assignee}
       /\ Grantees(running.world.study) = {running.world.analyst}
       /\ \E g \in running.cerbos.grants : g[3].kind = "memory" /\ g[1] = running.world.supervisor

\* The two parsers of the ODRL profile (world.py:parse_odrl_policy, state.py:
\* ClosedPolicyLoader) may only differ where it cannot matter.  What the first
\* accepts the second supports; what the second supports the first accepts but
\* for a fraction, a duplicate in a list or a missing prohibition; and the
\* document the gate lets through is the one that was loaded.
Strict(doc) ==
  [Decoded(doc) EXCEPT
     !.ttl.type = "int",
     !.columns = SetToSeq(ToSet(@)),
     !.prohibitions = IF @ = <<>> THEN <<"none">> ELSE SetToSeq(ToSet(@))]
ParsersAgree ==
  /\ OdrlAccepted(odrl) => Supports(odrl)
  /\ Supports(odrl) => OdrlAccepted(Strict(odrl))
  /\ Deployed /\ IsCanonical(odrl, running.odrl) => OdrlAccepted(Decoded(odrl))
===============================================================================
