-------------------------- MODULE PolicyCorpus_proofs --------------------------
(***************************************************************************)
(* Proofs about the policy corpus, for any documents, any edits and any    *)
(* order of generators and releases: what is deployed has one reading, and *)
(* the engines decide on it.                                               *)
(***************************************************************************)
EXTENDS PolicyCorpus, FiniteSetTheorems, TLAPS

-----------------------------------------------------------------------------
(* What an accepted RBAC policy grants. *)

\* In an accepted policy a name stands for its one role.
LEMMA NameIsItsRole ==
  ASSUME NEW doc \in Rbacs, RbacAccepted(doc), NEW i \in DOMAIN doc.roles
  PROVE  RoleNamed(doc, doc.roles[i].name) = doc.roles[i]
<1> DEFINE At(k) == /\ doc.roles[k].name = doc.roles[i].name
                    /\ \A j \in DOMAIN doc.roles : doc.roles[j].name = doc.roles[i].name => j <= k
<1>1. \A k \in DOMAIN doc.roles : doc.roles[k].name = doc.roles[i].name => k = i
  BY DEF RbacAccepted, NoTwoOf
<1>2. i <= i
  BY DocumentsAssumption
<1>3. At(i)
  BY <1>1, <1>2
<1>4. (CHOOSE k \in DOMAIN doc.roles : At(k)) = i
  BY <1>1, <1>3
<1> QED
  BY <1>4 DEF RoleNamed

\* Expanding the roles each subject is assigned by name gives what the
\* declarations of the document say, whichever of them a reader keeps.
LEMMA GrantsAreDeclared ==
  ASSUME NEW doc \in Rbacs, RbacAccepted(doc)
  PROVE  Grants(doc) = Declared(doc)
<1>1. ASSUME NEW g \in Grants(doc) PROVE g \in Declared(doc)
  <2>1. PICK i \in DOMAIN doc.assignments :
          \E n \in ToSet(doc.assignments[i].roles) : \E e \in Expanded(RoleNamed(doc, n)) :
            g = <<doc.assignments[i].subject, e[1], e[2]>>
    BY <1>1 DEF Grants
  <2>2. PICK n \in ToSet(doc.assignments[i].roles) :
          \E e \in Expanded(RoleNamed(doc, n)) : g = <<doc.assignments[i].subject, e[1], e[2]>>
    BY <2>1
  <2>3. PICK e \in Expanded(RoleNamed(doc, n)) : g = <<doc.assignments[i].subject, e[1], e[2]>>
    BY <2>2
  <2>4. PICK k \in DOMAIN doc.roles : n = doc.roles[k].name
    BY <2>2 DEF RbacAccepted, RoleNames
  <2>5. PICK p \in ToSet(doc.roles[k].permissions), r \in ToSet(doc.roles[k].resources) :
          e = <<p, r>>
    BY <2>3, <2>4, NameIsItsRole DEF Expanded
  <2>6. g = <<doc.assignments[i].subject, p, r>>
    BY <2>3, <2>5
  <2>7. doc.assignments[i] \in ToSet(doc.assignments) /\ doc.roles[k] \in ToSet(doc.roles)
    BY DEF ToSet
  <2>8. g \in {doc.assignments[i].subject} \X ToSet(doc.roles[k].permissions)
                                           \X ToSet(doc.roles[k].resources)
    BY <2>5, <2>6
  <2>9. g[1] = doc.assignments[i].subject /\ <<g[2], g[3]>> \in Expanded(doc.roles[k])
    BY <2>5, <2>6 DEF Expanded
  <2>10. doc.roles[k].name \in ToSet(doc.assignments[i].roles)
    BY <2>2, <2>4
  <2>11. g \in UNION {{a.subject} \X ToSet(q.permissions) \X ToSet(q.resources) :
                       a \in ToSet(doc.assignments), q \in ToSet(doc.roles)}
    <3> DEFINE Product(a, q) == {a.subject} \X ToSet(q.permissions) \X ToSet(q.resources)
    <3>1. g \in Product(doc.assignments[i], doc.roles[k])
      BY <2>8
    <3>2. g \in UNION {Product(a, q) : a \in ToSet(doc.assignments), q \in ToSet(doc.roles)}
      <4> HIDE DEF Product
      <4> QED
        BY <3>1, <2>7
    <3> QED
      BY <3>2
  <2>12. \E a \in ToSet(doc.assignments), q \in ToSet(doc.roles) :
           g[1] = a.subject /\ q.name \in ToSet(a.roles) /\ <<g[2], g[3]>> \in Expanded(q)
    BY <2>7, <2>9, <2>10
  <2> QED
    BY <2>11, <2>12 DEF Declared
<1>2. ASSUME NEW g \in Declared(doc) PROVE g \in Grants(doc)
  <2>1. PICK a \in ToSet(doc.assignments), r \in ToSet(doc.roles) :
          g[1] = a.subject /\ r.name \in ToSet(a.roles) /\ <<g[2], g[3]>> \in Expanded(r)
    BY <1>2 DEF Declared
  <2>2. g = <<g[1], g[2], g[3]>>
    BY <1>2 DEF Declared
  <2>3. PICK i \in DOMAIN doc.assignments : a = doc.assignments[i]
    BY <2>1 DEF ToSet
  <2>4. PICK k \in DOMAIN doc.roles : r = doc.roles[k]
    BY <2>1 DEF ToSet
  <2>5. RoleNamed(doc, r.name) = r
    BY <2>4, NameIsItsRole
  <2>6. <<g[2], g[3]>> \in
          UNION {Expanded(RoleNamed(doc, n)) : n \in ToSet(doc.assignments[i].roles)}
    BY <2>1, <2>3, <2>5
  <2> QED
    BY <2>1, <2>2, <2>3, <2>6 DEF Grants
<1> QED
  BY <1>1, <1>2

-----------------------------------------------------------------------------
(* What the generator of the Cerbos policies covers. *)

\* The grants a kind of resource, or the rule for the SaaS tools, covers.
Covers(g) == \/ g[3] \in Saas /\ g[2] = "execute"
             \/ g[3].kind \in DOMAIN PolicyAction /\ g[2] = PolicyAction[g[3].kind]

\* When the generator found one grant per kind, its output has all grants it
\* covers, and no other.
LEMMA CerbosCovers ==
  ASSUME rbac \in Rbacs, CerbosBuilds
  PROVE  CerbosBuild.grants = {g \in Grants(rbac) : Covers(g)}
<1>1. RbacAccepted(rbac)
  BY DEF CerbosBuilds, Loads, Parses
<1>2. ASSUME NEW kind \in DOMAIN PolicyAction
      PROVE  Matching(PolicyAction[kind], kind) = {The(PolicyAction[kind], kind)}
  <2>1. IsFiniteSet(Grants(rbac))
    BY <1>1, DocumentsAssumption
  <2>2. Matching(PolicyAction[kind], kind) \subseteq Grants(rbac)
    BY DEF Matching
  <2>3. IsFiniteSet(Matching(PolicyAction[kind], kind))
    BY <2>1, <2>2, FS_Subset
  <2>4. Cardinality(Matching(PolicyAction[kind], kind)) = 1
    BY <1>2 DEF CerbosBuilds, OneGrant
  <2>5. PICK x : Matching(PolicyAction[kind], kind) = {x}
    BY <2>3, <2>4, FS_Singleton
  <2> QED
    BY <2>5 DEF The
<1>3. CerbosBuild.grants =
        {The(PolicyAction[kind], kind) : kind \in DOMAIN PolicyAction} \cup SaasGrants
  BY DEF CerbosBuild
<1>4. ASSUME NEW g \in CerbosBuild.grants PROVE g \in Grants(rbac) /\ Covers(g)
  <2>1. CASE g \in SaasGrants
    BY <2>1 DEF SaasGrants, Covers
  <2>2. CASE \E kind \in DOMAIN PolicyAction : g = The(PolicyAction[kind], kind)
    <3>1. PICK kind \in DOMAIN PolicyAction : g \in Matching(PolicyAction[kind], kind)
      BY <2>2, <1>2
    <3> QED
      BY <3>1 DEF Matching, Covers
  <2> QED
    BY <1>3, <1>4, <2>1, <2>2
<1>5. ASSUME NEW g \in Grants(rbac), Covers(g) PROVE g \in CerbosBuild.grants
  <2>1. CASE g[3] \in Saas /\ g[2] = "execute"
    BY <2>1, <1>3 DEF SaasGrants
  <2>2. CASE g[3].kind \in DOMAIN PolicyAction /\ g[2] = PolicyAction[g[3].kind]
    <3>1. g \in Matching(PolicyAction[g[3].kind], g[3].kind)
      BY <2>2 DEF Matching
    <3>2. g = The(PolicyAction[g[3].kind], g[3].kind)
      BY <3>1, <2>2, <1>2
    <3> QED
      BY <3>2, <2>2, <1>3
  <2> QED
    BY <1>5, <2>1, <2>2 DEF Covers
<1> QED
  BY <1>4, <1>5

-----------------------------------------------------------------------------
(* What is deployed. *)

\* The documents are what somebody wrote, and what is deployed was released:
\* its sources were accepted, and its translations made of them.
CorpusInv == rbac \in Rbacs /\ OneReading /\ TranslationsAgree

LEMMA CorpusInit == Init => CorpusInv
  BY ShippedAssumption DEF Init, CorpusInv, OneReading, TranslationsAgree, Deployed

\* Nothing but a release changes what is deployed.
LEMMA IdleStep ==
  ASSUME CorpusInv, UNCHANGED running, rbac' \in Rbacs
  PROVE  CorpusInv'
  BY DEF CorpusInv, OneReading, TranslationsAgree, Deployed, Declared, Expanded, Saas, PolicyAction

\* A release deploys a corpus the process loaded, with current translations.
LEMMA ReleaseStep ==
  ASSUME CorpusInv, Release
  PROVE  CorpusInv'
<1>1. CerbosBuilds /\ RbacAccepted(rbac)
  BY DEF Release, FilesCurrent, CerbosBuilds, Loads, Parses
<1>2. running' = [grants |-> Grants(rbac), odrl |-> odrl, world |-> world,
                  opa |-> OpaBuild, cerbos |-> CerbosBuild, source |-> rbac]
  BY DEF Release, FilesCurrent
<1>3. rbac' \in Rbacs
  BY DEF CorpusInv, Release, sources
<1>4. OneReading'
  <2>1. running'.grants = Grants(rbac) /\ running'.source = rbac
    BY <1>2
  <2>2. Grants(rbac) = Declared(rbac)
    BY <1>1, GrantsAreDeclared DEF CorpusInv
  <2> QED
    BY <2>1, <2>2 DEF OneReading, Declared, Expanded
<1>5. TranslationsAgree'
  <2>1. running'.cerbos.grants = {g \in running'.grants : Covers(g)}
    BY <1>1, <1>2, CerbosCovers DEF CorpusInv
  <2>2. running'.opa = [grants |-> running'.grants, odrl |-> running'.odrl,
                        world |-> running'.world]
    BY <1>2 DEF OpaBuild
  <2>3. /\ <<running'.cerbos.purpose, running'.cerbos.columns, running'.cerbos.predicate,
             running'.cerbos.ttl>>
           = <<running'.odrl.purpose, running'.odrl.columns, running'.odrl.predicate,
               running'.odrl.ttl.n>>
        /\ running'.cerbos.delegation = running'.world.delegation
    BY <1>2 DEF CerbosBuild
  <2> QED
    BY <2>1, <2>2, <2>3 DEF TranslationsAgree, Covers, Saas, PolicyAction
<1> QED
  BY <1>3, <1>4, <1>5 DEF CorpusInv

LEMMA CorpusStep == CorpusInv /\ [Next]_vars => CorpusInv'
<1> SUFFICES ASSUME CorpusInv, [Next]_vars PROVE CorpusInv'
  OBVIOUS
<1>1. CASE Edit
  <2>1. rbac' \in Rbacs /\ UNCHANGED running
    BY <1>1 DEF Edit, EditedWith, CorpusInv
  <2> QED
    BY <2>1, IdleStep
<1>2. CASE BuildOpa
  BY <1>2, IdleStep DEF BuildOpa, sources, CorpusInv
<1>3. CASE BuildCerbos
  BY <1>3, IdleStep DEF BuildCerbos, sources, CorpusInv
<1>4. CASE Release
  BY <1>4, ReleaseStep
<1>5. CASE UNCHANGED vars
  BY <1>5, IdleStep DEF vars, sources, CorpusInv
<1> QED
  BY <1>1, <1>2, <1>3, <1>4, <1>5 DEF Next

\* However often the documents are edited, and whatever they then hold, a
\* deployed policy has one reading (world.py:parse_rbac_policy).
THEOREM DeployedHasOneReading == Spec => []OneReading
<1>1. CorpusInv => OneReading
  BY DEF CorpusInv
<1> QED
  BY <1>1, CorpusInit, CorpusStep, PTL DEF Spec

\* However the generators, the edits and the releases interleave, OPA and
\* Cerbos decide on the corpus the process loaded (scripts/build_opa_data.py,
\* scripts/build_cerbos_policies.py).
THEOREM EnginesAreCurrent == Spec => []TranslationsAgree
<1>1. CorpusInv => TranslationsAgree
  BY DEF CorpusInv
<1> QED
  BY <1>1, CorpusInit, CorpusStep, PTL DEF Spec
-----------------------------------------------------------------------------
(* What Mediation assumes of the corpus. *)

\* The actions of the kinds the corpus is read for.
LEMMA ActionOf ==
  /\ PolicyAction["lakecat"] = "read" /\ PolicyAction["dataset"] = "dataset:view"
  /\ PolicyAction["memory"] = "read"
<1> DEFINE Act(kind) == CASE kind = "dataset" -> "dataset:view"
                          [] kind = "report" -> "delegate"
                          [] kind = "replay" -> "write"
                          [] OTHER -> "read"
<1>1. Act("dataset") = "dataset:view" /\ Act("lakecat") = "read"  /\ Act("memory") = "read"
  OBVIOUS
<1> QED
  BY <1>1 DEF PolicyAction

LEMMA KindsNamed ==
  /\ {"lakecat", "dataset", "memory"} \subseteq DOMAIN PolicyAction
  /\ "saas" \notin DOMAIN PolicyAction
BY DEF PolicyAction

\* The generator's single grant of a kind.
LEMMA SingleGrants ==
  ASSUME rbac \in Rbacs, CerbosBuilds, NEW kind \in DOMAIN PolicyAction
  PROVE  /\ Matching(PolicyAction[kind], kind) = {The(PolicyAction[kind], kind)}
         /\ The(PolicyAction[kind], kind) \in Grants(rbac)
         /\ The(PolicyAction[kind], kind)[3].kind = kind
         /\ The(PolicyAction[kind], kind)[2] = PolicyAction[kind]
<1>1. IsFiniteSet(Grants(rbac))
  BY DocumentsAssumption DEF CerbosBuilds, Loads, Parses
<1>2. Matching(PolicyAction[kind], kind) \subseteq Grants(rbac)
  BY DEF Matching
<1>3. IsFiniteSet(Matching(PolicyAction[kind], kind))
  BY <1>1, <1>2, FS_Subset
<1>4. Cardinality(Matching(PolicyAction[kind], kind)) = 1
  BY DEF CerbosBuilds, OneGrant
<1>5. PICK x : Matching(PolicyAction[kind], kind) = {x}
  BY <1>3, <1>4, FS_Singleton
<1>6. The(PolicyAction[kind], kind) = x
  BY <1>5 DEF The
<1> QED
  BY <1>5, <1>6 DEF Matching

\* A grant is a subject, a permission and a resource.
LEMMA GrantsAreTriples ==
  \A doc : \A g \in Grants(doc) : g = <<g[1], g[2], g[3]>>
BY DEF Grants

\* The one approver has both SaaS resources.
LEMMA ApproverHasBoth ==
  ASSUME rbac \in Rbacs, CerbosBuilds
  PROVE  \E u : /\ SaasSubjects = {u}
                /\ \A g \in SaasGrants : g[1] = u
                /\ \A s \in Saas : <<u, "execute", s>> \in SaasGrants
<1>1. IsFiniteSet(Grants(rbac)) /\ SaasGrants \subseteq Grants(rbac)
  BY DocumentsAssumption DEF CerbosBuilds, Loads, Parses, SaasGrants
<1>2. IsFiniteSet(SaasGrants)
  BY <1>1, FS_Subset
<1>3. IsFiniteSet(SaasSubjects)
  <2> DEFINE f == [g \in SaasGrants |-> g[1]]
  <2>1. f \in Surjection(SaasGrants, SaasSubjects)
    BY DEF SaasSubjects, Surjection
  <2> QED
    BY <1>2, <2>1, FS_Surjection
<1>4. PICK u : SaasSubjects = {u}
  BY <1>3, FS_Singleton DEF CerbosBuilds
<1>5. \A g \in SaasGrants : g[1] = u
  BY <1>4 DEF SaasSubjects
<1>6. \A g \in SaasGrants : g[3] \in Saas /\ g = <<u, "execute", g[3]>>
  BY <1>1, <1>5, GrantsAreTriples DEF SaasGrants
<1>7. ASSUME NEW s \in Saas, <<u, "execute", s>> \notin SaasGrants PROVE FALSE
  <2>1. PICK o \in Saas : \A r \in Saas : r # s => r = o
    BY <1>7 DEF Saas
  <2>2. SaasGrants \subseteq {<<u, "execute", o>>}
    BY <1>6, <1>7, <2>1
  <2>3. IsFiniteSet({<<u, "execute", o>>}) /\ Cardinality({<<u, "execute", o>>}) = 1
    BY FS_Singleton
  <2>4. Cardinality(SaasGrants) <= 1
    BY <2>2, <2>3, FS_Subset
  <2> QED
    BY <2>4 DEF CerbosBuilds
<1> QED
  BY <1>4, <1>5, <1>7

LEMMA MediationsFacts ==
  ASSUME rbac \in Rbacs, CerbosBuilds
  PROVE  /\ \A g, h \in CerbosBuild.grants : g[3] = h[3] => g[1] = h[1]
         /\ \A s \in Saas : \E g \in CerbosBuild.grants : g[3] = s
         /\ \A g \in CerbosBuild.grants : g[3] \in Saas => SaasSubjects = {g[1]}
         /\ \E g \in CerbosBuild.grants : g[3] = odrl.target /\ g[1] = odrl.assignee
         /\ \E g \in CerbosBuild.grants : g[3] = world.study /\ g[1] = world.analyst
         /\ \E g \in CerbosBuild.grants : g[3].kind = "memory" /\ g[1] = world.supervisor
<1> DEFINE T(kind) == The(PolicyAction[kind], kind)
<1>1. CerbosBuild.grants = {T(kind) : kind \in DOMAIN PolicyAction} \cup SaasGrants
  BY DEF CerbosBuild
<1>2. \A kind \in DOMAIN PolicyAction : /\ Matching(PolicyAction[kind], kind) = {T(kind)}
                                        /\ T(kind)[3].kind = kind
  BY SingleGrants
<1> HIDE DEF T
<1>3. PICK u : /\ SaasSubjects = {u}
               /\ \A g \in SaasGrants : g[1] = u
               /\ \A s \in Saas : <<u, "execute", s>> \in SaasGrants
  BY ApproverHasBoth
<1>4. \A g \in SaasGrants : g[3].kind = "saas" /\ g[3] \in Saas
  BY DEF SaasGrants, Saas
<1>5. \A r \in Saas : r.kind = "saas"
  BY DEF Saas
<1>6. \A g, h \in CerbosBuild.grants : g[3] = h[3] => g[1] = h[1]
  BY <1>1, <1>2, <1>3, <1>4, KindsNamed
<1>7. \A s \in Saas : \E g \in CerbosBuild.grants : g[3] = s
  <2> TAKE s \in Saas
  <2>1. <<u, "execute", s>> \in CerbosBuild.grants
    BY <1>1, <1>3
  <2> QED
    BY <2>1
<1>8. \A g \in CerbosBuild.grants : g[3] \in Saas => SaasSubjects = {g[1]}
  BY <1>1, <1>2, <1>3, <1>5, KindsNamed
<1>9. T("lakecat") = <<odrl.assignee, odrl.action, odrl.target>>
  BY ActionOf DEF T, CerbosBuilds, CarrierGrant
<1>10. world.study = T("dataset")[3] /\ world.analyst = T("dataset")[1]
  <2>1. world.study = T("dataset")[3]
    BY ActionOf DEF T, CerbosBuilds
  <2>2. <<world.analyst, "dataset:view", world.study>> \in Grants(rbac)
    BY DEF CerbosBuilds, Loads
  <2>3. world.study.kind = "dataset"
    BY <1>2, <2>1, KindsNamed
  <2>4. <<world.analyst, "dataset:view", world.study>> \in Matching("dataset:view", "dataset")
    BY <2>2, <2>3 DEF Matching
  <2>5. Matching("dataset:view", "dataset") = {T("dataset")}
    BY <1>2, KindsNamed, ActionOf
  <2> QED
    BY <2>1, <2>4, <2>5
<1>11. world.supervisor = T("memory")[1] /\ T("memory")[3].kind = "memory"
  BY <1>2, KindsNamed, ActionOf DEF T, CerbosBuilds
<1> QED
  BY <1>1, <1>6, <1>7, <1>8, <1>9, <1>10, <1>11, KindsNamed

\* A release deploys a corpus of which Mediation's assumptions are true.
LEMMA ReleaseMediations ==
  ASSUME rbac \in Rbacs, Release
  PROVE  CorpusIsMediations'
<1>1. CerbosBuilds
  BY DEF Release, FilesCurrent
<1>2. running' = [grants |-> Grants(rbac), odrl |-> odrl, world |-> world,
                  opa |-> OpaBuild, cerbos |-> CerbosBuild, source |-> rbac]
  BY DEF Release, FilesCurrent
<1>3. /\ running'.cerbos.grants = CerbosBuild.grants
      /\ running'.cerbos.approver = SaasSubjects
      /\ running'.odrl = odrl /\ running'.world = world
  BY <1>2 DEF CerbosBuild
<1> DEFINE grants == CerbosBuild.grants
           Of(resource) == {g[1] : g \in {h \in grants : h[3] = resource}}
<1>4. /\ \A g, h \in grants : g[3] = h[3] => g[1] = h[1]
      /\ \A s \in Saas : \E g \in grants : g[3] = s
      /\ \A g \in grants : g[3] \in Saas => SaasSubjects = {g[1]}
      /\ \E g \in grants : g[3] = odrl.target /\ g[1] = odrl.assignee
      /\ \E g \in grants : g[3] = world.study /\ g[1] = world.analyst
      /\ \E g \in grants : g[3].kind = "memory" /\ g[1] = world.supervisor
  BY <1>1, MediationsFacts
<1> HIDE DEF grants
<1>5. \A g \in grants : Of(g[3]) = {g[1]}
  BY <1>4
<1>6. \A s \in Saas : Of(s) = SaasSubjects
  BY <1>4, <1>5
<1>7. Of(odrl.target) = {odrl.assignee} /\ Of(world.study) = {world.analyst}
  BY <1>4, <1>5
<1> QED
  BY <1>3, <1>4, <1>5, <1>6, <1>7 DEF CorpusIsMediations, Saas, grants

\* Every corpus that can be released, however it was edited, is one Mediation's
\* assumptions are true of (scripts/build_cerbos_policies.py refuses others).
THEOREM ReleasedCorpusFits == Spec => []CorpusIsMediations
<1>1. Init => CorpusIsMediations
  BY DEF Init, CorpusIsMediations, Deployed
<1>2. CorpusInv /\ CorpusIsMediations /\ [Next]_vars => CorpusIsMediations'
  <2> SUFFICES ASSUME CorpusInv, CorpusIsMediations, [Next]_vars PROVE CorpusIsMediations'
    OBVIOUS
  <2>1. CASE Release
    BY <2>1, ReleaseMediations DEF CorpusInv
  <2>2. CASE UNCHANGED running
    BY <2>2 DEF CorpusIsMediations, Deployed, Saas
  <2> QED
    BY <2>1, <2>2 DEF Next, Edit, EditedWith, BuildOpa, BuildCerbos, vars
<1> QED
  BY <1>1, <1>2, CorpusInit, CorpusStep, PTL DEF Spec
-----------------------------------------------------------------------------
(* The two parsers of the ODRL profile. *)

\* The elements of a list, each once, in some order.
LEMMA ListOfSet ==
  ASSUME NEW S, IsFiniteSet(S), S # {}
  PROVE  /\ SetToSeq(S) # <<>>
         /\ ToSet(SetToSeq(S)) = S
         /\ IsInjective(SetToSeq(S))
<1> DEFINE n == Cardinality(S)
           Good(f) == f \in [1 .. n -> S] /\ IsInjective(f)
<1>1. n \in Nat /\ n # 0
  BY FS_CardinalityType, FS_EmptySet
<1>2. PICK b : b \in Bijection(1 .. n, S)
  BY FS_CardinalityType DEF ExistsBijection
<1>3. Good(b)
  BY <1>2 DEF Bijection, Injection, IsInjective
<1>4. Good(SetToSeq(S))
  <2>1. SetToSeq(S) = CHOOSE f : Good(f)
    BY DEF SetToSeq
  <2> HIDE DEF Good
  <2> QED
    BY <1>3, <2>1
<1> DEFINE s == SetToSeq(S)
<1>5. s \in [1 .. n -> S] /\ IsInjective(s)
  BY <1>4
<1> HIDE DEF s
<1>6. s \in Injection(1 .. n, S)
  BY <1>5 DEF Injection, IsInjective
<1>7. s \in Surjection(1 .. n, S)
  <2>1. Cardinality(1 .. n) = n
    BY <1>1, FS_Interval
  <2> QED
    BY <1>6, <2>1, FS_Injection
<1>8. \A e \in S : \E i \in 1 .. n : s[i] = e
  BY <1>7 DEF Surjection
<1>9. ToSet(s) = S
  BY <1>5, <1>8 DEF ToSet
<1>10. s # <<>>
  BY <1>9 DEF ToSet
<1> QED
  BY <1>5, <1>9, <1>10 DEF s

\* A nonempty list without the odd value stays acceptable when its duplicates
\* are dropped.
LEMMA WithoutDuplicates ==
  ASSUME NEW list, list \in Seq(ToSet(list)), list # <<>>, NoString \notin ToSet(list)
  PROVE  NonemptyStrings(SetToSeq(ToSet(list)))
<1>1. DOMAIN list = 1 .. Len(list) /\ Len(list) \in Nat
  OBVIOUS
<1>2. ToSet(list) # {}
  BY <1>1 DEF ToSet
<1>3. IsFiniteSet(ToSet(list))
  <2>1. list \in Surjection(1 .. Len(list), ToSet(list))
    BY <1>1 DEF Surjection, ToSet
  <2>2. IsFiniteSet(1 .. Len(list))
    BY <1>1, FS_Interval
  <2> QED
    BY <2>1, <2>2, FS_Surjection
<1> QED
  BY <1>2, <1>3, ListOfSet DEF NonemptyStrings

\* What the loader supports, the parser accepts once it is strict.
LEMMA SupportedIsAccepted ==
  ASSUME NEW doc \in Odrls, Supports(doc)
  PROVE  OdrlAccepted(Strict(doc))
<1> DEFINE columns == SetToSeq(ToSet(doc.columns))
           prohibitions == IF doc.prohibitions = <<>> THEN <<"none">>
                                                      ELSE SetToSeq(ToSet(doc.prohibitions))
<1>1. NonemptyStrings(columns)
  BY OdrlsAssumption, WithoutDuplicates DEF Supports
<1>2. NonemptyStrings(prohibitions)
  <2>1. CASE doc.prohibitions = <<>>
    <3> DEFINE none == <<"none">>
    <3>1. DOMAIN none = {1} /\ none[1] = "none" /\ none # <<>>
      OBVIOUS
    <3>2. prohibitions = none
      BY <2>1
    <3> HIDE DEF none
    <3>3. ToSet(none) = {"none"} /\ IsInjective(none)
      BY <3>1 DEF ToSet, IsInjective
    <3> QED
      BY <3>1, <3>2, <3>3, OdrlsAssumption DEF NonemptyStrings
  <2>2. CASE doc.prohibitions # <<>>
    BY <2>2, OdrlsAssumption, WithoutDuplicates DEF Supports
  <2> QED
    BY <2>1, <2>2
<1>3. Strict(doc) = [Decoded(doc) EXCEPT !.ttl.type = "int", !.columns = columns,
                                         !.prohibitions = prohibitions]
  BY OdrlsAssumption DEF Strict, Decoded
<1> HIDE DEF columns, prohibitions
<1>4. /\ DOMAIN Decoded(doc) = DOMAIN doc /\ Decoded(doc).form = "closed"
      /\ \A f \in DOMAIN doc : f # "form" => Decoded(doc)[f] = doc[f]
  BY OdrlsAssumption DEF Decoded, Supports
<1> DEFINE d == Decoded(doc)
<1> HIDE DEF d
<1>5. Strict(doc) = [d EXCEPT !.ttl.type = "int", !.columns = columns,
                              !.prohibitions = prohibitions]
  BY <1>3 DEF d
<1>6. OdrlStrings \cup {"form", "columns", "prohibitions", "ttl"} \subseteq DOMAIN d
  BY <1>4, OdrlsAssumption DEF d
<1>7. {"type", "n"} \subseteq DOMAIN d.ttl /\ d.ttl = doc.ttl
  BY <1>4, OdrlsAssumption DEF d
<1>8. /\ Strict(doc).form = d.form
      /\ \A f \in OdrlStrings : Strict(doc)[f] = d[f]
      /\ Strict(doc).columns = columns /\ Strict(doc).prohibitions = prohibitions
  BY <1>5, <1>6 DEF OdrlStrings
<1>9. Strict(doc).ttl = [d.ttl EXCEPT !.type = "int"]
  BY <1>5, <1>6
<1>10. Strict(doc).ttl.type = "int" /\ Strict(doc).ttl.n = doc.ttl.n
  BY <1>7, <1>9
<1>11. \A f \in OdrlStrings : d[f] = doc[f]
  BY <1>4, OdrlsAssumption DEF d, OdrlStrings
<1> QED
  BY <1>1, <1>2, <1>4, <1>8, <1>10, <1>11 DEF OdrlAccepted, Supports, d

\* The deployed process loaded an ODRL policy the parser accepts.
OdrlInv == odrl \in Odrls /\ (Deployed => OdrlAccepted(running.odrl))

LEMMA OdrlInit == Init => OdrlInv
  BY ShippedAssumption DEF Init, OdrlInv, Deployed

LEMMA OdrlStep == OdrlInv /\ [Next]_vars => OdrlInv'
<1> SUFFICES ASSUME OdrlInv, [Next]_vars PROVE OdrlInv'
  OBVIOUS
<1>1. CASE Edit
  BY <1>1 DEF Edit, EditedWith, OdrlInv, Deployed, OdrlAccepted, NonemptyStrings
<1>2. CASE Release
  <2>1. OdrlAccepted(odrl)
    BY <1>2 DEF Release, FilesCurrent, OpaBuilds, Loads, Parses
  <2>2. running'.odrl = odrl /\ odrl' = odrl
    BY <1>2 DEF Release, sources
  <2> QED
    BY <2>1, <2>2 DEF OdrlInv, OdrlAccepted
<1>3. CASE UNCHANGED <<sources, running>>
  BY <1>3 DEF OdrlInv, Deployed, OdrlAccepted, sources
<1> QED
  BY <1>1, <1>2, <1>3 DEF Next, BuildOpa, BuildCerbos, vars

\* The two ODRL parsers never differ where it matters (world.py:
\* parse_odrl_policy, state.py:ClosedPolicyLoader): whatever document is there
\* after any edits, the loader supports what the parser accepts, refuses what
\* the parser would refuse but for the three laxities Strict repairs, and what
\* the gate passes as the canonical policy is a document the parser accepted.
THEOREM OdrlParsersAgree == Spec => []ParsersAgree
<1>1. ASSUME OdrlInv PROVE ParsersAgree
  <2>1. OdrlAccepted(odrl) => Supports(odrl)
    BY DEF OdrlAccepted, Supports, NonemptyStrings
  <2>2. Supports(odrl) => OdrlAccepted(Strict(odrl))
    BY <1>1, SupportedIsAccepted DEF OdrlInv
  <2>3. Deployed /\ IsCanonical(odrl, running.odrl) => OdrlAccepted(Decoded(odrl))
    BY <1>1 DEF OdrlInv, IsCanonical
  <2> QED
    BY <2>1, <2>2, <2>3 DEF ParsersAgree
<1> QED
  BY <1>1, OdrlInit, OdrlStep, PTL DEF Spec
=============================================================================
