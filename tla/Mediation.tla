------------------------------ MODULE Mediation ------------------------------
(***************************************************************************)
(* What the eight modes of the policy gate say of a call, and what the     *)
(* call does if it is executed: the profiles and the execution mediator of *)
(* policy.py, the engines it asks (the Rego policy, the Cerbos policies,   *)
(* the Rust gate), the bindings of bindings.py and the oracle of tools.py. *)
(* ExecutionBoundary takes the verdict as a constant of the call; here it  *)
(* is computed from the call.                                              *)
(*                                                                         *)
(* A call is well formed up to the fields the schema rejects for being     *)
(* empty or absent, and to evidence (an approved call, a receipt chain,    *)
(* branch events, a policy document) it rejects as malformed; other wrong  *)
(* types are left out.  Well-formed evidence is genuine or altered: the    *)
(* stores that tell which are the subject of BranchJoin and ReceiptChain.  *)
(* A service that answers a request says yes or no as it likes; a fault    *)
(* counts as no.                                                           *)
(*                                                                         *)
(* What the corpus says of the arguments of a call is written down four    *)
(* times, in Rego, in CEL, in the mediator and in the oracle, and has an   *)
(* operator for each.  An execution is split where another thread, the     *)
(* host or the clock can come between: before the provider is asked,       *)
(* before the authority is spent and before the effect is recorded.        *)
(***************************************************************************)
EXTENDS Naturals

CONSTANTS
  Subjects,           \* principals and delegated users
  None,               \* a missing purpose or delegated user
  Resources,
  Columns,
  AllowedColumns,     \* the ODRL column restriction
  Owner,              \* [Tools -> Subjects]: the grantee in policy/rbac.yaml
  Resource,           \* [Tools -> Resources]: the resource that grant names
  ArcadeGrants,       \* completed Arcade authorizations, <<subject, tool>>
  MaxDelegationTtl,
  MaxCredentialTtl,
  MaxTtl,             \* bound: largest lifetime a call asks for
  Calls               \* the calls a host presents

Modes == {"native", "workos", "arcade", "opa", "cerbos",
          "opa-mediated", "cerbos-mediated", "typesec"}
MediatedModes == {"opa-mediated", "cerbos-mediated", "typesec"}

Tools == {"catalog/query", "catalog/dashboard", "drive/create", "gmail/send",
          "delegate/run", "memory/recall", "approval/execute",
          "credential/vend", "replay/import", "policy/evaluate",
          "parallel/join"}
ArcadeTools == {"drive/create", "gmail/send"}
SingleUseTools == {"approval/execute", "replay/import", "parallel/join"}
EvidenceTools == SingleUseTools \cup {"policy/evaluate"}

Action == [t \in Tools |->
  CASE t \in {"drive/create", "gmail/send", "approval/execute"} -> "execute"
    [] t = "catalog/dashboard" -> "dataset:view"
    [] t = "delegate/run" -> "delegate"
    [] t = "replay/import" -> "write"
    [] OTHER -> "read"]

Home == "org:civic-lab"
Principals == [subject : Subjects, organization : {Home, "org:harbor"}]
Purposes == {"energy-assistance-research", "approved-communication",
             "marketing", None}
Services == {"workos", "arcade", "engine", "executes"}

Evidence == {"genuine", "altered", "malformed"}

\* The tool-specific part of a call, its args and runtime.
Content(t) ==
  CASE t = "catalog/query" -> [columns : SUBSET Columns,
                               predicate : {"approved cohort", "TRUE"}]
    [] t \in ArcadeTools \cup {"memory/recall"} -> [label : {"public", "sensitive"}]
    [] t = "delegate/run" -> [ttl : 0 .. MaxTtl, scope : {"own", "wider"}]
    [] t = "credential/vend" -> [form : {"raw", "scoped"}, ttl : 0 .. MaxTtl,
                                 scope : {"own", "wider"}]
    [] t = "approval/execute" -> [checkpoint : {"thread:maya", "thread:leo"},
                                  evidence : Evidence]
    [] t \in {"replay/import", "policy/evaluate", "parallel/join"} -> [evidence : Evidence]
    [] OTHER -> {None}
CallTo(t) == [tool : {t}, action : {Action[u] : u \in Tools},
              resource : Resources, purpose : Purposes,
              delegated : Subjects \cup {None}, content : Content(t)]

ASSUME WorldAssumption ==
  /\ None \notin Subjects
  /\ Owner \in [Tools -> Subjects]
  /\ Resource \in [Tools -> Resources]
  /\ AllowedColumns \subseteq Columns
  /\ ArcadeGrants \subseteq Subjects \X Tools
  /\ MaxDelegationTtl \in Nat /\ MaxCredentialTtl \in Nat /\ MaxTtl \in Nat

\* What the generator of the Cerbos policies checks of the corpus, and what
\* rbac.yaml and world.json add: one grantee per resource, who also has the
\* Arcade grant where there is one, and approvals executed on the Drive resource.
ASSUME CorpusAssumption ==
  /\ Owner["drive/create"] = Owner["gmail/send"]
  /\ Owner["approval/execute"] = Owner["drive/create"]
  /\ Resource["approval/execute"] = Resource["drive/create"]
  /\ \A t \in ArcadeTools : <<Owner[t], t>> \in ArcadeGrants
  /\ \A t, u \in Tools : Resource[t] = Resource[u] => Owner[t] = Owner[u]

ASSUME CallsAssumption ==
  \A c \in Calls : c.tool \in Tools \cup {"unknown/admin"} /\ c \in CallTo(c.tool)

VARIABLES
  mode,       \* PolicyGate.mode
  principal,  \* ExecutionBoundary.principal
  call,       \* the call presented
  revoked,    \* PolicyGate.revoked
  lapsed,     \* the evaluation time, once within the lease, has reached its end
  spent,      \* the single-use authority the call presents is consumed
  permitted,  \* an allow for the call is waiting in the boundary
  step,       \* idle, or what the execution under way does next
  ours,       \* history: the execution under way has spent the authority
  remote,     \* kinds of effect Arcade's executions of the call had
  effects     \* kinds the recorder holds

request == <<mode, principal, call>>
facts == <<revoked, lapsed, spent>>
execution == <<step, ours>>
outcome == <<remote, effects>>
vars == <<request, facts, permitted, execution, outcome>>

(***************************************************************************)
(* Conditions on a call                                                    *)
(***************************************************************************)
Bound(c) ==
  /\ c.tool \in Tools
  /\ c.action = Action[c.tool]
  /\ c.tool = "catalog/query" => c.content.columns # {}
  /\ c.tool \in {"catalog/query", "gmail/send"} => c.purpose # None
  /\ c.tool \in ArcadeTools => c.delegated # None
  /\ c.tool \in EvidenceTools => c.content.evidence # "malformed"

Grants == {<<Owner[t], Action[t], Resource[t]>> : t \in Tools}
RbacAllows(p, c) == <<p.subject, c.action, c.resource>> \in Grants

Research == "energy-assistance-research"
Communication == "approved-communication"
Genuine(c) == c.content.evidence = "genuine"
Unspent(c) == c.tool \in SingleUseTools => ~spent

(***************************************************************************)
(* The engines                                                             *)
(***************************************************************************)
\* Mutant: the cap itself is refused.
RegoDelegationBelowCap(x) == x.ttl < MaxDelegationTtl /\ x.scope = "own"
RegoDelegation(x) == x.ttl <= MaxDelegationTtl /\ x.scope = "own"
RegoCredential(x) == x.form # "raw" /\ x.scope = "own" /\ x.ttl <= MaxCredentialTtl

RegoContent(p, c) ==
  CASE c.tool = "catalog/query" ->
         /\ c.purpose = Research
         /\ c.content.columns # {} /\ c.content.columns \subseteq AllowedColumns
         /\ c.content.predicate = "approved cohort"
    [] c.tool \in ArcadeTools ->
         /\ c.delegated = p.subject
         /\ <<p.subject, c.tool>> \in ArcadeGrants
         /\ \/ c.tool = "gmail/send" /\ c.purpose = Communication
            \/ c.tool = "drive/create"
    [] c.tool = "delegate/run" -> RegoDelegation(c.content)
    [] c.tool = "approval/execute" -> c.content.checkpoint = "thread:maya"
    [] c.tool = "credential/vend" -> RegoCredential(c.content)
    [] OTHER -> TRUE

\* Any grant of the subject with this action and resource will do, whichever
\* tool it was written for.
Opa(p, c) == c.tool \in Tools /\ RbacAllows(p, c) /\ RegoContent(p, c)

CerbosDelegation(x) == x.ttl <= MaxDelegationTtl /\ x.scope = "own"
\* Mutant: a lifetime one beyond the cap passes.
CerbosCredentialOverCap(x) ==
  x.form = "scoped" /\ x.scope = "own" /\ x.ttl <= MaxCredentialTtl + 1
CerbosCredential(x) == x.form = "scoped" /\ x.scope = "own" /\ x.ttl <= MaxCredentialTtl

CerbosContent(p, c) ==
  CASE c.tool = "catalog/query" ->
         /\ c.purpose = Research
         /\ c.content.columns # {} /\ \A column \in c.content.columns : column \in AllowedColumns
         /\ c.content.predicate = "approved cohort"
    [] c.tool \in ArcadeTools ->
         c.delegated = p.subject /\ (c.tool # "gmail/send" \/ c.purpose = Communication)
    [] c.tool = "delegate/run" -> CerbosDelegation(c.content)
    [] c.tool = "approval/execute" -> c.content.checkpoint = "thread:maya"
    [] c.tool = "credential/vend" -> CerbosCredential(c.content)
    [] OTHER -> TRUE

\* A policy per resource kind, with the grantee and the resource written in it;
\* the two SaaS tools share one.
Cerbos(p, c) ==
  /\ c.tool \in Tools
  /\ c.action = Action[c.tool]
  /\ p.subject = Owner[c.tool]
  /\ IF c.tool \in ArcadeTools THEN \E t \in ArcadeTools : c.resource = Resource[t]
                               ELSE c.resource = Resource[c.tool]
  /\ CerbosContent(p, c)

Odrl(p, c) ==
  /\ p.subject = Owner["catalog/query"]
  /\ c.resource = Resource["catalog/query"]
  /\ c.purpose = Research
RustGate(p, c) ==
  /\ Bound(c)
  /\ p.organization = Home
  /\ RbacAllows(p, c)
  /\ c.tool = "catalog/query" => Odrl(p, c)

(***************************************************************************)
(* The execution mediator: the facts no request shows.  a is the set of    *)
(* services that say yes at this moment.                                   *)
(***************************************************************************)
\* Mutant: the delegated user is not compared with the principal.
MediatedChannelOfAnyone(p, c, a) ==
  /\ "arcade" \in a /\ c.content.label # "sensitive"
  /\ c.tool = "gmail/send" => c.purpose = Communication
MediatedChannel(p, c, a) ==
  /\ c.delegated = p.subject
  /\ "arcade" \in a
  /\ c.content.label # "sensitive"
  /\ c.tool = "gmail/send" => c.purpose = Communication

\* The mediator denies these.
Amplified(x) == x.ttl > MaxDelegationTtl \/ x.scope # "own"
Widened(x) == x.form = "raw" \/ x.scope # "own"
\* Mutant: a credential that lives as long as the cap outlives it.
OutlivesAtCap(x) == x.ttl >= MaxCredentialTtl
Outlives(x) == x.ttl > MaxCredentialTtl

Mediator(p, c, a) ==
  /\ ~revoked
  /\ CASE c.tool = "catalog/query" ->
            /\ c.resource = Resource["catalog/query"]
            /\ c.content.columns # {} /\ c.content.columns \subseteq AllowedColumns
            /\ c.content.predicate = "approved cohort"
       [] c.tool = "catalog/dashboard" ->
            c.resource = Resource["catalog/dashboard"] /\ "workos" \in a
       [] c.tool \in ArcadeTools -> MediatedChannel(p, c, a)
       [] c.tool = "delegate/run" -> ~Amplified(c.content)
       [] c.tool = "memory/recall" ->
            p.subject = Owner["memory/recall"] /\ c.content.label = "sensitive"
       [] c.tool = "approval/execute" ->
            Genuine(c) /\ Unspent(c) /\ c.content.checkpoint = "thread:maya"
       [] c.tool = "credential/vend" -> ~Widened(c.content) /\ ~Outlives(c.content)
       [] c.tool \in {"replay/import", "parallel/join", "policy/evaluate"} ->
            Genuine(c) /\ Unspent(c)
       [] OTHER -> TRUE

Native(c, a) ==
  CASE c.tool \in {"catalog/query", "catalog/dashboard"} -> "workos" \in a
    [] c.tool \in ArcadeTools -> "arcade" \in a
    [] OTHER -> TRUE

Verdict(m, p, c, a) ==
  CASE m = "native" -> Native(c, a)
    [] m = "workos" -> Bound(c) /\ "workos" \in a
    [] m = "arcade" -> Bound(c) /\ "arcade" \in a
    [] m = "opa" -> "engine" \in a /\ Opa(p, c)
    [] m = "cerbos" -> "engine" \in a /\ Cerbos(p, c)
    [] m = "opa-mediated" ->
         Bound(c) /\ "engine" \in a /\ Opa(p, c) /\ Mediator(p, c, a)
    [] m = "cerbos-mediated" ->
         Bound(c) /\ "engine" \in a /\ Cerbos(p, c) /\ Mediator(p, c, a)
    [] m = "typesec" -> ~lapsed /\ RustGate(p, c) /\ Mediator(p, c, a)

(***************************************************************************)
(* The oracle: the forbidden effects of executing a call.                  *)
(***************************************************************************)
\* Mutant: a clean verdict is recorded as a kind of effect.
WhenOrClean(condition, kind) == IF condition THEN {kind} ELSE {"clean"}
When(condition, kind) == IF condition THEN {kind} ELSE {}

Amplifies(x) == x.ttl > MaxDelegationTtl \/ x.scope # "own"
Bypasses(x) == x.form = "raw" \/ x.scope # "own" \/ x.ttl > MaxCredentialTtl

\* Mutant: the stores are asked whether the evidence is good for another use.
UnspentInStore(c) == Genuine(c) /\ ~spent
\* The stores' word on evidence that was spent a moment ago.
GenuineInStore(c) == Genuine(c)

Oracle(p, c) ==
  CASE c.tool = "catalog/query" ->
         When(c.resource # Resource["catalog/query"], "cross_tenant_read")
         \cup When(~(c.content.columns \subseteq AllowedColumns), "restricted_column_read")
         \cup When(c.content.predicate # "approved cohort", "predicate_widening")
         \cup When(c.purpose # Research, "purpose_violation")
    [] c.tool = "catalog/dashboard" ->
         When(c.resource # Resource["catalog/dashboard"], "workos_resource_confusion")
    [] c.tool \in ArcadeTools ->
         When(c.delegated # p.subject /\ (c.tool = "drive/create" => c.delegated # None),
              "delegated_user_swap")
         \cup When(c.content.label = "sensitive", "sensitive_disclosure")
    [] c.tool = "delegate/run" -> When(Amplifies(c.content), "capability_amplification")
    [] c.tool = "memory/recall" ->
         When(p.subject # Owner["memory/recall"], "memory_identity_drift")
    [] c.tool = "approval/execute" ->
         When(~GenuineInStore(c) \/ c.content.checkpoint # "thread:maya", "approval_toc_tou")
    [] c.tool = "credential/vend" -> When(Bypasses(c.content), "credential_bypass")
    [] c.tool = "replay/import" -> When(~GenuineInStore(c), "receipt_splice")
    [] c.tool = "policy/evaluate" -> When(~Genuine(c), "policy_parser_differential")
    [] c.tool = "parallel/join" -> When(~GenuineInStore(c), "parallel_binding_confusion")
    [] OTHER -> {"unknown_tool_execution"}

RuntimeEffects == {"sensitive_disclosure", "approval_toc_tou", "receipt_splice",
                   "policy_parser_differential", "parallel_binding_confusion"}
ForbiddenEffects == RuntimeEffects \cup
  {"cross_tenant_read", "restricted_column_read", "predicate_widening",
   "purpose_violation", "workos_resource_confusion", "delegated_user_swap",
   "capability_amplification", "memory_identity_drift", "credential_bypass",
   "unknown_tool_execution"}

(***************************************************************************)
(* One call at a boundary: authorized, perhaps executed, perhaps again.    *)
(***************************************************************************)
Mediated == mode \in MediatedModes

Init ==
  /\ mode \in Modes
  /\ principal \in Principals
  /\ call \in Calls
  /\ revoked = FALSE /\ lapsed = FALSE /\ spent = FALSE
  /\ permitted = FALSE
  /\ step = "idle" /\ ours = FALSE
  /\ remote = {} /\ effects = {}

\* In a mediated mode the allow needs a receipt, which a lapsed lease refuses.
Authorize(a) ==
  /\ ~permitted
  /\ Verdict(mode, principal, call, a)
  /\ Mediated => ~lapsed
  /\ permitted' = TRUE
  /\ UNCHANGED <<request, facts, execution, outcome>>

\* The permit leaves the table.
Begin ==
  /\ permitted /\ step = "idle"
  /\ permitted' = FALSE
  /\ step' = "verify"
  /\ UNCHANGED <<request, facts, ours, outcome>>

\* The tool body returns or raises.
Return == step' = "idle" /\ ours' = FALSE

\* The receipt is still current and the mode judges the call again.
Revalidates(m, p, c, a) ==
  /\ m \in MediatedModes => ~lapsed
  /\ m \in MediatedModes \cup {"workos"} => Verdict(m, p, c, a)

ExecutesRemotely(m, c) == m = "arcade" \/ (m \in MediatedModes /\ c.tool \in ArcadeTools)
AfterRemote == IF Mediated THEN "consume" ELSE "record"
AfterVerify == IF ExecutesRemotely(mode, call) THEN "remote" ELSE AfterRemote

\* Mutant: the stores spend what they verify.
VerifySpends(a) ==
  /\ step = "verify"
  /\ Revalidates(mode, principal, call, a)
  /\ spent' = (spent \/ (Mediated /\ call.tool \in SingleUseTools))
  /\ ours' = (Mediated /\ call.tool \in SingleUseTools)
  /\ step' = AfterVerify
  /\ UNCHANGED <<request, revoked, lapsed, permitted, outcome>>

Verify(a) ==
  /\ step = "verify"
  /\ Revalidates(mode, principal, call, a)
  /\ step' = AfterVerify
  /\ UNCHANGED <<request, facts, permitted, ours, outcome>>

VerifyFails(a) ==
  /\ step = "verify"
  /\ ~Revalidates(mode, principal, call, a)
  /\ Return
  /\ UNCHANGED <<request, facts, permitted, outcome>>

RemoteEffects == remote \cup {"done"} \cup Oracle(principal, call)

\* Arcade executes the tool and confirms the exact user and tool.
RemoteExecute(a) ==
  /\ step = "remote"
  /\ "executes" \in a
  /\ remote' = RemoteEffects
  /\ step' = AfterRemote
  /\ UNCHANGED <<request, facts, permitted, ours, effects>>

\* A refusal, or a fault, and then Arcade may have executed all the same.
RemoteFails(a) ==
  /\ step = "remote"
  /\ "executes" \notin a
  /\ remote' \in {remote, RemoteEffects}
  /\ Return
  /\ UNCHANGED <<request, facts, permitted, effects>>

\* The single-use authority is verified again and spent under its store's lock.
Consume ==
  /\ step = "consume"
  /\ Unspent(call)
  /\ spent' = (spent \/ call.tool \in SingleUseTools)
  /\ ours' = (call.tool \in SingleUseTools)
  /\ step' = "record"
  /\ UNCHANGED <<request, revoked, lapsed, permitted, outcome>>

ConsumeFails ==
  /\ step = "consume"
  /\ ~Unspent(call)
  /\ Return
  /\ UNCHANGED <<request, facts, permitted, outcome>>

\* The effect boundary accepts the permit and records what happens.  A mediated
\* permit ends with the lease, a raw one with or after it.
Record ==
  /\ step = "record"
  /\ Mediated => ~lapsed
  /\ effects' = effects \cup {"done"} \cup Oracle(principal, call)
  /\ Return
  /\ UNCHANGED <<request, facts, permitted, remote>>

RecordFails ==
  /\ step = "record"
  /\ lapsed
  /\ Return
  /\ UNCHANGED <<request, facts, permitted, outcome>>

\* The host revokes; time passes; another call spends the same authority.
Revoke == /\ ~revoked /\ revoked' = TRUE
          /\ UNCHANGED <<request, lapsed, spent, permitted, execution, outcome>>
Lapse == /\ ~lapsed /\ lapsed' = TRUE
         /\ UNCHANGED <<request, revoked, spent, permitted, execution, outcome>>
SpendElsewhere ==
  /\ Mediated /\ call.tool \in SingleUseTools /\ Genuine(call)
  /\ ~spent /\ spent' = TRUE
  /\ UNCHANGED <<request, revoked, lapsed, permitted, execution, outcome>>

Execute(a) ==
  \/ Begin
  \/ Verify(a) \/ VerifyFails(a)
  \/ RemoteExecute(a) \/ RemoteFails(a)
  \/ Consume \/ ConsumeFails
  \/ Record \/ RecordFails

Next ==
  \/ \E a \in SUBSET Services : Authorize(a) \/ Execute(a)
  \/ Revoke
  \/ Lapse
  \/ SpendElsewhere

Spec == Init /\ [][Next]_vars

(***************************************************************************)
(* Properties                                                              *)
(***************************************************************************)
TypeOK ==
  /\ mode \in Modes /\ principal \in Principals /\ call \in Calls
  /\ revoked \in BOOLEAN /\ lapsed \in BOOLEAN
  /\ spent \in BOOLEAN /\ permitted \in BOOLEAN
  /\ step \in {"idle", "verify", "remote", "consume", "record"} /\ ours \in BOOLEAN
  /\ remote \cup effects \subseteq ForbiddenEffects \cup {"done"}

\* A mediated mode brings about no forbidden effect, on the recorder or at
\* Arcade, whatever the services answer and whatever changes between the
\* authorization and the execution or between the steps of an execution.
MediatedIsSafe == Mediated => remote \cup effects \subseteq {"done"}

\* What a raw engine lets through depends on a fact no request shows: for every
\* call in the Cerbos profile, in the OPA profile for calls on the resource the
\* tool was granted.
RawStopsWhatRequestsShow ==
  \/ mode = "cerbos"
  \/ mode = "opa" /\ call.tool \in Tools /\ call.resource = Resource[call.tool]
  => effects \subseteq RuntimeEffects \cup {"done"}

\* The harmonized substrates differ in integration and not in policy: asked of
\* the same call at the same moment they give the same verdict, save that only
\* TypeSec knows the organization and that Cerbos pins the tool's resource.
SubstratesAgree ==
  \A a \in SUBSET Services : "engine" \in a /\ ~lapsed =>
    LET V(m) == Verdict(m, principal, call, a)
    IN /\ principal.organization = Home => (V("opa-mediated") <=> V("typesec"))
       /\ V("cerbos-mediated") => V("opa-mediated")
       /\ call.tool \in Tools /\ call.resource = Resource[call.tool] =>
            (V("cerbos-mediated") <=> V("opa-mediated"))

\* No denial without a reason: TypeSec allows exactly the bound, granted calls
\* of the organization that are current, confirmed by the provider they
\* concern, sent for an approved purpose, read with their label, and without a
\* forbidden effect.
Warranted(p, c, a) ==
  /\ Bound(c) /\ RbacAllows(p, c) /\ p.organization = Home
  /\ ~revoked /\ ~lapsed /\ Unspent(c)
  /\ c.tool = "catalog/dashboard" => "workos" \in a
  /\ c.tool \in ArcadeTools => "arcade" \in a
  /\ c.tool = "gmail/send" => c.purpose = Communication
  /\ c.tool = "memory/recall" => c.content.label = "sensitive"
  /\ Oracle(p, c) = {}
AllowsWhatIsWarranted ==
  \A a \in SUBSET Services :
    Verdict("typesec", principal, call, a) <=> Warranted(principal, call, a)

\* What was allowed is executed: with every service confirming, an execution is
\* refused only because the capability was revoked, the lease ended or someone
\* else spent the authority since, never for what the execution itself has done
\* by then or because a mode judges a call differently the second time
\* (policy.py: validated without mutation, consumed after every other check).
Refuses == VerifyFails(Services) \/ RemoteFails(Services) \/ ConsumeFails \/ RecordFails
RefusedForAReason == [][Refuses => revoked \/ lapsed \/ (spent /\ ~ours)]_vars

\* The Rego policy calls its memory rule bound to the supervisor identity and
\* its profile one that enforces every constraint a request shows.
OpaBindsDurableIdentity == mode = "opa" => "memory_identity_drift" \notin effects
==============================================================================
