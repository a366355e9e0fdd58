--------------------------- MODULE Mediation_proofs ---------------------------
(***************************************************************************)
(* Proofs about the verdicts of module Mediation, for every corpus that    *)
(* satisfies its assumptions and every set of calls.                       *)
(***************************************************************************)
EXTENDS Mediation, TLAPS

\* The oracle records only kinds some scenario forbids.
LEMMA OracleKinds ==
  ASSUME NEW p, NEW c
  PROVE  Oracle(p, c) \subseteq ForbiddenEffects
BY DEF Oracle, When, ForbiddenEffects, RuntimeEffects

\* What a mediated mode allows is a bound call.
LEMMA MediatedIsBound ==
  ASSUME NEW m \in MediatedModes, NEW p, NEW c, NEW a, Verdict(m, p, c, a)
  PROVE  Bound(c) /\ Mediator(p, c, a)
BY DEF Verdict, MediatedModes, RustGate

\* The four copies of the cap on a delegation say the same: Rego and CEL permit
\* up to it, the mediator and the oracle deny beyond it.
LEMMA DelegationRulesAgree ==
  ASSUME NEW c \in Calls, c.tool = "delegate/run"
  PROVE  /\ RegoDelegation(c.content) <=> ~Amplifies(c.content)
         /\ CerbosDelegation(c.content) <=> ~Amplifies(c.content)
         /\ Amplified(c.content) <=> Amplifies(c.content)
<1>1. c.content \in [ttl : 0 .. MaxTtl, scope : {"own", "wider"}]
  BY CallsAssumption DEF CallTo, Content, ArcadeTools
<1>2. c.content.ttl \in Nat /\ MaxDelegationTtl \in Nat
  BY <1>1, WorldAssumption
<1> QED  BY <1>2 DEF RegoDelegation, CerbosDelegation, Amplified, Amplifies

\* ... and so do those on a vended credential, however each one names the form
\* it wants.
LEMMA CredentialRulesAgree ==
  ASSUME NEW c \in Calls, c.tool = "credential/vend"
  PROVE  /\ RegoCredential(c.content) <=> ~Bypasses(c.content)
         /\ CerbosCredential(c.content) <=> ~Bypasses(c.content)
         /\ Widened(c.content) \/ Outlives(c.content) <=> Bypasses(c.content)
<1>1. c.content \in [form : {"raw", "scoped"}, ttl : 0 .. MaxTtl, scope : {"own", "wider"}]
  BY CallsAssumption DEF CallTo, Content, ArcadeTools
<1>2. c.content.ttl \in Nat /\ MaxCredentialTtl \in Nat /\ c.content.form \in {"raw", "scoped"}
  BY <1>1, WorldAssumption
<1> QED  BY <1>2 DEF RegoCredential, CerbosCredential, Widened, Outlives, Bypasses

\* What a mediated mode allows of queries is a query for research: the mediator
\* itself does not look at the purpose, each of the three engines before it does.
LEMMA QueriesAreForResearch ==
  ASSUME NEW m \in MediatedModes, NEW p, NEW c, NEW a, Verdict(m, p, c, a),
         c.tool = "catalog/query"
  PROVE  c.purpose = Research
<1>1. CASE m = "typesec"
  BY <1>1 DEF Verdict, RustGate, Odrl
<1>2. CASE m = "opa-mediated"
  BY <1>2 DEF Verdict, Opa, RegoContent, ArcadeTools
<1>3. CASE m = "cerbos-mediated"
  BY <1>3 DEF Verdict, Cerbos, CerbosContent, ArcadeTools
<1> QED  BY <1>1, <1>2, <1>3 DEF MediatedModes

\* A call a mediated mode allows has no forbidden effect, whatever the services
\* answer.
LEMMA AllowedIsClean ==
  ASSUME NEW m \in MediatedModes, NEW p, NEW c, NEW a, Verdict(m, p, c, a)
  PROVE  Oracle(p, c) = {}
<1>1. Bound(c) /\ Mediator(p, c, a)
  BY MediatedIsBound
<1>2. c.tool \in Tools
  BY <1>1 DEF Bound
<1>3. CASE c.tool = "catalog/query"
  BY <1>1, <1>3, QueriesAreForResearch DEF Oracle, When, Mediator, ArcadeTools
<1>4. CASE c.tool \in ArcadeTools
  BY <1>1, <1>4 DEF Oracle, When, Mediator, MediatedChannel, ArcadeTools
<1>5. CASE c.tool \in {"catalog/dashboard", "delegate/run", "credential/vend"}
  BY <1>1, <1>5 DEF Oracle, When, Mediator, ArcadeTools, Amplified, Amplifies,
                    Widened, Outlives, Bypasses
<1>6. CASE c.tool \in {"memory/recall", "approval/execute"}
  BY <1>1, <1>6 DEF Oracle, When, Mediator, ArcadeTools, GenuineInStore
<1>7. CASE c.tool \in {"replay/import", "policy/evaluate", "parallel/join"}
  BY <1>1, <1>7 DEF Oracle, When, Mediator, ArcadeTools, GenuineInStore
<1> QED  BY <1>2, <1>3, <1>4, <1>5, <1>6, <1>7 DEF Tools, ArcadeTools

(***************************************************************************)
(* Type correctness                                                        *)
(***************************************************************************)
\* Every variable keeps its type: the gate and the call are fixed, and the
\* recorder holds kinds of the oracle.
THEOREM TypeCorrect == Spec => []TypeOK
<1>1. Init => TypeOK
  BY DEF Init, TypeOK
<1>2. TypeOK /\ [Next]_vars => TypeOK'
  <2> SUFFICES ASSUME TypeOK, [Next]_vars PROVE TypeOK'
    OBVIOUS
  <2>1. ASSUME NEW a \in SUBSET Services, Authorize(a) PROVE TypeOK'
    BY <2>1 DEF TypeOK, Authorize, request, facts, execution, outcome
  <2>2. ASSUME NEW a \in SUBSET Services, Execute(a) PROVE TypeOK'
    <3>1. CASE Begin \/ Verify(a) \/ VerifyFails(a)
      <4>1. CASE Begin
        BY <4>1 DEF TypeOK, Begin, request, facts, outcome
      <4>2. CASE Verify(a)
        <5>1. step' \in {"remote", "consume", "record"}
          BY <4>2 DEF Verify, AfterVerify, AfterRemote
        <5> QED  BY <4>2, <5>1 DEF TypeOK, Verify, request, facts, outcome
      <4>3. CASE VerifyFails(a)
        BY <4>3 DEF TypeOK, VerifyFails, Return, request, facts, outcome
      <4> QED  BY <3>1, <4>1, <4>2, <4>3
    <3>2. CASE RemoteExecute(a) \/ RemoteFails(a)
      BY <3>2, OracleKinds DEF TypeOK, RemoteExecute, RemoteFails, Return, AfterRemote,
                  RemoteEffects, request, facts
    <3>3. CASE Consume \/ ConsumeFails
      <4>1. CASE Consume
        <5>1. spent' \in BOOLEAN /\ ours' \in BOOLEAN
          BY <4>1 DEF Consume
        <5> QED  BY <4>1, <5>1 DEF TypeOK, Consume, request, outcome
      <4>2. CASE ConsumeFails
        BY <4>2 DEF TypeOK, ConsumeFails, Return, request, facts, outcome
      <4> QED  BY <3>3, <4>1, <4>2
    <3>4. CASE Record \/ RecordFails
      BY <3>4, OracleKinds DEF TypeOK, Record, RecordFails, Return, request, facts, outcome
    <3> QED  BY <2>2, <3>1, <3>2, <3>3, <3>4 DEF Execute
  <2>3. CASE Revoke \/ Lapse \/ SpendElsewhere
    BY <2>3 DEF TypeOK, Revoke, Lapse, SpendElsewhere, request, execution, outcome
  <2>4. CASE UNCHANGED vars
    BY <2>4 DEF TypeOK, vars, request, facts, execution, outcome
  <2> QED  BY <2>1, <2>2, <2>3, <2>4 DEF Next
<1> QED  BY <1>1, <1>2, PTL DEF Spec

(***************************************************************************)
(* Mediated executions                                                     *)
(***************************************************************************)
\* Every execution of a mediated mode repeats its verdict.
LEMMA MediatedVerifies ==
  ASSUME NEW a, Mediated, Revalidates(mode, principal, call, a)
  PROVE  Verdict(mode, principal, call, a)
BY DEF Revalidates, Mediated

\* Beyond the check an execution is of a call without forbidden effects.  What
\* changes after the check cannot undo that: the oracle asks nothing that does.
Checked ==
  Mediated /\ step \in {"remote", "consume", "record"} => Oracle(principal, call) = {}

\* A mediated mode brings about no forbidden effect, for any services, any drift
\* of the facts between the steps, and any corpus.
THEOREM MediationIsSafe == Spec => []MediatedIsSafe
<1>1. Init => Checked /\ MediatedIsSafe
  BY DEF Init, Checked, MediatedIsSafe
<1>2. Checked /\ MediatedIsSafe /\ [Next]_vars => Checked' /\ MediatedIsSafe'
  <2> SUFFICES ASSUME Checked, MediatedIsSafe, [Next]_vars
               PROVE  Checked' /\ MediatedIsSafe'
    OBVIOUS
  <2>1. UNCHANGED request
    BY DEF Next, vars, Authorize, Execute, Begin, Verify, VerifyFails, RemoteExecute,
           RemoteFails, Consume, ConsumeFails, Record, RecordFails, Revoke, Lapse,
           SpendElsewhere
  <2>2. Mediated' = Mediated /\ Oracle(principal, call)' = Oracle(principal, call)
    BY <2>1 DEF request, Mediated
  <2>3. ASSUME Mediated
        PROVE  /\ step' \in {"remote", "consume", "record"} => Oracle(principal, call) = {}
               /\ remote' \cup effects' \subseteq {"done"}
    <3>1. ASSUME NEW a \in SUBSET Services, Verify(a) PROVE Oracle(principal, call) = {}
      BY <2>3, <3>1, MediatedVerifies, AllowedIsClean DEF Verify, Mediated
    <3>2. ASSUME NEW a \in SUBSET Services, Execute(a)
          PROVE  /\ step' \in {"remote", "consume", "record"} => Oracle(principal, call) = {}
                 /\ remote' \cup effects' \subseteq {"done"}
      <4>1. CASE Begin
        BY <2>3, <4>1 DEF Begin, MediatedIsSafe, outcome
      <4>2. CASE Verify(a) \/ VerifyFails(a)
        BY <2>3, <3>1, <4>2 DEF Verify, VerifyFails, Return, MediatedIsSafe, outcome
      <4>3. CASE RemoteExecute(a) \/ RemoteFails(a)
        BY <2>3, <4>3 DEF RemoteExecute, RemoteFails, Return, RemoteEffects,
                          Checked, MediatedIsSafe
      <4>4. CASE Consume \/ ConsumeFails
        BY <2>3, <4>4 DEF Consume, ConsumeFails, Return, Checked, MediatedIsSafe, outcome
      <4>5. CASE Record \/ RecordFails
        BY <2>3, <4>5 DEF Record, RecordFails, Return, Checked, MediatedIsSafe, outcome
      <4> QED  BY <3>2, <4>1, <4>2, <4>3, <4>4, <4>5 DEF Execute
    <3>3. CASE \/ \E a \in SUBSET Services : Authorize(a)
               \/ Revoke \/ Lapse \/ SpendElsewhere \/ UNCHANGED vars
      BY <2>3, <3>3 DEF Authorize, Revoke, Lapse, SpendElsewhere, vars, execution, outcome,
                        Checked, MediatedIsSafe
    <3> QED  BY <3>2, <3>3 DEF Next
  <2> QED  BY <2>2, <2>3 DEF Checked, MediatedIsSafe
<1> QED  BY <1>1, <1>2, PTL DEF Spec

(***************************************************************************)
(* Executions of what was allowed                                          *)
(***************************************************************************)
\* The services that say no can only deny.
LEMMA MoreConfirmationsAllowNoLess ==
  ASSUME NEW a \in SUBSET Services, NEW m \in MediatedModes \cup {"workos"},
         NEW p, NEW c, Verdict(m, p, c, a)
  PROVE  Verdict(m, p, c, Services)
<1>1. "workos" \in Services /\ "arcade" \in Services /\ "engine" \in Services
  BY DEF Services
<1>2. Mediator(p, c, a) => Mediator(p, c, Services)
  <2>1. MediatedChannel(p, c, a) => MediatedChannel(p, c, Services)
    BY <1>1 DEF MediatedChannel
  <2>2. CASE c.tool = "catalog/dashboard"
    BY <1>1, <2>2 DEF Mediator, ArcadeTools
  <2>3. CASE c.tool \in ArcadeTools
    BY <2>1, <2>3 DEF Mediator, ArcadeTools
  <2>4. CASE c.tool \notin ArcadeTools \cup {"catalog/dashboard"}
    BY <2>4 DEF Mediator
  <2> QED  BY <2>2, <2>3, <2>4
<1> QED  BY <1>1, <1>2 DEF Verdict, MediatedModes

\* An allow that waits, or is about to be checked again, would be given again as
\* long as nothing happened to the capability, the lease or the authority; and
\* the execution has spent nothing before its last step.
AllowStands ==
  /\ step # "record" => ~ours
  /\ (permitted \/ step = "verify") /\ ~revoked /\ ~lapsed /\ ~spent
     /\ mode \in MediatedModes \cup {"workos"}
       => Verdict(mode, principal, call, Services)

\* With the services confirming, an execution of an allowed call fails for a
\* revocation, the end of the lease or another use of its authority and for
\* nothing else: no step of an execution makes a later one fail, and no mode
\* takes back in its second judgement what it said in the first.
THEOREM RefusalsHaveAReason == Spec => RefusedForAReason
<1>1. Init => AllowStands
  BY DEF Init, AllowStands
<1>2. TypeOK /\ TypeOK' /\ AllowStands /\ [Next]_vars => AllowStands'
  <2> SUFFICES ASSUME TypeOK, TypeOK', AllowStands, [Next]_vars PROVE AllowStands'
    OBVIOUS
  <2>1. UNCHANGED request
    BY DEF Next, vars, Authorize, Execute, Begin, Verify, VerifyFails, RemoteExecute,
           RemoteFails, Consume, ConsumeFails, Record, RecordFails, Revoke, Lapse,
           SpendElsewhere
  <2>2. step' # "record" => ~ours'
    <3>1. ASSUME NEW a \in SUBSET Services, Execute(a)
          PROVE  step' # "record" => ~ours'
      BY <3>1 DEF AllowStands, Execute, Begin, Verify, VerifyFails, RemoteExecute,
             RemoteFails, Consume, ConsumeFails, Record, RecordFails, Return
    <3>2. CASE \/ \E a \in SUBSET Services : Authorize(a)
               \/ Revoke \/ Lapse \/ SpendElsewhere \/ UNCHANGED vars
      BY <3>2 DEF AllowStands, Authorize, Revoke, Lapse, SpendElsewhere, vars, execution
    <3> QED  BY <3>1, <3>2 DEF Next
  <2>3. ASSUME permitted' \/ step' = "verify", ~revoked', ~lapsed', ~spent',
               mode \in MediatedModes \cup {"workos"}
        PROVE  Verdict(mode, principal, call, Services)'
    <3>1. UNCHANGED facts
      <4>1. CASE \E a \in SUBSET Services : Authorize(a) \/ Execute(a)
        BY <2>3, <4>1 DEF TypeOK, facts, Authorize, Execute, Begin, Verify, VerifyFails,
               RemoteExecute, RemoteFails, Consume, ConsumeFails, Record, RecordFails
      <4>2. CASE Revoke \/ Lapse \/ SpendElsewhere \/ UNCHANGED vars
        BY <2>3, <4>2 DEF Revoke, Lapse, SpendElsewhere, vars, facts
      <4> QED  BY <4>1, <4>2 DEF Next
    <3>2. Verdict(mode, principal, call, Services)' = Verdict(mode, principal, call, Services)
      BY <2>1, <3>1 DEF request, facts, Verdict, Mediator, Unspent
    <3>3. Verdict(mode, principal, call, Services)
      <4>1. CASE permitted \/ step = "verify"
        BY <2>3, <3>1, <4>1 DEF AllowStands, facts
      <4>2. CASE ~permitted /\ step # "verify"
        <5>1. PICK a \in SUBSET Services : Authorize(a)
          BY <2>3, <4>2 DEF Next, vars, Execute, Begin, Verify, VerifyFails,
                 RemoteExecute, RemoteFails, Consume, ConsumeFails, Record, RecordFails,
                 Return, AfterVerify, AfterRemote, Revoke, Lapse, SpendElsewhere, execution
        <5> QED  BY <2>3, <5>1, MoreConfirmationsAllowNoLess DEF Authorize
      <4> QED  BY <4>1, <4>2
    <3> QED  BY <3>2, <3>3
  <2> QED  BY <2>1, <2>2, <2>3 DEF AllowStands, request
<1>3. TypeOK /\ AllowStands => (Refuses => revoked \/ lapsed \/ (spent /\ ~ours))
  <2> SUFFICES ASSUME TypeOK, AllowStands, Refuses, ~revoked, ~lapsed
               PROVE  spent /\ ~ours
    OBVIOUS
  <2>1. CASE VerifyFails(Services)
    <3>1. step = "verify" /\ ~Revalidates(mode, principal, call, Services)
      BY <2>1 DEF VerifyFails
    <3> QED  BY <3>1 DEF AllowStands, Revalidates
  <2>2. CASE RemoteFails(Services)
    BY <2>2 DEF RemoteFails, Services
  <2>3. CASE ConsumeFails
    BY <2>3 DEF ConsumeFails, Unspent, AllowStands
  <2>4. CASE RecordFails
    BY <2>4 DEF RecordFails
  <2> QED  BY <2>1, <2>2, <2>3, <2>4 DEF Refuses
<1>4. TypeOK /\ AllowStands /\ [Next]_vars
        => [Refuses => revoked \/ lapsed \/ (spent /\ ~ours)]_vars
  BY <1>3
<1> QED  BY <1>1, <1>2, <1>4, TypeCorrect, PTL DEF Spec, RefusedForAReason

(***************************************************************************)
(* Raw engines                                                             *)
(***************************************************************************)
\* What each translation sees of a call rules out every effect a request shows,
\* once the resource is the tool's.
LEMMA RequestContentIsClean ==
  ASSUME NEW p, NEW c \in Calls, c.tool \in Tools,
         RegoContent(p, c) \/ CerbosContent(p, c),
         c.tool \notin ArcadeTools => c.resource = Resource[c.tool],
         c.tool = "memory/recall" => p.subject = Owner["memory/recall"]
  PROVE  Oracle(p, c) \subseteq RuntimeEffects
<1>1. CASE c.tool = "catalog/query"
  BY <1>1 DEF Oracle, When, RegoContent, CerbosContent, ArcadeTools
<1>2. CASE c.tool \in ArcadeTools
  BY <1>2 DEF Oracle, When, RegoContent, CerbosContent, ArcadeTools, RuntimeEffects
<1>3. CASE c.tool \in {"catalog/dashboard", "memory/recall"}
  BY <1>3 DEF Oracle, When, ArcadeTools
<1>4. CASE c.tool = "delegate/run"
  BY <1>4, DelegationRulesAgree DEF Oracle, When, RegoContent, CerbosContent, ArcadeTools
<1>5. CASE c.tool = "credential/vend"
  BY <1>5, CredentialRulesAgree DEF Oracle, When, RegoContent, CerbosContent, ArcadeTools
<1>6. CASE c.tool \in {"approval/execute", "replay/import", "policy/evaluate",
                       "parallel/join"}
  BY <1>6 DEF Oracle, When, ArcadeTools, RuntimeEffects
<1> QED  BY <1>1, <1>2, <1>3, <1>4, <1>5, <1>6 DEF Tools, ArcadeTools

\* A grant of the resource a tool has names the tool's owner.
LEMMA GrantsNameTheOwner ==
  ASSUME NEW p, NEW c, c.tool \in Tools, c.resource = Resource[c.tool],
         RbacAllows(p, c)
  PROVE  p.subject = Owner[c.tool]
<1>1. PICK t \in Tools : <<p.subject, c.action, c.resource>> =
                         <<Owner[t], Action[t], Resource[t]>>
  BY DEF RbacAllows, Grants
<1> QED  BY <1>1, CorpusAssumption

\* The raw profiles hold no state, so an allow is still what the policy says
\* until the execution of the call ends.
RawInv ==
  permitted \/ step # "idle" => /\ mode = "cerbos" => Cerbos(principal, call)
                                /\ mode = "opa" => Opa(principal, call)

\* What a raw engine of the claim lets through is what no request shows.
LEMMA RawAllowsRuntimeEffects ==
  ASSUME TypeOK, RawInv, step # "idle",
         \/ mode = "cerbos"
         \/ mode = "opa" /\ call.tool \in Tools /\ call.resource = Resource[call.tool]
  PROVE  Oracle(principal, call) \subseteq RuntimeEffects
<1>0. call \in Calls
  BY DEF TypeOK
<1>1. CASE mode = "cerbos"
  BY <1>0, <1>1, RequestContentIsClean DEF RawInv, Cerbos
<1>2. CASE mode = "opa" /\ call.tool \in Tools /\ call.resource = Resource[call.tool]
  <2>1. Opa(principal, call)
    BY <1>2 DEF RawInv
  <2>2. principal.subject = Owner[call.tool]
    BY <1>2, <2>1, GrantsNameTheOwner DEF Opa
  <2> QED  BY <1>0, <1>2, <2>1, <2>2, RequestContentIsClean DEF Opa
<1> QED  BY <1>1, <1>2

\* A raw engine lets through no effect that a request shows: for Cerbos without
\* exception, for OPA on the resource the tool was granted.
THEOREM RequestsAreStopped == Spec => []RawStopsWhatRequestsShow
<1>1. Init => RawInv /\ RawStopsWhatRequestsShow
  BY DEF Init, RawInv, RawStopsWhatRequestsShow
<1>2. TypeOK /\ RawInv /\ RawStopsWhatRequestsShow /\ [Next]_vars
        => RawInv' /\ RawStopsWhatRequestsShow'
  <2> SUFFICES ASSUME TypeOK, RawInv, RawStopsWhatRequestsShow, [Next]_vars
               PROVE  RawInv' /\ RawStopsWhatRequestsShow'
    OBVIOUS
  <2>1. UNCHANGED request
    BY DEF Next, vars, Authorize, Execute, Begin, Verify, VerifyFails, RemoteExecute,
           RemoteFails, Consume, ConsumeFails, Record, RecordFails, Revoke, Lapse,
           SpendElsewhere
  <2>2. /\ Cerbos(principal, call)' = Cerbos(principal, call)
        /\ Opa(principal, call)' = Opa(principal, call)
    BY <2>1 DEF request
  <2>3. RawInv'
    <3>1. CASE permitted \/ step # "idle"
      BY <2>1, <2>2, <3>1 DEF RawInv, request
    <3>2. CASE ~permitted /\ step = "idle"
      <4>1. CASE \E a \in SUBSET Services : Authorize(a)
        <5>1. /\ mode = "cerbos" => Cerbos(principal, call)
              /\ mode = "opa" => Opa(principal, call)
          BY <4>1 DEF Authorize, Verdict
        <5> QED  BY <2>1, <2>2, <5>1 DEF RawInv, request
      <4>2. CASE ~\E a \in SUBSET Services : Authorize(a)
        <5>1. ~permitted' /\ step' = "idle"
          BY <3>2, <4>2 DEF Next, vars, Execute, Begin, Verify, VerifyFails,
                 RemoteExecute, RemoteFails, Consume, ConsumeFails, Record, RecordFails,
                 Revoke, Lapse, SpendElsewhere, execution
        <5> QED  BY <5>1 DEF RawInv
      <4> QED  BY <4>1, <4>2
    <3> QED  BY <3>1, <3>2
  <2>4. RawStopsWhatRequestsShow'
    <3>1. CASE Record
      BY <2>1, <3>1, RawAllowsRuntimeEffects
         DEF Record, request, RawStopsWhatRequestsShow
    <3>2. CASE ~Record
      <4>1. UNCHANGED effects
        BY <3>2 DEF Next, vars, Authorize, Execute, Begin, Verify, VerifyFails,
               RemoteExecute, RemoteFails, Consume, ConsumeFails, RecordFails,
               Revoke, Lapse, SpendElsewhere, outcome
      <4> QED  BY <2>1, <4>1 DEF request, RawStopsWhatRequestsShow
    <3> QED  BY <3>1, <3>2
  <2> QED  BY <2>3, <2>4
<1> QED  BY <1>1, <1>2, TypeCorrect, PTL DEF Spec

(***************************************************************************)
(* The three mediated substrates                                           *)
(***************************************************************************)
LEMMA VerdictOfOpaMediated ==
  ASSUME NEW p, NEW c, NEW a, "engine" \in a
  PROVE  Verdict("opa-mediated", p, c, a) <=> Bound(c) /\ Opa(p, c) /\ Mediator(p, c, a)
BY DEF Verdict
LEMMA VerdictOfCerbosMediated ==
  ASSUME NEW p, NEW c, NEW a, "engine" \in a
  PROVE  Verdict("cerbos-mediated", p, c, a) <=> Bound(c) /\ Cerbos(p, c) /\ Mediator(p, c, a)
BY DEF Verdict
LEMMA VerdictOfTypesec ==
  ASSUME NEW p, NEW c, NEW a
  PROVE  Verdict("typesec", p, c, a) <=> ~lapsed /\ RustGate(p, c) /\ Mediator(p, c, a)
BY DEF Verdict

\* Whoever may execute a SaaS tool is its owner, who has the Arcade grants.
LEMMA ExecutorsHaveArcadeGrants ==
  ASSUME NEW p, NEW c, c.tool \in ArcadeTools, Bound(c), RbacAllows(p, c)
  PROVE  <<p.subject, c.tool>> \in ArcadeGrants
<1>1. PICK t \in Tools : <<p.subject, c.action, c.resource>> =
                         <<Owner[t], Action[t], Resource[t]>>
  BY DEF RbacAllows, Grants
<1>2. c.action = "execute" /\ c.tool \in Tools
  BY DEF Bound, Action, ArcadeTools, Tools
<1>3. t \in {"drive/create", "gmail/send", "approval/execute"}
  BY <1>1, <1>2 DEF Action
<1>4. p.subject = Owner[c.tool]
  BY <1>1, <1>3, CorpusAssumption DEF ArcadeTools
<1> QED  BY <1>4, CorpusAssumption

\* What the mediator asks of the arguments covers what the translations ask.
LEMMA MediatorCoversRequest ==
  ASSUME NEW p, NEW c \in Calls, NEW a, c.tool \in Tools, Mediator(p, c, a),
         c.tool = "catalog/query" => c.purpose = Research,
         c.tool \in ArcadeTools => <<p.subject, c.tool>> \in ArcadeGrants
  PROVE  RegoContent(p, c)
<1>1. CASE c.tool = "catalog/query"
  BY <1>1 DEF Mediator, RegoContent, ArcadeTools
<1>2. CASE c.tool \in ArcadeTools
  BY <1>2 DEF Mediator, MediatedChannel, RegoContent, ArcadeTools
<1>3. CASE c.tool = "approval/execute"
  BY <1>3 DEF Mediator, RegoContent, ArcadeTools
<1>4. CASE c.tool = "delegate/run"
  BY <1>4, DelegationRulesAgree DEF Mediator, RegoContent, ArcadeTools
<1>5. CASE c.tool = "credential/vend"
  BY <1>5, CredentialRulesAgree DEF Mediator, RegoContent, ArcadeTools
<1>6. CASE c.tool \in {"catalog/dashboard", "memory/recall", "replay/import",
                       "policy/evaluate", "parallel/join"}
  BY <1>6 DEF RegoContent, ArcadeTools
<1> QED  BY <1>1, <1>2, <1>3, <1>4, <1>5, <1>6 DEF Tools, ArcadeTools

\* Rego and CEL ask the same of the arguments of a bound call, save the Arcade
\* grant, which only Rego looks up.
LEMMA TranslationsAgree ==
  ASSUME NEW p, NEW c \in Calls, c.tool \in Tools
  PROVE  RegoContent(p, c) <=>
           /\ CerbosContent(p, c)
           /\ c.tool \in ArcadeTools => <<p.subject, c.tool>> \in ArcadeGrants
<1>1. CASE c.tool = "catalog/query"
  BY <1>1 DEF RegoContent, CerbosContent, ArcadeTools
<1>2. CASE c.tool \in ArcadeTools
  BY <1>2 DEF RegoContent, CerbosContent, ArcadeTools
<1>3. CASE c.tool \notin ArcadeTools \cup {"catalog/query"}
  BY <1>3, DelegationRulesAgree, CredentialRulesAgree
     DEF RegoContent, CerbosContent, ArcadeTools
<1> QED  BY <1>1, <1>2, <1>3

\* OPA behind the mediator and TypeSec give one verdict within the organization.
LEMMA OpaIsTypesec ==
  ASSUME NEW p, NEW c \in Calls, NEW a, "engine" \in a, ~lapsed, p.organization = Home
  PROVE  Verdict("opa-mediated", p, c, a) <=> Verdict("typesec", p, c, a)
<1>1. ASSUME Bound(c), Opa(p, c), Mediator(p, c, a)
      PROVE  RustGate(p, c)
  <2>1. ASSUME c.tool = "catalog/query" PROVE Odrl(p, c)
    <3>1. c.resource = Resource["catalog/query"]
      BY <1>1, <2>1 DEF Mediator, ArcadeTools
    <3>2. p.subject = Owner["catalog/query"]
      BY <1>1, <2>1, <3>1, GrantsNameTheOwner DEF Opa
    <3>3. c.purpose = Research
      BY <1>1, <2>1 DEF Opa, RegoContent, ArcadeTools
    <3> QED  BY <3>1, <3>2, <3>3 DEF Odrl
  <2> QED  BY <1>1, <2>1 DEF RustGate, Opa
<1>2. ASSUME RustGate(p, c), Mediator(p, c, a)
      PROVE  Bound(c) /\ Opa(p, c)
  <2>1. Bound(c) /\ RbacAllows(p, c) /\ c.tool \in Tools
    BY <1>2 DEF RustGate, Bound
  <2>2. c.tool \in ArcadeTools => <<p.subject, c.tool>> \in ArcadeGrants
    BY <2>1, ExecutorsHaveArcadeGrants
  <2>3. RegoContent(p, c)
    BY <1>2, <2>1, <2>2, MediatorCoversRequest DEF RustGate, Odrl
  <2> QED  BY <2>1, <2>3 DEF Opa
<1> QED  BY <1>1, <1>2, VerdictOfOpaMediated, VerdictOfTypesec

\* Cerbos allows less than OPA, and no less on the resource of the tool.
LEMMA CerbosIsOpa ==
  ASSUME NEW p, NEW c \in Calls, NEW a, "engine" \in a
  PROVE  /\ Verdict("cerbos-mediated", p, c, a) => Verdict("opa-mediated", p, c, a)
         /\ c.tool \in Tools /\ c.resource = Resource[c.tool] =>
              (Verdict("cerbos-mediated", p, c, a) <=> Verdict("opa-mediated", p, c, a))
<1>1. ASSUME Bound(c), Cerbos(p, c) PROVE Opa(p, c)
  <2>1. c.tool \in Tools /\ c.action = Action[c.tool] /\ p.subject = Owner[c.tool]
    BY <1>1 DEF Cerbos
  <2>2. PICK t \in Tools : /\ c.resource = Resource[t] /\ c.action = Action[t]
                           /\ p.subject = Owner[t]
    <3>1. CASE c.tool \in ArcadeTools
      <4>1. PICK t \in ArcadeTools : c.resource = Resource[t]
        BY <1>1, <3>1 DEF Cerbos
      <4>2. Action[t] = Action[c.tool] /\ t \in Tools
        BY <3>1 DEF ArcadeTools, Action, Tools
      <4>3. Owner[t] = Owner[c.tool]
        BY <3>1, CorpusAssumption DEF ArcadeTools
      <4> QED  BY <2>1, <4>1, <4>2, <4>3
    <3>2. CASE c.tool \notin ArcadeTools
      BY <1>1, <2>1, <3>2 DEF Cerbos
    <3> QED  BY <3>1, <3>2
  <2>3. RbacAllows(p, c)
    BY <2>2 DEF RbacAllows, Grants
  <2>4. c.tool \in ArcadeTools => <<p.subject, c.tool>> \in ArcadeGrants
    BY <2>1, CorpusAssumption
  <2> QED  BY <1>1, <2>1, <2>3, <2>4, TranslationsAgree DEF Cerbos, Opa
<1>2. ASSUME Bound(c), Opa(p, c), c.tool \in Tools, c.resource = Resource[c.tool]
      PROVE  Cerbos(p, c)
  <2>1. p.subject = Owner[c.tool]
    BY <1>2, GrantsNameTheOwner DEF Opa
  <2> QED  BY <1>2, <2>1, TranslationsAgree DEF Cerbos, Opa, Bound
<1> QED  BY <1>1, <1>2, VerdictOfOpaMediated, VerdictOfCerbosMediated

\* The verdicts of the three substrates differ where their integration does and
\* nowhere else, for every corpus the assumptions admit.
THEOREM SubstratesAreHarmonized == Spec => []SubstratesAgree
<1>1. TypeOK => SubstratesAgree
  BY OpaIsTypesec, CerbosIsOpa DEF TypeOK, SubstratesAgree
<1> QED  BY <1>1, TypeCorrect, PTL

(***************************************************************************)
(* No denial without a reason                                              *)
(***************************************************************************)
\* A granted call without a forbidden effect passes the mediator when the facts
\* of the moment are right.
LEMMA MediatorPasses ==
  ASSUME NEW p, NEW c \in Calls, NEW a, Warranted(p, c, a)
  PROVE  Mediator(p, c, a)
<1>1. c.tool \in Tools /\ Bound(c) /\ Unspent(c) /\ ~revoked /\ Oracle(p, c) = {}
  BY DEF Warranted, Bound
<1>2. CASE c.tool = "catalog/query"
  <2>1. /\ c.resource = Resource["catalog/query"]
        /\ c.content.columns \subseteq AllowedColumns
        /\ c.content.predicate = "approved cohort"
    BY <1>1, <1>2 DEF Oracle, When, ArcadeTools
  <2>2. c.content.columns # {}
    BY <1>1, <1>2 DEF Bound
  <2> QED  BY <1>1, <1>2, <2>1, <2>2 DEF Mediator, ArcadeTools
<1>3. CASE c.tool = "catalog/dashboard"
  BY <1>1, <1>3 DEF Mediator, Oracle, When, ArcadeTools, Warranted
<1>4. CASE c.tool \in ArcadeTools
  <2>1. c.delegated = p.subject
    BY <1>1, <1>4 DEF Oracle, When, ArcadeTools, Bound
  <2>2. c.content.label # "sensitive"
    BY <1>1, <1>4 DEF Oracle, When, ArcadeTools
  <2>3. MediatedChannel(p, c, a)
    BY <1>4, <2>1, <2>2 DEF MediatedChannel, Warranted
  <2> QED  BY <1>1, <1>4, <2>3 DEF Mediator, ArcadeTools
<1>5. CASE c.tool \in {"delegate/run", "credential/vend"}
  BY <1>1, <1>5, DelegationRulesAgree, CredentialRulesAgree
     DEF Mediator, Oracle, When, ArcadeTools
<1>6. CASE c.tool = "memory/recall"
  BY <1>1, <1>6 DEF Mediator, Oracle, When, ArcadeTools, Warranted
<1>7. CASE c.tool = "approval/execute"
  BY <1>1, <1>7 DEF Mediator, Oracle, When, ArcadeTools, GenuineInStore
<1>8. CASE c.tool \in {"replay/import", "policy/evaluate", "parallel/join"}
  BY <1>1, <1>8 DEF Mediator, Oracle, When, ArcadeTools, GenuineInStore
<1> QED  BY <1>1, <1>2, <1>3, <1>4, <1>5, <1>6, <1>7, <1>8 DEF Tools, ArcadeTools

\* What the mediator passes is what the moment's facts allow.
LEMMA MediatorNeeds ==
  ASSUME NEW p, NEW c, NEW a, c.tool \in Tools, Mediator(p, c, a)
  PROVE  /\ ~revoked /\ Unspent(c)
         /\ c.tool = "gmail/send" => c.purpose = Communication
         /\ c.tool = "catalog/dashboard" => "workos" \in a
         /\ c.tool \in ArcadeTools => "arcade" \in a
         /\ c.tool = "memory/recall" => c.content.label = "sensitive"
<1>1. ~revoked
  BY DEF Mediator
<1>2. CASE c.tool \in ArcadeTools
  <2>1. MediatedChannel(p, c, a)
    BY <1>2 DEF Mediator, ArcadeTools
  <2> QED  BY <1>1, <1>2, <2>1 DEF MediatedChannel, Unspent, SingleUseTools, ArcadeTools
<1>3. CASE c.tool \in SingleUseTools
  BY <1>1, <1>3 DEF Mediator, SingleUseTools, ArcadeTools
<1>4. CASE c.tool \in {"catalog/dashboard", "memory/recall"}
  BY <1>1, <1>4 DEF Mediator, SingleUseTools, ArcadeTools, Unspent
<1>5. CASE c.tool \in {"catalog/query", "delegate/run", "credential/vend", "policy/evaluate"}
  BY <1>1, <1>5 DEF SingleUseTools, ArcadeTools, Unspent
<1> QED  BY <1>2, <1>3, <1>4, <1>5 DEF Tools, ArcadeTools, SingleUseTools

\* TypeSec allows a call exactly when it is warranted: nothing forbidden, and
\* nothing harmless for want of a reason.
THEOREM DenialsAreWarranted == Spec => []AllowsWhatIsWarranted
<1>1. ASSUME NEW p, NEW c, NEW a, Verdict("typesec", p, c, a)
      PROVE  Warranted(p, c, a)
  <2>1. ~lapsed /\ RustGate(p, c) /\ Mediator(p, c, a)
    BY <1>1, VerdictOfTypesec
  <2>2. Bound(c) /\ RbacAllows(p, c) /\ p.organization = Home /\ c.tool \in Tools
    BY <2>1 DEF RustGate, Bound
  <2>3. Oracle(p, c) = {}
    BY <1>1, AllowedIsClean DEF MediatedModes
  <2> QED  BY <2>1, <2>2, <2>3, MediatorNeeds DEF Warranted
<1>2. ASSUME NEW p, NEW c \in Calls, NEW a, Warranted(p, c, a)
      PROVE  Verdict("typesec", p, c, a)
  <2>1. Mediator(p, c, a)
    BY <1>2, MediatorPasses
  <2>2. ASSUME c.tool = "catalog/query" PROVE Odrl(p, c)
    <3>1. c.purpose = Research /\ c.resource = Resource["catalog/query"]
      BY <1>2, <2>2 DEF Warranted, Oracle, When, ArcadeTools
    <3>2. p.subject = Owner["catalog/query"]
      BY <1>2, <2>2, <3>1, GrantsNameTheOwner DEF Warranted, Tools
    <3> QED  BY <3>1, <3>2 DEF Odrl
  <2>3. RustGate(p, c)
    BY <1>2, <2>2 DEF RustGate, Warranted
  <2> QED  BY <1>2, <2>1, <2>3, VerdictOfTypesec DEF Warranted
<1>3. TypeOK => AllowsWhatIsWarranted
  BY <1>1, <1>2 DEF TypeOK, AllowsWhatIsWarranted
<1> QED  BY <1>3, TypeCorrect, PTL
=============================================================================
