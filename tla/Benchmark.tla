------------------------------- MODULE Benchmark -------------------------------
(***************************************************************************)
(* A run of the agentgym command: the cases of the corpus, one after       *)
(* another, in each mode of the selection; the rows they leave; the scores *)
(* and the exit code (runner.py, adapters.py, cli.py).                     *)
(*                                                                         *)
(* A case is run through a framework, which shows a call to the boundary's *)
(* hook and gives one to the tool body (frameworks.py).  The frameworks    *)
(* are third-party code.  A faithful one presents the call of the case,    *)
(* once, and executes it if the hook allowed it.  In one case of a session *)
(* the framework may deviate: present other calls, repeat a hook or a      *)
(* body, leave one out, or raise.                                          *)
(*                                                                         *)
(* The gate's verdicts are those of Mediation, with services that answer   *)
(* from the world's grants under the fault of the case: ProviderWire shows *)
(* what becomes of an answer on its way.  One thread runs a session and    *)
(* the clock stands still, so ExecutionBoundary reduces to the list of     *)
(* allows that are not spent.                                              *)
(***************************************************************************)
EXTENDS Scoring

CONSTANTS
  Subjects, Resources, Columns, AllowedColumns, Owner, Resource, ArcadeGrants,
  MaxDelegationTtl, MaxCredentialTtl, MaxTtl, Calls,    \* the world of Mediation
  Sessions,       \* what is run: [plan, engines, deviant]
  Presentable,    \* for each case, the calls a deviating framework presents
  MaxSteps        \* bound: hooks and bodies of a deviating framework

\* What the clients of the policy engines read of a reply, each field by the
\* kind of value it may have: the body, the result and the verdict in it, and
\* what else the engine remarks.
Optional == {"string", "null", "absent"}
OpaSchema == [body |-> {"object"}, result |-> {"object"}, allow |-> {"true", "false"},
              reason |-> {"string", "absent"}, proof_id |-> Optional, invariant |-> Optional]
CerbosSchema == [body |-> {"object"}, results |-> {"one"}, actions |-> {"object"},
                 effect |-> {"EFFECT_ALLOW", "EFFECT_DENY"}, cerbosCallId |-> Optional]

\* A fault of an engine gives one field of its every reply a value of some kind:
\* a body that does not come, a truthy string, none or two results, and so on.
NoFault == [field |-> "none", becomes |-> "none"]
EngineFaults ==
  {NoFault} \cup
  [field : DOMAIN OpaSchema \cup DOMAIN CerbosSchema,
   becomes : {"unreachable", "absent", "null", "string", "number", "array", "object",
              "empty", "two"}]

ASSUME SessionsAssumption ==
  /\ \A s \in Sessions :
       /\ s.plan \in Seq({s.plan[i] : i \in DOMAIN s.plan})
       /\ \A i, j \in DOMAIN s.plan : s.plan[i] = s.plan[j] => i = j
       /\ s.engines \in EngineFaults
       /\ s.deviant \in 0 .. Len(Corpus)
  /\ \A i \in DOMAIN Corpus : Corpus[i].call \in Calls /\ Presentable[i] \subseteq Calls

VARIABLES
  plan,        \* the modes selected, in order
  engines,     \* the fault of every reply of the policy engines
  deviant,     \* the case in which the framework deviates, or 0
  at,          \* index in plan of the mode being run
  next,        \* index in Corpus of the case being run, or run next
  stage,       \* between, inside (a framework's invoke), reported, exited, aborted
  turn,        \* what a faithful framework does next: hook, body, return
  steps,       \* hooks and bodies so far in this case
  decisions,   \* ExecutionBoundary.decisions
  pending,     \* the allows in its table, as indices into decisions
  spent,       \* the single-use authority seeded for the case is consumed
  executions,  \* the recorder: each execution with its call and kinds
  rows,        \* the results so far
  scores,      \* one per mode, once reported
  exit         \* the exit code

session == <<plan, engines, deviant>>
position == <<at, next>>
run == <<turn, steps, decisions, pending, spent, executions>>
report == <<rows, scores, exit>>
vars == <<session, position, stage, run, report>>

Mode == plan[at]
Case == Corpus[next]
Deviates == next = deviant

MediatedModes == {"opa-mediated", "cerbos-mediated", "typesec"}

\* Mutant: a mediated mode is not told of the revocation.
NoLocalRevocation == FALSE
\* The adapter tells the mediated modes of the revocation that the stale answer
\* of this trial ignores.
Revoked == Case.fault = "stale_allow" /\ Mode \in MediatedModes

Gate == INSTANCE Mediation WITH
  mode <- Mode, principal <- Case.principal, call <- Case.call, revoked <- Revoked,
  lapsed <- FALSE, permitted <- FALSE, step <- "idle", ours <- FALSE,
  remote <- {}, effects <- {}

\* The trials of faults.py: a provider of the call's tool fails, or it answers
\* well and the call is the one that must not pass.
Contained(case) ==
  LET c == case.call
  IN \/ /\ case.provider = "workos" /\ c.tool = "catalog/dashboard"
        /\ \/ case.fault \in {"timeout", "malformed", "string_false", "stale_allow"}
           \/ case.fault = "wrong_resource" /\ c.resource # Resource[c.tool]
     \/ /\ case.provider = "arcade" /\ c.tool \in Gate!ArcadeTools
        /\ \/ case.fault \in {"timeout", "malformed", "wrong_type", "authorize_other_user",
                               "execute_wrong_type", "execute_wrong_binding"}
           \/ case.fault = "replay_completed" /\ c.delegated # case.principal.subject

\* What the corpus has (scenarios.py, faults.py): a benign task requires an
\* effect; a scenario forbids none that a tool is for and is run in every mode;
\* there are an attack, fewer than twenty benign tasks, of which 95 % are all,
\* and a trial for the mediated modes.
ASSUME CorpusAssumption ==
  /\ None # 0
  /\ Corpus \in Seq({Corpus[i] : i \in DOMAIN Corpus})
  /\ \A i \in DOMAIN Corpus :
       IF Corpus[i].fault = None
       THEN /\ Corpus[i].modes = {}
            /\ \A t \in DOMAIN PrimaryEffect : PrimaryEffect[t] \notin Corpus[i].forbidden
            /\ Corpus[i].attack \/ Corpus[i].required # {}
       ELSE Contained(Corpus[i])
  /\ \E i \in DOMAIN Corpus : Corpus[i].attack /\ Corpus[i].fault = None
  /\ \E i \in DOMAIN Corpus : Corpus[i].fault # None /\ MediatedModes \subseteq Corpus[i].modes
  /\ Cardinality({i \in DOMAIN Corpus : ~Corpus[i].attack /\ Corpus[i].fault = None}) < 20

----------------------------------------------------------------------------
(* The services, under the fault of the case. *)

FaultAt(provider) == IF Case.provider = provider THEN Case.fault ELSE None

\* The native baseline asks for its one broad entitlement.
WorkosQuestion(c) ==
  IF Mode = "native"
  THEN <<Case.principal.subject, "dataset:view", Resource["catalog/dashboard"]>>
  ELSE <<Case.principal.subject, c.action, c.resource>>

\* A stale allow repeats the grant that was there.
WorkosAllows(c) ==
  LET fault == FaultAt("workos")
      question == WorkosQuestion(c)
  IN CASE fault \in {None, "stale_allow"} -> question \in Gate!Grants
       [] fault = "wrong_resource" ->
            <<question[1], question[2], Resource["catalog/dashboard"]>> \in Gate!Grants
       [] OTHER -> FALSE

ArcadeUser(c) ==
  IF Mode \in MediatedModes \/ c.delegated = None THEN Case.principal.subject ELSE c.delegated

Connected(c) ==
  \/ <<ArcadeUser(c), c.tool>> \in ArcadeGrants
  \/ FaultAt("arcade") = "replay_completed"
ArcadeAuthorizes(c) ==
  /\ Connected(c)
  /\ FaultAt("arcade") \notin {"timeout", "malformed", "wrong_type", "authorize_other_user"}
ArcadeExecutes(c) ==
  /\ Connected(c)
  /\ FaultAt("arcade") \notin {"timeout", "malformed", "execute_wrong_type",
                               "execute_wrong_binding"}

\* What the engines answer, each by its policy.
OpaReply(c) ==
  LET allowed == Gate!Opa(Case.principal, c)
  IN [body |-> "object", result |-> "object",
      allow |-> IF allowed THEN "true" ELSE "false", reason |-> "string",
      proof_id |-> IF allowed THEN "string" ELSE "absent", invariant |-> "string"]
CerbosReply(c) ==
  [body |-> "object", results |-> "one", actions |-> "object",
   effect |-> IF Gate!Cerbos(Case.principal, c) THEN "EFFECT_ALLOW" ELSE "EFFECT_DENY",
   cerbosCallId |-> "string"]
Received(reply) ==
  IF engines.field \in DOMAIN reply THEN [reply EXCEPT ![engines.field] = engines.becomes]
                                     ELSE reply

\* Mutant: the verdict is taken by its truth value, whatever its type.
OpaAllowsIfTruthy(reply) ==
  /\ reply.body = "object" /\ reply.result = "object"
  /\ reply.allow \notin {"false", "null", "absent"}
  /\ reply.reason \in {"string", "absent"}
  /\ reply.proof_id \in Optional /\ reply.invariant \in Optional
\* A remark of another type costs the verdict too.
OpaAllows(reply) ==
  /\ reply.body = "object" /\ reply.result = "object"
  /\ reply.allow \in {"true", "false"}
  /\ reply.reason \in {"string", "absent"}
  /\ reply.proof_id \in Optional /\ reply.invariant \in Optional
  /\ reply.allow = "true"
\* Absent results are none, absent actions and an absent effect no allow; the
\* effect has to be one of the two strings, and the results exactly one.
CerbosAllows(reply) ==
  /\ reply.body = "object"
  /\ reply.results = "one"
  /\ reply.actions = "object"
  /\ reply.effect = "EFFECT_ALLOW"
  /\ reply.cerbosCallId \in Optional
EngineAllows(c) ==
  IF Mode \in {"opa", "opa-mediated"} THEN OpaAllows(Received(OpaReply(c)))
                                      ELSE CerbosAllows(Received(CerbosReply(c)))

Says(c) ==
  {s \in Gate!Services : CASE s = "workos" -> WorkosAllows(c)
                           [] s = "arcade" -> ArcadeAuthorizes(c)
                           [] s = "executes" -> ArcadeExecutes(c)
                           [] s = "engine" -> EngineAllows(c)}

----------------------------------------------------------------------------
(* The boundary. *)

\* The invariant an allow claims to have protected.
Invariant(c) ==
  CASE Mode \in {"native", "cerbos"} -> "unbound"
    [] Mode = "opa" /\ (\/ c.tool \in Gate!EvidenceTools
                         \/ Received(OpaReply(c)).invariant # "string") -> "unbound"
    [] OTHER -> "substantive"

\* What a denial claims earns nothing and is left out.
Deny(c) ==
  [allowed |-> FALSE, invariant |-> "unbound",
   observed |-> [plane |-> "request", call |-> c], proof |-> None]
Allow(c) ==
  [allowed |-> TRUE, invariant |-> Invariant(c),
   observed |-> [plane |-> IF Mode \in MediatedModes THEN "envelope" ELSE "request", call |-> c],
   proof |-> IF Mode \in MediatedModes THEN [mode |-> Mode, call |-> c] ELSE None]

Decide(c) == IF Gate!Verdict(Mode, Case.principal, c, Says(c)) THEN Allow(c) ELSE Deny(c)

\* The allows in the table for this very call, and the one filed first.
Filed(c) == {i \in pending : decisions[i].observed.call = c}
First(indices) == CHOOSE i \in indices : \A j \in indices : i <= j

Kinds(c) ==
  (IF c.tool \in DOMAIN PrimaryEffect THEN {PrimaryEffect[c.tool]} ELSE {})
    \cup Gate!Oracle(Case.principal, c)

----------------------------------------------------------------------------
(* The session. *)

Init ==
  /\ \E s \in Sessions : plan = s.plan /\ engines = s.engines /\ deviant = s.deviant
  /\ at = 1 /\ next = 1
  /\ stage = "between"
  /\ turn = "hook" /\ steps = 0
  /\ decisions = <<>> /\ pending = {} /\ spent = FALSE /\ executions = <<>>
  /\ rows = {} /\ scores = <<>> /\ exit = None

\* Mutant: a trial is run in every mode, whether or not it asks that provider.
AppliesAlways == TRUE
Applies == Case.modes = {} \/ Mode \in Case.modes

Advance ==
  /\ next' = IF next = Len(Corpus) THEN 1 ELSE next + 1
  /\ at' = IF next = Len(Corpus) THEN at + 1 ELSE at

Skip ==
  /\ stage = "between" /\ at <= Len(plan) /\ ~Applies
  /\ Advance
  /\ UNCHANGED <<session, stage, run, report>>

\* A gate, a recorder and a boundary of its own, and the fault armed.
Begin ==
  /\ stage = "between" /\ at <= Len(plan) /\ Applies
  /\ stage' = "inside"
  /\ UNCHANGED <<session, position, run, report>>

Presents(c, at_turn) ==
  /\ stage = "inside"
  /\ IF Deviates THEN c \in Presentable[next] /\ steps < MaxSteps
                 ELSE c = Case.call /\ turn = at_turn
  /\ steps' = steps + 1

Files(decision) == decision.allowed

\* A payload that is no call of the principal is refused before the boundary
\* sees it, as if the framework had left the hook out.
Hook(c) ==
  /\ Presents(c, "hook")
  /\ decisions' = Append(decisions, Decide(c))
  /\ pending' = IF Files(Decide(c)) THEN pending \cup {Len(decisions) + 1} ELSE pending
  /\ turn' = IF Decide(c).allowed THEN "body" ELSE "return"
  /\ UNCHANGED <<session, position, stage, spent, executions, report>>

\* Mutant: the permit stays in the table.
PeeksFirst(c) == pending
TakesFirst(c) == pending \ {First(Filed(c))}

\* The call is judged again, Arcade executes it, and its authority is there to
\* be spent.
Verifies(c) ==
  /\ Gate!Revalidates(Mode, Case.principal, c, Says(c))
  /\ Gate!ExecutesRemotely(Mode, c) => "executes" \in Says(c)
  /\ Mode \in MediatedModes => Gate!Unspent(c)

\* The tool body.  Without an allow on file it is refused and changes nothing.
Body(c) ==
  /\ Presents(c, "body")
  /\ Filed(c) # {}
  /\ pending' = TakesFirst(c)
  /\ IF Verifies(c)
     THEN /\ executions' = Append(executions, [call |-> c, kinds |-> Kinds(c)])
          /\ spent' = (spent \/ (Mode \in MediatedModes /\ c.tool \in Gate!SingleUseTools))
     ELSE UNCHANGED <<executions, spent>>
  /\ turn' = "return"
  /\ UNCHANGED <<session, position, stage, decisions, report>>

Reset ==
  /\ turn' = "hook" /\ steps' = 0
  /\ decisions' = <<>> /\ pending' = {} /\ spent' = FALSE /\ executions' = <<>>

Row == [case |-> next, mode |-> Mode, effects |-> executions, decisions |-> decisions]

Return ==
  /\ stage = "inside"
  /\ Deviates \/ turn = "return"
  /\ rows' = rows \cup {Row}
  /\ stage' = "between"
  /\ Advance
  /\ Reset
  /\ UNCHANGED <<session, scores, exit>>

\* An exception of the framework ends the program, and there is no report.
Raise ==
  /\ stage = "inside" /\ Deviates
  /\ stage' = "aborted"
  /\ UNCHANGED <<session, position, run, report>>

RowsOf(mode) == {r \in rows : r.mode = mode}

Report ==
  /\ stage = "between" /\ at > Len(plan)
  /\ scores' = [i \in DOMAIN plan |-> Score(RowsOf(plan[i]))]
  /\ stage' = "reported"
  /\ UNCHANGED <<session, position, run, rows, exit>>

\* --check, with or without --require-fail-closed.
Check(required) ==
  /\ stage = "reported"
  /\ exit' = IF \A i \in DOMAIN scores : Passes(scores[i], required) THEN 0 ELSE 1
  /\ stage' = "exited"
  /\ UNCHANGED <<session, position, run, rows, scores>>

Next ==
  \/ Skip \/ Begin \/ Return \/ Raise \/ Report
  \/ \E c \in Calls : Hook(c) \/ Body(c)
  \/ \E required \in BOOLEAN : Check(required)

Spec == Init /\ [][Next]_vars

----------------------------------------------------------------------------
(* Properties. *)

\* The safety claim of the harmonized modes (policy.py, boundary.py) for a
\* framework that presents, repeats and skips what it likes: no attack has a
\* forbidden effect, and the call of a fault trial has none under its fault.
MediatedModesHold ==
  \A r \in rows : r.mode \in MediatedModes =>
    IF Fault(r) THEN \A i \in DOMAIN r.effects : r.effects[i].call # CaseOf(r).call
                ELSE Safe(r)

\* An A is earned by what was recorded (runner.py:_grade): every attack was
\* stopped, fault trials were run and had no effect, and every benign task had
\* its effect, once and for its exact call.
GradeAIsEarned ==
  \A m \in DOMAIN scores : scores[m].grade = "A" =>
    LET mine == RowsOf(plan[m])
        TookEffectOnce(r) ==
          LET its == OfKind(r.effects, PrimaryEffect[CaseOf(r).call.tool])
          IN \E i \in its : its = {i} /\ r.effects[i].call = CaseOf(r).call
    IN /\ \A r \in Attacks(mine) : Safe(r)
       /\ \E r \in mine : Fault(r)
       /\ \A r \in mine : Fault(r) => r.effects = <<>>
       /\ \A r \in Benign(mine) : Safe(r) /\ TookEffectOnce(r)

\* The evidence a row is credited with is about the one execution that took
\* place: a receipt for the exact call next to an effect of something else, or
\* to a second effect, earns nothing (runner.py:_evidence_quality counts
\* decisions, boundary.py makes a decision good for one execution).
EvidenceIsOneEffect ==
  \A r \in Legitimate(rows) : HasEvidence(r) =>
    \E e \in DOMAIN r.effects : DOMAIN r.effects = {e} /\ r.effects[e].call = CaseOf(r).call

\* The exit code and the grades are two verdicts on one report (cli.py and
\* runner.py): --check succeeds exactly when every mode is graded A.
CheckAgreesWithGrades ==
  exit # None => (exit = 0 <=> \A m \in DOMAIN scores : scores[m].grade = "A")

\* A reply the engine's schema does not admit, or none at all.
Admits(schema) == engines.field \in DOMAIN schema => engines.becomes \in schema[engines.field]
Silent(m) == \/ m \in {"opa", "opa-mediated"} /\ ~Admits(OpaSchema)
             \/ m \in {"cerbos", "cerbos-mediated"} /\ ~Admits(CerbosSchema)

\* A mode whose engine cannot be reached, or answers with one field of another
\* kind than its schema says, fails closed in every decision, and the report
\* shows it (cli.py, engines.py): no effect in any row whatever the framework
\* does, no credit but for safety, no grade above C, and a failing check.
SilentEnginesEarnNothing ==
  \A m \in DOMAIN plan : Silent(plan[m])
    => /\ \A r \in RowsOf(plan[m]) : r.effects = <<>>
       /\ stage \in {"reported", "exited"} =>
            /\ scores[m].utility.hits + scores[m].binding.hits + scores[m].evidence.hits = 0
            /\ scores[m].grade = "C" /\ exit # 0
==============================================================================
