---------------------------- MODULE Benchmark_proofs ----------------------------
(***************************************************************************)
(* Proofs about a run of the benchmark, for any corpus that is built as    *)
(* scenarios.py and faults.py build it, any selection of modes, any fault  *)
(* of the engines and any framework, faithful or not: what the rows say of *)
(* the modes, and what the grades and the exit code say of the rows.       *)
(***************************************************************************)
EXTENDS Benchmark, FiniteSetTheorems, WellFoundedInduction, TLAPS

-----------------------------------------------------------------------------
(* The inductive invariant. *)

\* What the boundary decides and what the recorder records.
Decisions ==
  [allowed : BOOLEAN, invariant : {"unbound", "substantive"},
   observed : [plane : {"request", "envelope"}, call : Calls],
   proof : {None} \cup [mode : MediatedModes, call : Calls]]
EffectKinds == Gate!ForbiddenEffects \cup {PrimaryEffect[t] : t \in DOMAIN PrimaryEffect}
Executions == [call : Calls, kinds : SUBSET EffectKinds]

\* A session walks through the cases, mode by mode, and each run starts afresh.
Stages == {"between", "inside", "reported", "exited", "aborted"}
WalkInv ==
  /\ plan \in Seq({plan[i] : i \in DOMAIN plan})
  /\ \A i, j \in DOMAIN plan : plan[i] = plan[j] => i = j
  /\ at \in 1 .. Len(plan) + 1 /\ next \in DOMAIN Corpus
  /\ stage \in Stages
  /\ stage = "inside" => at \in DOMAIN plan
  /\ decisions \in Seq(Decisions) /\ executions \in Seq(Executions)
  /\ pending \subseteq DOMAIN decisions
  /\ stage \notin {"inside", "aborted"} => decisions = <<>> /\ executions = <<>>

\* An allow is good for one execution of its own call: while one decision was
\* made, there is its permit, or at most the one execution it paid for.
PaidFor(ds, es) ==
  Len(ds) = 1 => es = <<>> \/ (Len(es) = 1 /\ es[1].call = ds[1].observed.call)
OneForOne ==
  /\ Len(decisions) = 0 => executions = <<>>
  /\ Len(decisions) = 1 /\ pending # {} => executions = <<>>
  /\ PaidFor(decisions, executions)

\* What is true of the decisions and the effects of a run in a mode, during the
\* run and in its row.
Holds(case, mode, es) ==
  mode \in MediatedModes =>
    IF Corpus[case].fault # None THEN \A i \in DOMAIN es : es[i].call # Corpus[case].call
    ELSE \A i \in DOMAIN es : es[i].kinds \cap Corpus[case].forbidden = {}
OnlyMediatedBinds(mode, ds) ==
  \A i \in DOMAIN ds : ds[i].observed.plane = "envelope" => mode \in MediatedModes
Nothing(ds, es) == es = <<>> /\ \A i \in DOMAIN ds : ~ds[i].allowed
RunInv ==
  stage = "inside" =>
    /\ Holds(next, Mode, executions)
    /\ OnlyMediatedBinds(Mode, decisions)
    /\ Silent(Mode) => pending = {} /\ Nothing(decisions, executions)

\* The rows are those of the runs so far, one each.
Before(case, a) == a < at \/ (a = at /\ case < next)
RowInv ==
  \A r \in rows :
    /\ r.case \in DOMAIN Corpus
    /\ \E a \in DOMAIN plan : r.mode = plan[a] /\ Before(r.case, a)
    /\ r.decisions \in Seq(Decisions) /\ r.effects \in Seq(Executions)
    /\ PaidFor(r.decisions, r.effects)
    /\ Holds(r.case, r.mode, r.effects)
    /\ OnlyMediatedBinds(r.mode, r.decisions)
    /\ Silent(r.mode) => Nothing(r.decisions, r.effects)
OneRowEach == \A r, q \in rows : r.case = q.case /\ r.mode = q.mode => r = q
Covered ==
  \A a \in DOMAIN plan, c \in DOMAIN Corpus :
    /\ Before(c, a)
    /\ Corpus[c].modes = {} \/ plan[a] \in Corpus[c].modes
    => \E r \in rows : r.case = c /\ r.mode = plan[a]

\* The scores are those of the rows, all of them, and the exit code is that of
\* the scores.
ScoreInv ==
  /\ stage \in {"reported", "exited"} =>
       /\ at > Len(plan)
       /\ scores = [i \in DOMAIN plan |-> Score(RowsOf(plan[i]))]
  /\ stage \notin {"reported", "exited"} => scores = <<>>
  /\ IF stage = "exited"
     THEN \E required \in BOOLEAN :
            exit = IF \A i \in DOMAIN scores : Passes(scores[i], required) THEN 0 ELSE 1
     ELSE exit = None
-----------------------------------------------------------------------------
(* The gate's verdicts. *)

\* The oracle records only kinds some scenario forbids.
LEMMA OracleKinds ==
  ASSUME NEW p, NEW c
  PROVE  Gate!Oracle(p, c) \subseteq Gate!ForbiddenEffects
BY DEF Gate!Oracle, Gate!When, Gate!ForbiddenEffects, Gate!RuntimeEffects

\* A mediated verdict is one of the engine and of the mediator.
LEMMA MediatedVerdict ==
  ASSUME NEW m \in MediatedModes, NEW p, NEW c, NEW a, Gate!Verdict(m, p, c, a)
  PROVE  /\ Gate!Bound(c) /\ Gate!Mediator(p, c, a)
         /\ m # "typesec" => "engine" \in a
         /\ c.tool = "catalog/query" => c.purpose = Gate!Research
<1>1. Gate!Bound(c) /\ Gate!Mediator(p, c, a) /\ (m # "typesec" => "engine" \in a)
  BY DEF Gate!Verdict, MediatedModes, Gate!RustGate
<1>2. c.tool = "catalog/query" => c.purpose = Gate!Research
  <2>1. CASE m = "typesec"
    BY <2>1 DEF Gate!Verdict, Gate!RustGate, Gate!Odrl
  <2>2. CASE m = "opa-mediated"
    BY <2>2 DEF Gate!Verdict, Gate!Opa, Gate!RegoContent, Gate!ArcadeTools
  <2>3. CASE m = "cerbos-mediated"
    BY <2>3 DEF Gate!Verdict, Gate!Cerbos, Gate!CerbosContent, Gate!ArcadeTools
  <2> QED
    BY <2>1, <2>2, <2>3 DEF MediatedModes
<1> QED
  BY <1>1, <1>2

\* A call a mediated mode allows has no forbidden effect.
LEMMA MediatedIsClean ==
  ASSUME NEW m \in MediatedModes, NEW p, NEW c, NEW a, Gate!Verdict(m, p, c, a)
  PROVE  Gate!Oracle(p, c) = {}
<1>1. /\ Gate!Bound(c) /\ Gate!Mediator(p, c, a)
      /\ c.tool = "catalog/query" => c.purpose = Gate!Research
  BY MediatedVerdict
<1>2. c.tool \in Gate!Tools
  BY <1>1 DEF Gate!Bound
<1>3. CASE c.tool = "catalog/query"
  BY <1>1, <1>3 DEF Gate!Oracle, Gate!When, Gate!Mediator, Gate!ArcadeTools
<1>4. CASE c.tool \in Gate!ArcadeTools
  BY <1>1, <1>4 DEF Gate!Oracle, Gate!When, Gate!Mediator, Gate!MediatedChannel, Gate!ArcadeTools
<1>5. CASE c.tool \in {"catalog/dashboard", "delegate/run", "credential/vend"}
  BY <1>1, <1>5 DEF Gate!Oracle, Gate!When, Gate!Mediator, Gate!ArcadeTools,
     Gate!Amplified, Gate!Amplifies, Gate!Widened, Gate!Outlives, Gate!Bypasses
<1>6. CASE c.tool \in {"memory/recall", "approval/execute"}
  BY <1>1, <1>6 DEF Gate!Oracle, Gate!When, Gate!Mediator, Gate!ArcadeTools,
     Gate!GenuineInStore
<1>7. CASE c.tool \in {"replay/import", "policy/evaluate", "parallel/join"}
  BY <1>1, <1>7 DEF Gate!Oracle, Gate!When, Gate!Mediator, Gate!ArcadeTools,
     Gate!GenuineInStore
<1> QED
  BY <1>2, <1>3, <1>4, <1>5, <1>6, <1>7 DEF Gate!Tools, Gate!ArcadeTools

\* A mediated mode executes on a verdict of that moment.
LEMMA MediatedVerifies ==
  ASSUME Mode \in MediatedModes, NEW c, Verifies(c)
  PROVE  /\ Gate!Verdict(Mode, Case.principal, c, Says(c))
         /\ c.tool \in Gate!ArcadeTools => "executes" \in Says(c)
BY DEF Verifies, Gate!Revalidates, Gate!ExecutesRemotely, MediatedModes, Gate!MediatedModes

\* What the services say is what each of them answers.
LEMMA SaysWhat ==
  ASSUME NEW c
  PROVE  /\ "workos" \in Says(c) => WorkosAllows(c)
         /\ "arcade" \in Says(c) => ArcadeAuthorizes(c)
         /\ "executes" \in Says(c) => ArcadeExecutes(c)
         /\ "engine" \in Says(c) => EngineAllows(c)
BY DEF Says, Gate!Services

\* A mediated mode does not execute the call of a fault trial under its fault.
LEMMA TrialsAreContained ==
  ASSUME next \in DOMAIN Corpus, Case.fault # None, Mode \in MediatedModes,
         Verifies(Case.call)
  PROVE  FALSE
<1> DEFINE c == Case.call
           p == Case.principal
<1>1. /\ Gate!Mediator(p, c, Says(c))
      /\ c.tool \in Gate!ArcadeTools => "executes" \in Says(c)
  BY MediatedVerifies, MediatedVerdict
<1>2. Contained(Case)
  BY CorpusAssumption DEF Case
<1>3. CASE Case.provider = "workos" /\ c.tool = "catalog/dashboard"
  <2>1. c.resource = Resource["catalog/dashboard"] /\ "workos" \in Says(c) /\ ~Revoked
    BY <1>1, <1>3 DEF Gate!Mediator, Gate!ArcadeTools
  <2>2. Case.fault # "stale_allow"
    BY <2>1 DEF Revoked
  <2>3. Case.fault # "wrong_resource"
    BY <1>2, <1>3, <2>1 DEF Contained
  <2>4. Case.fault \in {"timeout", "malformed", "string_false"}
    BY <1>2, <1>3, <2>2, <2>3 DEF Contained
  <2>5. ~WorkosAllows(c)
    BY <1>3, <2>4 DEF WorkosAllows, FaultAt
  <2> QED
    BY <2>1, <2>5, SaysWhat
<1>4. CASE Case.provider = "arcade" /\ c.tool \in Gate!ArcadeTools
  <2>1. c.delegated = p.subject /\ "arcade" \in Says(c) /\ "executes" \in Says(c)
    BY <1>1, <1>4 DEF Gate!Mediator, Gate!MediatedChannel, Gate!ArcadeTools
  <2>2. ArcadeAuthorizes(c) /\ ArcadeExecutes(c)
    BY <2>1, SaysWhat
  <2>3. Case.fault \in {"timeout", "malformed", "wrong_type", "authorize_other_user",
                        "execute_wrong_type", "execute_wrong_binding"}
    BY <1>2, <1>4, <2>1 DEF Contained
  <2> QED
    BY <1>4, <2>2, <2>3 DEF ArcadeAuthorizes, ArcadeExecutes, FaultAt
<1> QED
  BY <1>2, <1>3, <1>4 DEF Contained

\* What a mediated mode executes in a scenario has no effect the scenario forbids.
LEMMA ScenariosAreSafe ==
  ASSUME next \in DOMAIN Corpus, Case.fault = None, Mode \in MediatedModes, NEW c,
         Verifies(c)
  PROVE  Kinds(c) \cap Case.forbidden = {}
<1>1. Gate!Oracle(Case.principal, c) = {}
  BY MediatedVerifies, MediatedIsClean
<1>2. \A t \in DOMAIN PrimaryEffect : PrimaryEffect[t] \notin Case.forbidden
  BY CorpusAssumption DEF Case
<1> QED
  BY <1>1, <1>2 DEF Kinds

\* A client allows on a reply each field of which is what the schema says; so a
\* fault the schema does not admit denies, whatever field it strikes.
LEMMA SilentIsNoAllow ==
  ASSUME Silent(Mode), NEW c
  PROVE  ~EngineAllows(c)
<1> DEFINE opa == OpaReply(c)
           cerbos == CerbosReply(c)
<1>1. /\ DOMAIN OpaSchema = DOMAIN opa
      /\ DOMAIN CerbosSchema = DOMAIN cerbos
  BY DEF OpaSchema, CerbosSchema, OpaReply, CerbosReply
<1>2. ASSUME NEW r, OpaAllows(r), NEW field \in DOMAIN OpaSchema
      PROVE  r[field] \in OpaSchema[field]
  BY <1>2 DEF OpaAllows, OpaSchema
<1>3. ASSUME NEW r, CerbosAllows(r), NEW field \in DOMAIN CerbosSchema
      PROVE  r[field] \in CerbosSchema[field]
  BY <1>3 DEF CerbosAllows, CerbosSchema
<1> HIDE DEF opa, cerbos
<1>4. CASE Mode \in {"opa", "opa-mediated"}
  <2>1. engines.field \in DOMAIN OpaSchema /\ engines.becomes \notin OpaSchema[engines.field]
    BY <1>4 DEF Silent, Admits
  <2>2. Received(opa)[engines.field] = engines.becomes
    BY <1>1, <2>1 DEF Received
  <2> QED
    BY <1>2, <1>4, <2>1, <2>2 DEF EngineAllows, opa
<1>5. CASE Mode \in {"cerbos", "cerbos-mediated"}
  <2>1. /\ engines.field \in DOMAIN CerbosSchema
        /\ engines.becomes \notin CerbosSchema[engines.field]
    BY <1>5 DEF Silent, Admits
  <2>2. Received(cerbos)[engines.field] = engines.becomes
    BY <1>1, <2>1 DEF Received
  <2> QED
    BY <1>3, <1>5, <2>1, <2>2 DEF EngineAllows, cerbos
<1> QED
  BY <1>4, <1>5 DEF Silent

\* A mode whose engine is silent denies.
LEMMA SilentDenies ==
  ASSUME Silent(Mode), NEW p, NEW c
  PROVE  ~Gate!Verdict(Mode, p, c, Says(c))
<1>1. "engine" \notin Says(c)
  BY SaysWhat, SilentIsNoAllow
<1>2. Mode \in {"opa", "cerbos", "opa-mediated", "cerbos-mediated"}
  BY DEF Silent
<1> QED
  BY <1>1, <1>2 DEF Gate!Verdict

-----------------------------------------------------------------------------
(* What one hook and one body do. *)

LEMMA CorpusIsList ==
  /\ Len(Corpus) \in Nat /\ Len(Corpus) # 0 /\ DOMAIN Corpus = 1 .. Len(Corpus)
  BY CorpusAssumption

\* A decision is about the call presented, and only a mediated mode binds it.
LEMMA DecideFacts ==
  ASSUME NEW c \in Calls
  PROVE  /\ Decide(c) \in Decisions
         /\ Decide(c).observed.call = c
         /\ Decide(c).observed.plane = "envelope" => Mode \in MediatedModes
         /\ Decide(c).allowed <=> Gate!Verdict(Mode, Case.principal, c, Says(c))
<1>1. Invariant(c) \in {"unbound", "substantive"}
  BY DEF Invariant
<1> DEFINE plane == IF Mode \in MediatedModes THEN "envelope" ELSE "request"
           proof == IF Mode \in MediatedModes THEN [mode |-> Mode, call |-> c] ELSE None
           says == Gate!Verdict(Mode, Case.principal, c, Says(c))
<1>2. Allow(c) = [allowed |-> TRUE, invariant |-> Invariant(c),
                  observed |-> [plane |-> plane, call |-> c], proof |-> proof]
  BY DEF Allow
<1>3. /\ plane \in {"request", "envelope"}
      /\ proof \in {None} \cup [mode : MediatedModes, call : Calls]
      /\ plane = "envelope" => Mode \in MediatedModes
  OBVIOUS
<1>4. Decide(c) = IF says THEN Allow(c) ELSE Deny(c)
  BY DEF Decide
<1> HIDE DEF plane, proof, says
<1>5. CASE says
  BY <1>1, <1>2, <1>3, <1>4, <1>5 DEF Decisions, says
<1>6. CASE ~says
  BY <1>3, <1>4, <1>6 DEF Decisions, Deny, says
<1> QED
  BY <1>5, <1>6

\* What a hook changes.
LEMMA HookFacts ==
  ASSUME WalkInv, NEW c \in Calls, Hook(c)
  PROVE  \E d \in Decisions :
           /\ decisions' = Append(decisions, d)
           /\ decisions' \in Seq(Decisions)
           /\ Len(decisions') = Len(decisions) + 1
           /\ \A i \in DOMAIN decisions : decisions'[i] = decisions[i]
           /\ decisions'[Len(decisions) + 1] = d
           /\ pending' = IF d.allowed THEN pending \cup {Len(decisions) + 1} ELSE pending
           /\ d.observed.call = c
           /\ d.observed.plane = "envelope" => Mode \in MediatedModes
           /\ d.allowed <=> Gate!Verdict(Mode, Case.principal, c, Says(c))
<1>1. /\ Decide(c) \in Decisions
      /\ Decide(c).observed.call = c
      /\ Decide(c).observed.plane = "envelope" => Mode \in MediatedModes
      /\ Decide(c).allowed <=> Gate!Verdict(Mode, Case.principal, c, Says(c))
  BY DecideFacts
<1> DEFINE d == Decide(c)
<1> HIDE DEF d
<1>2. /\ decisions' = Append(decisions, d)
      /\ pending' = IF d.allowed THEN pending \cup {Len(decisions) + 1} ELSE pending
  BY DEF Hook, Files, d
<1>3. decisions \in Seq(Decisions) /\ d \in Decisions
  BY <1>1 DEF WalkInv, d
<1>4. /\ decisions' \in Seq(Decisions)
      /\ Len(decisions') = Len(decisions) + 1
      /\ \A i \in DOMAIN decisions : decisions'[i] = decisions[i]
      /\ decisions'[Len(decisions) + 1] = d
  BY <1>2, <1>3
<1> QED
  BY <1>1, <1>2, <1>3, <1>4 DEF d

LEMMA KindsTyped ==
  ASSUME NEW c
  PROVE  Kinds(c) \subseteq EffectKinds
BY OracleKinds DEF Kinds, EffectKinds

\* A set of numbers has a least element.
LEMMA LeastOf ==
  ASSUME NEW S, S \subseteq Nat, S # {}
  PROVE  \E i \in S : \A j \in S : i <= j
<1> DEFINE less == OpToRel(<, Nat)
<1>1. PICK i \in S : \A j \in S : <<j, i>> \notin less
  <2> HIDE DEF less
  <2>1. IsWellFoundedOn(less, Nat)
    BY NatLessThanWellFounded DEF less
  <2> QED
    BY <2>1, WFMin
<1>2. \A j \in S : ~(j < i)
  BY <1>1 DEF OpToRel
<1> QED
  BY <1>2

\* What a body changes: it takes a permit for its call and executes it, or not.
LEMMA BodyFacts ==
  ASSUME WalkInv, NEW c \in Calls, Body(c)
  PROVE  \E i \in pending :
           /\ decisions[i].observed.call = c
           /\ pending' = pending \ {i}
           /\ \/ executions' = executions
              \/ \E e \in Executions :
                   /\ e = [call |-> c, kinds |-> Kinds(c)]
                   /\ executions' = Append(executions, e)
                   /\ executions' \in Seq(Executions)
                   /\ Len(executions') = Len(executions) + 1
                   /\ \A k \in DOMAIN executions : executions'[k] = executions[k]
                   /\ executions'[Len(executions) + 1] = e
                   /\ Verifies(c)
<1>1. Filed(c) # {} /\ Filed(c) \subseteq DOMAIN decisions
  BY DEF Body, Filed, WalkInv
<1>2. Filed(c) \subseteq Nat
  BY <1>1 DEF WalkInv
<1>3. PICK i \in Filed(c) : \A j \in Filed(c) : i <= j
  BY <1>1, <1>2, LeastOf
<1>4. First(Filed(c)) \in Filed(c)
  BY <1>3 DEF First
<1> DEFINE f == First(Filed(c))
           e == [call |-> c, kinds |-> Kinds(c)]
<1>5. /\ f \in pending /\ decisions[f].observed.call = c
      /\ pending' = pending \ {f}
  BY <1>4 DEF Filed, Body, TakesFirst
<1>6. e \in Executions
  BY KindsTyped DEF Executions
<1>7. \/ executions' = executions
      \/ /\ executions' = Append(executions, e)
         /\ Verifies(c)
  BY DEF Body
<1>8. executions \in Seq(Executions)
  BY DEF WalkInv
<1> HIDE DEF e, f
<1>9. executions' = Append(executions, e) =>
        /\ executions' \in Seq(Executions)
        /\ Len(executions') = Len(executions) + 1
        /\ \A k \in DOMAIN executions : executions'[k] = executions[k]
        /\ executions'[Len(executions) + 1] = e
  BY <1>6, <1>8
<1> QED
  BY <1>5, <1>6, <1>7, <1>9 DEF e

-----------------------------------------------------------------------------
(* The walk through the cases. *)

LEMMA InitWalk == Init => WalkInv
<1> SUFFICES ASSUME Init PROVE WalkInv
  OBVIOUS
<1>1. PICK s \in Sessions : plan = s.plan
  BY DEF Init
<1>2. /\ plan \in Seq({plan[i] : i \in DOMAIN plan})
      /\ \A i, j \in DOMAIN plan : plan[i] = plan[j] => i = j
  BY <1>1, SessionsAssumption
<1>3. Len(plan) \in Nat /\ 1 \in DOMAIN Corpus
  BY <1>2, CorpusIsList
<1>4. at \in 1 .. Len(plan) + 1 /\ next \in DOMAIN Corpus
  BY <1>3 DEF Init
<1> QED
  BY <1>2, <1>4 DEF Init, WalkInv, Stages

\* The next case is in the corpus, or the next mode begins with the first.
LEMMA AdvanceFacts ==
  ASSUME WalkInv, at <= Len(plan), Advance
  PROVE  /\ Len(plan) \in Nat /\ at \in DOMAIN plan
         /\ at' \in 1 .. Len(plan) + 1 /\ next' \in DOMAIN Corpus
         /\ at < Len(plan) + 1
         /\ \/ next < Len(Corpus) /\ next' = next + 1 /\ at' = at
            \/ next = Len(Corpus) /\ next' = 1 /\ at' = at + 1
<1> DEFINE modes == Len(plan)
           cases == Len(Corpus)
<1>1. modes \in Nat /\ DOMAIN plan = 1 .. modes
  BY DEF WalkInv
<1>2. cases \in Nat /\ cases # 0 /\ DOMAIN Corpus = 1 .. cases
  BY CorpusIsList
<1>3. at \in 1 .. modes + 1 /\ next \in 1 .. cases /\ at <= modes
  BY <1>2 DEF WalkInv
<1>4. /\ next' = IF next = cases THEN 1 ELSE next + 1
      /\ at' = IF next = cases THEN at + 1 ELSE at
  BY DEF Advance
<1> HIDE DEF modes, cases
<1>5. \/ next < cases /\ next' = next + 1 /\ at' = at
      \/ next = cases /\ next' = 1 /\ at' = at + 1
  BY <1>2, <1>3, <1>4
<1>6. at' \in 1 .. modes + 1 /\ next' \in 1 .. cases /\ at \in 1 .. modes /\ at < modes + 1
  BY <1>1, <1>2, <1>3, <1>5
<1> QED
  BY <1>1, <1>2, <1>5, <1>6 DEF modes, cases

LEMMA WalkHook ==
  ASSUME WalkInv, NEW c \in Calls, Hook(c)
  PROVE  WalkInv'
<1>1. PICK d \in Decisions :
        /\ decisions' \in Seq(Decisions)
        /\ Len(decisions') = Len(decisions) + 1
        /\ pending' = IF d.allowed THEN pending \cup {Len(decisions) + 1} ELSE pending
  BY HookFacts
<1>2. /\ UNCHANGED <<plan, at, next, stage, executions>>
      /\ stage = "inside"
  BY DEF Hook, Presents, session, position
<1> DEFINE n == Len(decisions)
<1>3. pending \subseteq 1 .. n /\ n \in Nat
  BY DEF WalkInv
<1>4. DOMAIN decisions' = 1 .. n + 1
  BY <1>1
<1>5. pending' \subseteq DOMAIN decisions'
  <2> HIDE DEF n
  <2>1. pending' \subseteq pending \cup {n + 1}
    BY <1>1 DEF n
  <2>2. pending \cup {n + 1} \subseteq 1 .. n + 1
    BY <1>3
  <2> QED
    BY <1>4, <2>1, <2>2
<1> QED
  BY <1>1, <1>2, <1>5 DEF WalkInv

LEMMA WalkBody ==
  ASSUME WalkInv, NEW c \in Calls, Body(c)
  PROVE  WalkInv'
<1>1. pending' \subseteq pending /\ executions' \in Seq(Executions)
  BY BodyFacts DEF WalkInv
<1>2. /\ UNCHANGED <<plan, at, next, stage, decisions>>
      /\ stage = "inside"
  BY DEF Body, Presents, session, position
<1> QED
  BY <1>1, <1>2 DEF WalkInv

LEMMA WalkStep == WalkInv /\ [Next]_vars => WalkInv'
<1> SUFFICES ASSUME WalkInv, [Next]_vars PROVE WalkInv'
  OBVIOUS
<1>1. CASE Skip
  <2>1. at' \in 1 .. Len(plan) + 1 /\ next' \in DOMAIN Corpus
    BY <1>1, AdvanceFacts DEF Skip
  <2> QED
    BY <1>1, <2>1 DEF Skip, WalkInv, session, run, Stages
<1>2. CASE Begin
  <2>1. at \in DOMAIN plan
    BY <1>2 DEF Begin, WalkInv
  <2> QED
    BY <1>2, <2>1 DEF Begin, WalkInv, session, position, run, Stages
<1>3. CASE Return
  <2>1. at <= Len(plan)
    BY <1>3 DEF Return, WalkInv
  <2>2. at' \in 1 .. Len(plan) + 1 /\ next' \in DOMAIN Corpus
    BY <1>3, <2>1, AdvanceFacts DEF Return
  <2>3. decisions' = <<>> /\ executions' = <<>> /\ pending' = {}
    BY <1>3 DEF Return, Reset
  <2> QED
    BY <1>3, <2>2, <2>3 DEF Return, WalkInv, session, Stages
<1>4. CASE Raise
  BY <1>4 DEF Raise, WalkInv, session, position, run, Stages
<1>5. CASE Report
  BY <1>5 DEF Report, WalkInv, session, position, run, Stages
<1>6. ASSUME NEW required \in BOOLEAN, Check(required) PROVE WalkInv'
  BY <1>6 DEF Check, WalkInv, session, position, run, Stages
<1>7. CASE UNCHANGED vars
  BY <1>7 DEF WalkInv, vars, session, position, run, Stages
<1> QED
  BY <1>1, <1>2, <1>3, <1>4, <1>5, <1>6, <1>7, WalkHook, WalkBody DEF Next

-----------------------------------------------------------------------------
(* One run. *)

LEMMA InitRun == Init => OneForOne /\ RunInv
BY DEF Init, OneForOne, PaidFor, RunInv

\* All but hooks, bodies, Begin and Return leave the run alone.
Elsewhere ==
  \/ Skip \/ Raise \/ Report \/ UNCHANGED vars
  \/ \E required \in BOOLEAN : Check(required)

LEMMA ElsewhereFacts ==
  ASSUME Elsewhere
  PROVE  /\ UNCHANGED <<decisions, pending, executions>>
         /\ stage' = "inside" => UNCHANGED vars
BY DEF Elsewhere, Skip, Raise, Report, Check, run, vars

LEMMA OneForOneStep == WalkInv /\ OneForOne /\ [Next]_vars => OneForOne'
<1> SUFFICES ASSUME WalkInv, OneForOne, [Next]_vars PROVE OneForOne'
  OBVIOUS
<1> DEFINE n == Len(decisions)
<1>1. n \in Nat /\ DOMAIN decisions = 1 .. n
  BY DEF WalkInv
<1>2. ASSUME NEW c \in Calls, Hook(c) PROVE OneForOne'
  <2> DEFINE k == Len(decisions')
  <2>1. k = n + 1
    BY <1>2, HookFacts
  <2>2. executions' = executions
    BY <1>2 DEF Hook
  <2>3. (k = 1 => n = 0) /\ k # 0
    <3> HIDE DEF k, n
    <3> QED
      BY <1>1, <2>1
  <2>4. Len(decisions') = 1 => executions' = <<>>
    BY <2>2, <2>3 DEF OneForOne
  <2> QED
    BY <2>3, <2>4 DEF OneForOne, PaidFor
<1>3. ASSUME NEW c \in Calls, Body(c) PROVE OneForOne'
  <2>1. PICK i \in pending :
          /\ decisions[i].observed.call = c
          /\ pending' = pending \ {i}
          /\ \/ executions' = executions
             \/ /\ Len(executions') = Len(executions) + 1
                /\ executions'[Len(executions) + 1].call = c
    BY <1>3, BodyFacts
  <2>2. i \in 1 .. n /\ pending \subseteq 1 .. n
    BY <1>1 DEF WalkInv
  <2>3. decisions' = decisions /\ n # 0
    BY <1>1, <1>3, <2>2 DEF Body
  <2>4. ASSUME n = 1
        PROVE  /\ i = 1 /\ pending' = {} /\ executions = <<>>
    BY <1>1, <2>1, <2>2, <2>4 DEF OneForOne
  <2>5. ASSUME n = 1
        PROVE  executions' = <<>> \/ (Len(executions') = 1 /\ executions'[1].call = c)
    BY <2>1, <2>4, <2>5
  <2> QED
    BY <2>1, <2>3, <2>4, <2>5 DEF OneForOne, PaidFor
<1>4. CASE Begin
  BY <1>4 DEF Begin, run, OneForOne, PaidFor
<1>5. CASE Return
  BY <1>5 DEF Return, Reset, OneForOne, PaidFor
<1>6. CASE Elsewhere
  BY <1>6, ElsewhereFacts DEF OneForOne, PaidFor
<1> QED
  BY <1>2, <1>3, <1>4, <1>5, <1>6 DEF Next, Elsewhere

LEMMA RunStep == WalkInv /\ RunInv /\ [Next]_vars => RunInv'
<1> SUFFICES ASSUME WalkInv, RunInv, [Next]_vars PROVE RunInv'
  OBVIOUS
<1>1. ASSUME NEW c \in Calls, Hook(c) PROVE RunInv'
  <2>1. PICK d \in Decisions :
          /\ decisions' \in Seq(Decisions)
          /\ Len(decisions') = Len(decisions) + 1
          /\ \A i \in DOMAIN decisions : decisions'[i] = decisions[i]
          /\ decisions'[Len(decisions) + 1] = d
          /\ pending' = IF d.allowed THEN pending \cup {Len(decisions) + 1} ELSE pending
          /\ d.observed.plane = "envelope" => Mode \in MediatedModes
          /\ d.allowed <=> Gate!Verdict(Mode, Case.principal, c, Says(c))
    BY <1>1, HookFacts
  <2>2. UNCHANGED <<plan, engines, at, next, executions>> /\ stage = "inside"
    BY <1>1 DEF Hook, Presents, session, position
  <2> DEFINE n == Len(decisions)
  <2>3. \A i \in DOMAIN decisions' : i \in DOMAIN decisions \/ decisions'[i] = d
    <3>1. n \in Nat /\ DOMAIN decisions = 1 .. n
      BY DEF WalkInv
    <3>2. DOMAIN decisions' = 1 .. n + 1
      BY <2>1
    <3> HIDE DEF n
    <3>3. \A i \in 1 .. n + 1 : i \in 1 .. n \/ i = n + 1
      BY <3>1
    <3> QED
      BY <2>1, <3>1, <3>2, <3>3 DEF n
  <2>4. OnlyMediatedBinds(Mode, decisions')
    BY <2>1, <2>2, <2>3 DEF RunInv, OnlyMediatedBinds
  <2>5. ASSUME Silent(Mode) PROVE pending' = {} /\ Nothing(decisions', executions')
    <3>1. ~d.allowed
      BY <2>1, <2>5, SilentDenies
    <3> QED
      BY <2>1, <2>2, <2>3, <2>5, <3>1 DEF RunInv, Nothing
  <2>6. Holds(next, Mode, executions')
    BY <2>2 DEF RunInv
  <2> QED
    BY <2>2, <2>4, <2>5, <2>6 DEF RunInv, Mode, Holds, OnlyMediatedBinds, Silent, Admits, Nothing
<1>2. ASSUME NEW c \in Calls, Body(c) PROVE RunInv'
  <2>1. UNCHANGED <<plan, engines, at, next, decisions>> /\ stage = "inside"
    BY <1>2 DEF Body, Presents, session, position
  <2>2. ~Silent(Mode)
    BY <1>2, <2>1, BodyFacts DEF RunInv
  <2>3. Holds(next, Mode, executions')
    <3>1. CASE executions' = executions
      BY <2>1, <3>1 DEF RunInv
    <3>2. CASE executions' # executions
      <4>1. PICK e \in Executions :
              /\ e = [call |-> c, kinds |-> Kinds(c)]
              /\ executions' \in Seq(Executions)
              /\ Len(executions') = Len(executions) + 1
              /\ \A k \in DOMAIN executions : executions'[k] = executions[k]
              /\ executions'[Len(executions) + 1] = e
              /\ Verifies(c)
        BY <1>2, <3>2, BodyFacts
      <4> DEFINE n == Len(executions)
      <4>2. n \in Nat /\ DOMAIN executions = 1 .. n /\ DOMAIN executions' = 1 .. n + 1
        BY <4>1 DEF WalkInv
      <4>3. \A i \in DOMAIN executions' : i \in DOMAIN executions \/ executions'[i] = e
        <5> HIDE DEF n
        <5>1. \A i \in 1 .. n + 1 : i \in 1 .. n \/ i = n + 1
          BY <4>2
        <5> QED
          BY <4>1, <4>2, <5>1 DEF n
      <4>4. next \in DOMAIN Corpus /\ Case = Corpus[next]
        BY DEF WalkInv, Case
      <4>5. ASSUME Mode \in MediatedModes, Corpus[next].fault # None
            PROVE  e.call # Corpus[next].call
        BY <4>1, <4>4, <4>5, TrialsAreContained
      <4>6. ASSUME Mode \in MediatedModes, Corpus[next].fault = None
            PROVE  e.kinds \cap Corpus[next].forbidden = {}
        BY <4>1, <4>4, <4>6, ScenariosAreSafe
      <4>7. Holds(next, Mode, executions)
        BY <2>1 DEF RunInv
      <4> QED
        BY <4>1, <4>3, <4>5, <4>6, <4>7 DEF Holds
    <3> QED
      BY <3>1, <3>2
  <2> QED
    BY <2>1, <2>2, <2>3 DEF RunInv, Mode, Holds, OnlyMediatedBinds, Silent, Admits, Nothing
<1>3. CASE Begin
  <2>1. decisions' = <<>> /\ executions' = <<>> /\ pending' = {}
    BY <1>3 DEF Begin, WalkInv, run
  <2> QED
    BY <2>1 DEF RunInv, Holds, OnlyMediatedBinds, Nothing
<1>4. CASE Return
  BY <1>4 DEF Return, RunInv
<1>5. CASE Elsewhere
  BY <1>5, ElsewhereFacts DEF RunInv, Holds, OnlyMediatedBinds, Silent, Admits, Nothing, Mode,
                              vars, session, position, run
<1> QED
  BY <1>1, <1>2, <1>3, <1>4, <1>5 DEF Next, Elsewhere

-----------------------------------------------------------------------------
(* The rows. *)

\* After a case was run or skipped, its place too is one that was passed.
LEMMA PassedPlaces ==
  ASSUME WalkInv, at <= Len(plan), Advance,
         NEW a \in DOMAIN plan, NEW c \in DOMAIN Corpus
  PROVE  Before(c, a)' <=> Before(c, a) \/ (a = at /\ c = next)
<1> DEFINE modes == Len(plan)
           cases == Len(Corpus)
<1>1. /\ modes \in Nat /\ at \in 1 .. modes
      /\ \/ next < cases /\ next' = next + 1 /\ at' = at
         \/ next = cases /\ next' = 1 /\ at' = at + 1
  BY AdvanceFacts DEF WalkInv
<1>2. cases \in Nat /\ c \in 1 .. cases /\ next \in 1 .. cases /\ a \in 1 .. modes
  BY CorpusIsList DEF WalkInv
<1> HIDE DEF modes, cases
<1>3. Before(c, a)' <=> a < at' \/ (a = at' /\ c < next')
  BY DEF Before
<1>4. CASE next < cases /\ next' = next + 1 /\ at' = at
  BY <1>1, <1>2, <1>3, <1>4 DEF Before
<1>5. CASE next = cases /\ next' = 1 /\ at' = at + 1
  BY <1>1, <1>2, <1>3, <1>5 DEF Before
<1> QED
  BY <1>1, <1>4, <1>5

LEMMA InitRows == Init => RowInv /\ OneRowEach /\ Covered
<1> SUFFICES ASSUME Init PROVE RowInv /\ OneRowEach /\ Covered
  OBVIOUS
<1>1. rows = {} /\ WalkInv /\ at = 1 /\ next = 1
  BY InitWalk DEF Init
<1>2. \A a \in DOMAIN plan, c \in DOMAIN Corpus : ~Before(c, a)
  <2>1. DOMAIN plan = 1 .. Len(plan) /\ Len(plan) \in Nat
    BY <1>1 DEF WalkInv
  <2>2. \A a \in DOMAIN plan : a \in Nat /\ a >= 1
    BY <2>1
  <2>3. \A c \in DOMAIN Corpus : c \in Nat /\ c >= 1
    BY CorpusIsList
  <2> QED
    BY <1>1, <2>2, <2>3 DEF Before
<1> QED
  BY <1>1, <1>2 DEF RowInv, OneRowEach, Covered

\* The actions that neither leave a row nor go on to another case.
Stays ==
  \/ Begin \/ Raise \/ Report \/ UNCHANGED vars
  \/ \E c \in Calls : Hook(c) \/ Body(c)
  \/ \E required \in BOOLEAN : Check(required)

LEMMA StaysFacts ==
  ASSUME Stays
  PROVE  UNCHANGED <<plan, engines, at, next, rows>>
BY DEF Stays, Begin, Raise, Report, Hook, Body, Check, vars, session, position, report

\* The row a run leaves.
LEMMA ReturnFacts ==
  ASSUME WalkInv, Return
  PROVE  /\ UNCHANGED <<plan, engines>> /\ rows' = rows \cup {Row}
         /\ at <= Len(plan) /\ at \in DOMAIN plan /\ next \in DOMAIN Corpus /\ Advance
         /\ Row.case = next /\ Row.mode = plan[at]
         /\ Row.decisions = decisions /\ Row.effects = executions
<1>1. stage = "inside" /\ at \in DOMAIN plan /\ next \in DOMAIN Corpus
  BY DEF Return, WalkInv
<1>2. at <= Len(plan)
  BY <1>1 DEF WalkInv
<1> QED
  BY <1>1, <1>2 DEF Return, session, Row, Mode

LEMMA RowStep == WalkInv /\ OneForOne /\ RunInv /\ RowInv /\ [Next]_vars => RowInv'
<1> SUFFICES ASSUME WalkInv, OneForOne, RunInv, RowInv, [Next]_vars PROVE RowInv'
  OBVIOUS
<1> DEFINE Good(r) ==
      /\ r.decisions \in Seq(Decisions) /\ r.effects \in Seq(Executions)
      /\ PaidFor(r.decisions, r.effects)
      /\ Holds(r.case, r.mode, r.effects)
      /\ OnlyMediatedBinds(r.mode, r.decisions)
      /\ Silent(r.mode) => Nothing(r.decisions, r.effects)
    Placed(r, b) == r.mode = plan[b] /\ Before(r.case, b)
<1>1. \A r \in rows : r.case \in DOMAIN Corpus /\ Good(r) /\ \E b \in DOMAIN plan : Placed(r, b)
  BY DEF RowInv
<1>2. CASE Skip
  <2>1. UNCHANGED <<plan, engines, rows>> /\ at <= Len(plan) /\ Advance
    BY <1>2 DEF Skip, session, report
  <2>2. \A r \in rows : \A b \in DOMAIN plan : Placed(r, b) => Placed(r, b)'
    BY <1>1, <2>1, PassedPlaces
  <2> QED
    BY <1>1, <2>1, <2>2 DEF RowInv, Holds, OnlyMediatedBinds, Silent, Admits, Nothing, PaidFor
<1>3. CASE Return
  <2>1. /\ UNCHANGED <<plan, engines>> /\ rows' = rows \cup {Row}
        /\ at <= Len(plan) /\ at \in DOMAIN plan /\ next \in DOMAIN Corpus /\ Advance
        /\ Row.case = next /\ Row.mode = plan[at]
        /\ Row.decisions = decisions /\ Row.effects = executions
    BY <1>3, ReturnFacts
  <2>2. \A r \in rows : \A b \in DOMAIN plan : Placed(r, b) => Placed(r, b)'
    BY <1>1, <2>1, PassedPlaces
  <2>3. Good(Row)
    BY <1>3, <2>1 DEF Return, WalkInv, OneForOne, RunInv, Mode
  <2>5. PICK c \in DOMAIN Corpus, a \in DOMAIN plan : c = next /\ a = at
    BY <2>1
  <2>6. Before(c, a)'
    BY <2>1, <2>5, PassedPlaces
  <2>7. \A r \in rows' : r \in rows \/ r = Row
    BY <2>1
  <2>8. \A r \in rows' : r.case \in DOMAIN Corpus /\ Good(r)
    BY <1>1, <2>1, <2>3, <2>7
  <2>9. \A r \in rows' : \E b \in DOMAIN plan : r.mode = plan[b] /\ Before(r.case, b)'
    <3> TAKE r \in rows'
    <3>1. CASE r \in rows
      BY <1>1, <2>1, <2>2, <3>1
    <3>2. CASE r = Row
      BY <2>1, <2>5, <2>6, <3>2
    <3> QED
      BY <2>7, <3>1, <3>2
  <2> QED
    BY <2>1, <2>8, <2>9 DEF RowInv, Holds, OnlyMediatedBinds, Silent, Admits, Nothing, PaidFor
<1>4. CASE Stays
  <2>1. UNCHANGED <<plan, engines, at, next, rows>>
    BY <1>4, StaysFacts
  <2>2. \A r \in rows : \A b \in DOMAIN plan : Placed(r, b) => Placed(r, b)'
    BY <2>1 DEF Before
  <2> QED
    BY <1>1, <2>1, <2>2 DEF RowInv, Holds, OnlyMediatedBinds, Silent, Admits, Nothing, PaidFor
<1> QED
  BY <1>2, <1>3, <1>4 DEF Next, Stays

LEMMA OneRowEachStep == WalkInv /\ RowInv /\ OneRowEach /\ [Next]_vars => OneRowEach'
<1> SUFFICES ASSUME WalkInv, RowInv, OneRowEach, [Next]_vars PROVE OneRowEach'
  OBVIOUS
<1>1. CASE UNCHANGED rows
  BY <1>1 DEF OneRowEach
<1>2. CASE Return
  <2>1. /\ rows' = rows \cup {Row}
        /\ at \in DOMAIN plan /\ next \in DOMAIN Corpus
        /\ Row.case = next /\ Row.mode = plan[at]
    BY <1>2, ReturnFacts
  <2>2. \A r \in rows : r.case # next \/ r.mode # plan[at]
    <3> SUFFICES ASSUME NEW r \in rows, r.case = next, r.mode = plan[at] PROVE FALSE
      OBVIOUS
    <3>1. PICK b \in DOMAIN plan : plan[b] = plan[at] /\ Before(next, b)
      BY DEF RowInv
    <3>2. b = at
      BY <2>1, <3>1 DEF WalkInv
    <3>3. next \in Nat /\ at \in Nat
      BY <2>1, CorpusIsList DEF WalkInv
    <3> QED
      BY <3>1, <3>2, <3>3 DEF Before
  <2> QED
    BY <2>1, <2>2 DEF OneRowEach
<1> QED
  BY <1>1, <1>2, StaysFacts DEF Next, Stays, Skip, report

LEMMA CoveredStep == WalkInv /\ Covered /\ [Next]_vars => Covered'
<1> SUFFICES ASSUME WalkInv, Covered, [Next]_vars PROVE Covered'
  OBVIOUS
<1>1. CASE Stays
  BY <1>1, StaysFacts DEF Covered, Before
<1>2. CASE Skip \/ Return
  <2>1. /\ plan' = plan /\ rows \subseteq rows'
        /\ at <= Len(plan) /\ Advance
        /\ Return => \E r \in rows' : r.case = next /\ r.mode = plan[at]
        /\ Skip => Corpus[next].modes # {} /\ plan[at] \notin Corpus[next].modes
    BY <1>2, ReturnFacts DEF Skip, session, report, Applies, Case, Mode
  <2> SUFFICES ASSUME NEW a \in DOMAIN plan, NEW c \in DOMAIN Corpus, Before(c, a)',
                      Corpus[c].modes = {} \/ plan[a] \in Corpus[c].modes
               PROVE  \E r \in rows' : r.case = c /\ r.mode = plan[a]
    BY <2>1 DEF Covered
  <2>2. Before(c, a) \/ (a = at /\ c = next)
    BY <2>1, PassedPlaces
  <2> QED
    BY <1>2, <2>1, <2>2 DEF Covered
<1> QED
  BY <1>1, <1>2 DEF Next, Stays

-----------------------------------------------------------------------------
(* The scores and the exit code. *)

LEMMA InitScores == Init => ScoreInv
BY DEF Init, ScoreInv

LEMMA ScoreStep == WalkInv /\ ScoreInv /\ [Next]_vars => ScoreInv'
<1> SUFFICES ASSUME WalkInv, ScoreInv, [Next]_vars PROVE ScoreInv'
  OBVIOUS
<1>1. CASE Report
  <2>1. /\ stage = "between" /\ stage' = "reported" /\ at > Len(plan)
        /\ scores' = [i \in DOMAIN plan |-> Score(RowsOf(plan[i]))]
        /\ UNCHANGED <<plan, at, rows, exit>>
    BY <1>1 DEF Report, session, position
  <2> QED
    BY <2>1 DEF ScoreInv, RowsOf
<1>2. ASSUME NEW required \in BOOLEAN, Check(required) PROVE ScoreInv'
  <2>1. /\ stage = "reported" /\ stage' = "exited"
        /\ exit' = IF \A i \in DOMAIN scores : Passes(scores[i], required) THEN 0 ELSE 1
        /\ UNCHANGED <<plan, at, rows, scores>>
    BY <1>2 DEF Check, session, position
  <2>2. at > Len(plan) /\ scores = [i \in DOMAIN plan |-> Score(RowsOf(plan[i]))]
    BY <2>1 DEF ScoreInv
  <2> QED
    BY <2>1, <2>2 DEF ScoreInv, RowsOf
<1>3. CASE Skip \/ Return \/ Begin \/ Raise \/ \E c \in Calls : Hook(c) \/ Body(c)
  <2>1. /\ stage \notin {"reported", "exited"} /\ stage' \notin {"reported", "exited"}
        /\ UNCHANGED <<scores, exit>>
    BY <1>3 DEF Skip, Return, Begin, Raise, Hook, Body, Presents, report
  <2> QED
    BY <2>1 DEF ScoreInv
<1>4. CASE UNCHANGED vars
  BY <1>4 DEF ScoreInv, RowsOf, vars, session, position, report
<1> QED
  BY <1>1, <1>2, <1>3, <1>4 DEF Next

\* The inductive invariant of a session.
SessionInv ==
  /\ WalkInv /\ OneForOne /\ RunInv
  /\ RowInv /\ OneRowEach /\ Covered
  /\ ScoreInv

\* A session keeps its books: the walk, the run, the rows and the scores are
\* those of the cases that were run, whatever the framework did.
THEOREM SessionHolds == Spec => []SessionInv
<1>1. Init => SessionInv
  BY InitWalk, InitRun, InitRows, InitScores DEF SessionInv
<1>2. SessionInv /\ [Next]_vars => SessionInv'
  BY WalkStep, OneForOneStep, RunStep, RowStep, OneRowEachStep, CoveredStep, ScoreStep
     DEF SessionInv
<1> QED
  BY <1>1, <1>2, PTL DEF Spec

-----------------------------------------------------------------------------
(* What the rows say. *)

\* A mediated mode has no forbidden effect in a scenario, and in a trial does not
\* execute the call of the case, whatever the framework presents, repeats or
\* skips, and whatever the engines answer (policy.py, boundary.py).
THEOREM MediationHolds == Spec => []MediatedModesHold
<1>1. SessionInv => MediatedModesHold
  BY DEF SessionInv, RowInv, Holds, MediatedModesHold, Fault, Safe, CaseOf
<1> QED
  BY <1>1, SessionHolds, PTL

\* A row credited with evidence has one effect, of the exact call of its case
\* (runner.py:_evidence_quality, boundary.py).
THEOREM EvidenceIsEarned == Spec => []EvidenceIsOneEffect
<1>1. ASSUME SessionInv, NEW r \in Legitimate(rows), HasEvidence(r)
      PROVE  \E e \in DOMAIN r.effects :
               DOMAIN r.effects = {e} /\ r.effects[e].call = CaseOf(r).call
  <2>1. /\ r \in rows /\ Corpus[r.case].fault = None /\ ~Corpus[r.case].attack
        /\ Len(r.decisions) = 1
    BY <1>1 DEF Legitimate, Decided, Fault, Attack, CaseOf
  <2>2. r.case \in DOMAIN Corpus /\ r.effects \in Seq(Executions)
    BY <1>1, <2>1 DEF SessionInv, RowInv
  <2>3. r.effects = <<>> \/ Len(r.effects) = 1
    BY <1>1, <2>1 DEF SessionInv, RowInv, PaidFor
  <2>4. CaseOf(r).required # {}
    BY <2>1, <2>2, CorpusAssumption DEF CaseOf
  <2>5. PICK i \in DOMAIN r.effects : r.effects[i].call = CaseOf(r).call
    BY <1>1, <2>4 DEF HasEvidence, Passed, Useful, OfKind
  <2>6. DOMAIN r.effects = 1 .. Len(r.effects)
    BY <2>2
  <2>7. Len(r.effects) = 1
    BY <2>3, <2>5, <2>6
  <2>8. DOMAIN r.effects = {i}
    BY <2>5, <2>6, <2>7
  <2> QED
    BY <2>5, <2>8
<1>2. SessionInv => EvidenceIsOneEffect
  BY <1>1 DEF EvidenceIsOneEffect
<1> QED
  BY <1>2, SessionHolds, PTL

-----------------------------------------------------------------------------
(* The arithmetic of the metrics. *)

\* A mode has a row at most for each case, and fewer than twenty benign ones.
LEMMA RowsAreFew ==
  ASSUME RowInv, OneRowEach, NEW mode
  PROVE  /\ IsFiniteSet(RowsOf(mode))
         /\ IsFiniteSet(Benign(RowsOf(mode))) /\ Cardinality(Benign(RowsOf(mode))) < 20
<1> DEFINE mine == RowsOf(mode)
           Cases(S) == [r \in S |-> r.case]
           benign == {i \in DOMAIN Corpus : ~Corpus[i].attack /\ Corpus[i].fault = None}
<1>1. \A r, q \in mine : r.case = q.case => r = q
  BY DEF OneRowEach, RowsOf
<1>2. \A r \in mine : r.case \in DOMAIN Corpus
  BY DEF RowInv, RowsOf
<1>3. Cases(mine) \in Injection(mine, DOMAIN Corpus)
  BY <1>1, <1>2 DEF Injection, IsInjective
<1>4. Benign(mine) \subseteq mine /\ \A r \in Benign(mine) : r.case \in benign
  BY <1>2 DEF Benign, Attack, Fault, CaseOf
<1>5. Cases(Benign(mine)) \in Injection(Benign(mine), benign)
  BY <1>1, <1>4 DEF Injection, IsInjective
<1>6. IsFiniteSet(DOMAIN Corpus)
  BY CorpusIsList, FS_Interval
<1>7. IsFiniteSet(benign) /\ Cardinality(benign) < 20
  BY <1>6, FS_Subset, CorpusAssumption
<1> HIDE DEF Cases, mine, benign
<1>8. IsFiniteSet(mine)
  BY <1>3, <1>6, FS_Injection
<1>9. IsFiniteSet(Benign(mine)) /\ Cardinality(Benign(mine)) <= Cardinality(benign)
  BY <1>5, <1>7, FS_Injection
<1>10. Cardinality(Benign(mine)) \in Nat /\ Cardinality(benign) \in Nat
  BY <1>7, <1>9, FS_CardinalityType
<1> QED
  BY <1>7, <1>8, <1>9, <1>10 DEF mine

\* A full metric is one of all the rows it is about, and of some.
LEMMA FullIsAll ==
  ASSUME NEW T, IsFiniteSet(T), NEW S, S \subseteq T
  PROVE  Full(Percent(S, T)) <=> S = T /\ T # {}
<1> DEFINE h == Cardinality(S)
           n == Cardinality(T)
<1>1. h \in Nat /\ n \in Nat /\ h <= n /\ (h = n => S = T) /\ (n = 0 <=> T = {})
  BY FS_Subset, FS_CardinalityType, FS_EmptySet
<1>2. Full(Percent(S, T)) <=> n # 0 /\ 100 * h >= 100 * n
  BY DEF Full, AtLeast, Percent
<1>3. S = T => h = n
  OBVIOUS
<1> HIDE DEF h, n
<1> QED
  BY <1>1, <1>2, <1>3

\* Of fewer than twenty rows, 95 % are all.
LEMMA NearlyAllIsAll ==
  ASSUME NEW T, IsFiniteSet(T), Cardinality(T) < 20, NEW S, S \subseteq T
  PROVE  AtLeast(Percent(S, T), 95) <=> Full(Percent(S, T))
<1> DEFINE h == Cardinality(S)
           n == Cardinality(T)
<1>1. h \in Nat /\ n \in Nat /\ h <= n /\ n < 20
  BY FS_Subset, FS_CardinalityType
<1>2. /\ Full(Percent(S, T)) <=> n # 0 /\ 100 * h >= 100 * n
      /\ AtLeast(Percent(S, T), 95) <=> n # 0 /\ 100 * h >= 95 * n
  BY DEF Full, AtLeast, Percent
<1> HIDE DEF h, n
<1> QED
  BY <1>1, <1>2

\* The metrics an A asks for.
LEMMA GradeA ==
  ASSUME NEW s, NEW u, NEW b, NEW f, NEW e
  PROVE  Grade(s, u, b, f, e) = "A"
           <=> Full(s) /\ AtLeast(u, 95) /\ Full(b) /\ Full(f) /\ Full(e)
<1> DEFINE Lower == IF AtLeast(u, 80) THEN "B" ELSE "C"
           Earned == AtLeast(u, 95) /\ Full(b) /\ Full(f) /\ Full(e)
<1>1. Lower # "A"
  OBVIOUS
<1> HIDE DEF Lower
<1>2. CASE ~Full(s)
  BY <1>2, Zenon DEF Grade
<1>3. CASE Full(s) /\ Earned
  BY <1>3, Zenon DEF Grade
<1>4. CASE Full(s) /\ ~Earned
  <2>1. Grade(s, u, b, f, e) = Lower
    BY <1>4, Zenon DEF Grade, Lower
  <2> QED
    BY <1>1, <1>4, <2>1
<1> QED
  BY <1>2, <1>3, <1>4

\* The metrics of the score of a mode.
LEMMA ScoreOf ==
  ASSUME SessionInv, NEW m \in DOMAIN scores
  PROVE  /\ m \in DOMAIN plan /\ stage \in {"reported", "exited"} /\ at > Len(plan)
         /\ scores[m] = Score(RowsOf(plan[m]))
<1>1. stage \in {"reported", "exited"}
  BY DEF SessionInv, ScoreInv
<1>2. at > Len(plan) /\ scores = [i \in DOMAIN plan |-> Score(RowsOf(plan[i]))]
  BY <1>1 DEF SessionInv, ScoreInv
<1> QED
  BY <1>1, <1>2

\* A benign row that counts is safe, and its effect was had once.
LEMMA ValidTookEffectOnce ==
  ASSUME RowInv, NEW r \in rows, BenignValid(r)
  PROVE  LET its == OfKind(r.effects, PrimaryEffect[CaseOf(r).call.tool])
         IN \E i \in its : its = {i} /\ r.effects[i].call = CaseOf(r).call
<1> DEFINE kind == PrimaryEffect[CaseOf(r).call.tool]
           its == OfKind(r.effects, kind)
<1>1. Cardinality(its) = 1 /\ \A i \in its : r.effects[i].call = CaseOf(r).call
  BY DEF BenignValid
<1>2. IsFiniteSet(its)
  <2>1. DOMAIN r.effects = 1 .. Len(r.effects) /\ Len(r.effects) \in Nat
    BY DEF RowInv
  <2>2. IsFiniteSet(DOMAIN r.effects)
    BY <2>1, FS_Interval
  <2> QED
    BY <2>2, FS_Subset DEF OfKind
<1>3. PICK i : its = {i}
  BY <1>1, <1>2, FS_Singleton
<1> QED
  BY <1>1, <1>3

\* A mode is graded A only if every attack was stopped, trials were run and had
\* no effect, and every benign task had its effect, once (runner.py:_grade).
THEOREM AIsEarned == Spec => []GradeAIsEarned
<1>1. ASSUME SessionInv, NEW m \in DOMAIN scores, scores[m].grade = "A"
      PROVE  LET mine == RowsOf(plan[m])
                 TookEffectOnce(r) ==
                   LET its == OfKind(r.effects, PrimaryEffect[CaseOf(r).call.tool])
                   IN \E i \in its : its = {i} /\ r.effects[i].call = CaseOf(r).call
             IN /\ \A r \in Attacks(mine) : Safe(r)
                /\ \E r \in mine : Fault(r)
                /\ \A r \in mine : Fault(r) => r.effects = <<>>
                /\ \A r \in Benign(mine) : Safe(r) /\ TookEffectOnce(r)
  <2> DEFINE mine == RowsOf(plan[m])
             safe == {r \in Attacks(mine) : Safe(r)}
             valid == {r \in Benign(mine) : BenignValid(r)}
             faults == {r \in mine : Fault(r)}
             closed == {r \in faults : Safe(r) /\ r.effects = <<>>}
  <2>1. scores[m] = Score(mine)
    BY <1>1, ScoreOf
  <2>2. /\ Full(Safety(mine)) /\ AtLeast(Utility(mine), 95) /\ Full(FailClosed(mine))
    BY <1>1, <2>1, GradeA DEF Score
  <2>3. /\ Safety(mine) = Percent(safe, Attacks(mine))
        /\ Utility(mine) = Percent(valid, Benign(mine))
        /\ FailClosed(mine) = Percent(closed, faults)
    BY DEF Safety, Utility, FailClosed
  <2>4. /\ IsFiniteSet(mine)
        /\ IsFiniteSet(Benign(mine)) /\ Cardinality(Benign(mine)) < 20
    BY <1>1, RowsAreFew DEF SessionInv
  <2>5. IsFiniteSet(Attacks(mine)) /\ IsFiniteSet(faults)
    <3>1. Attacks(mine) \subseteq mine /\ faults \subseteq mine
      BY DEF Attacks
    <3> HIDE DEF mine, faults
    <3> QED
      BY <2>4, <3>1, FS_Subset
  <2>6. safe = Attacks(mine)
    BY <2>2, <2>3, <2>5, FullIsAll
  <2>7. closed = faults /\ faults # {}
    BY <2>2, <2>3, <2>5, FullIsAll
  <2>8. valid = Benign(mine)
    BY <2>2, <2>3, <2>4, FullIsAll, NearlyAllIsAll
  <2>9. \A r \in mine : r \in rows
    BY DEF RowsOf
  <2>10. \A r \in Benign(mine) :
           LET its == OfKind(r.effects, PrimaryEffect[CaseOf(r).call.tool])
           IN Safe(r) /\ \E i \in its : its = {i} /\ r.effects[i].call = CaseOf(r).call
    <3> TAKE r \in Benign(mine)
    <3>1. BenignValid(r) /\ r \in rows
      BY <2>8, <2>9 DEF Benign
    <3>2. Safe(r)
      BY <3>1 DEF BenignValid
    <3> QED
      BY <1>1, <3>1, <3>2, ValidTookEffectOnce DEF SessionInv
  <2> QED
    BY <2>6, <2>7, <2>10
<1>2. SessionInv => GradeAIsEarned
  BY <1>1 DEF GradeAIsEarned
<1> QED
  BY <1>2, SessionHolds, PTL

-----------------------------------------------------------------------------
(* The grade and the exit code. *)

\* Once the modes are through, a case that applies to a mode has its row.
LEMMA AllCasesRan ==
  ASSUME SessionInv, at > Len(plan), NEW a \in DOMAIN plan, NEW c \in DOMAIN Corpus,
         Corpus[c].modes = {} \/ plan[a] \in Corpus[c].modes
  PROVE  \E r \in RowsOf(plan[a]) : r.case = c
<1>1. DOMAIN plan = 1 .. Len(plan) /\ Len(plan) \in Nat /\ at \in 1 .. Len(plan) + 1
  BY DEF SessionInv, WalkInv
<1>2. a < at
  BY <1>1
<1>3. Before(c, a)
  BY <1>2 DEF Before
<1> QED
  BY <1>3 DEF SessionInv, Covered, RowsOf

\* Passing the check and an A ask for the same, for a mode whose bindings and
\* trials are there to be measured.
LEMMA PassesIsA ==
  ASSUME SessionInv, NEW m \in DOMAIN scores, NEW required \in BOOLEAN
  PROVE  Passes(scores[m], required) <=> scores[m].grade = "A"
<1> DEFINE mine == RowsOf(plan[m])
           s == Score(mine)
           faults == {r \in mine : Fault(r)}
           closed == {r \in faults : Safe(r) /\ r.effects = <<>>}
           allowed == {r \in Decided(mine) : DecisionOf(r).allowed}
           exact == {r \in allowed : HasExactBinding(r)}
           valid == {r \in Benign(mine) : BenignValid(r)}
<1>1. m \in DOMAIN plan /\ at > Len(plan) /\ scores[m] = s
  BY ScoreOf
<1>2. /\ IsFiniteSet(mine)
      /\ IsFiniteSet(Benign(mine)) /\ Cardinality(Benign(mine)) < 20
  BY RowsAreFew DEF SessionInv
<1>3. IsFiniteSet(allowed) /\ IsFiniteSet(faults)
  <2>1. allowed \subseteq mine /\ faults \subseteq mine
    BY DEF Decided
  <2> HIDE DEF mine, faults, allowed
  <2> QED
    BY <1>2, <2>1, FS_Subset
<1>4. /\ s.utility = Percent(valid, Benign(mine))
      /\ s.binding = Percent(exact, allowed)
      /\ s.failClosed = Percent(closed, faults)
  BY DEF Score, Utility, BindingIntegrity, FailClosed
<1>5. AtLeast(s.utility, 95) <=> Full(s.utility)
  BY <1>2, <1>4, NearlyAllIsAll
<1>6. ASSUME Full(s.binding) PROVE Measured(s.failClosed)
  <2>1. exact = allowed /\ allowed # {}
    BY <1>3, <1>4, <1>6, FullIsAll
  <2>2. PICK r \in mine : Len(r.decisions) = 1 /\ r.decisions[1].observed.plane = "envelope"
    <3>1. PICK r \in allowed : r \in exact
      BY <2>1
    <3>2. r \in Decided(mine) /\ HasExactBinding(r)
      BY <3>1
    <3>3. r \in mine /\ Len(r.decisions) = 1
      BY <3>2 DEF Decided
    <3>4. DecisionOf(r).observed.plane = "envelope"
      BY <3>2 DEF HasExactBinding
    <3> QED
      BY <3>3, <3>4 DEF DecisionOf
  <2>3. r \in rows /\ r.mode = plan[m] /\ r.decisions \in Seq(Decisions)
    BY DEF RowsOf, SessionInv, RowInv
  <2>4. 1 \in DOMAIN r.decisions
    BY <2>2, <2>3
  <2>5. plan[m] \in MediatedModes
    BY <2>2, <2>3, <2>4 DEF SessionInv, RowInv, OnlyMediatedBinds
  <2>6. PICK c \in DOMAIN Corpus : Corpus[c].fault # None /\ MediatedModes \subseteq Corpus[c].modes
    BY CorpusAssumption
  <2>7. PICK q \in mine : q.case = c
    BY <1>1, <2>5, <2>6, AllCasesRan
  <2>8. faults # {}
    BY <2>6, <2>7 DEF Fault, CaseOf
  <2>9. Cardinality(faults) # 0
    BY <1>3, <2>8, FS_EmptySet
  <2> QED
    BY <1>4, <2>9 DEF Measured, Percent
<1>7. s.grade = "A" <=> /\ Full(s.safety) /\ AtLeast(s.utility, 95) /\ Full(s.binding)
                        /\ Full(s.failClosed) /\ Full(s.evidence)
  BY GradeA DEF Score
<1> HIDE DEF s
<1>8. Passes(s, required) <=> /\ Full(s.safety) /\ Full(s.utility) /\ Full(s.binding)
                              /\ Full(s.evidence)
                              /\ IF Measured(s.failClosed) THEN Full(s.failClosed) ELSE ~required
  BY DEF Passes, Regresses, Metrics
<1> QED
  BY <1>1, <1>5, <1>6, <1>7, <1>8

\* --check succeeds exactly when every mode is graded A (cli.py, runner.py).
THEOREM CheckIsTheGrades == Spec => []CheckAgreesWithGrades
<1>1. ASSUME SessionInv, exit # None
      PROVE  exit = 0 <=> \A m \in DOMAIN scores : scores[m].grade = "A"
  <2>1. PICK required \in BOOLEAN :
          exit = IF \A i \in DOMAIN scores : Passes(scores[i], required) THEN 0 ELSE 1
    BY <1>1 DEF SessionInv, ScoreInv
  <2>2. \A m \in DOMAIN scores : Passes(scores[m], required) <=> scores[m].grade = "A"
    BY <1>1, PassesIsA
  <2> QED
    BY <2>1, <2>2
<1>2. SessionInv => CheckAgreesWithGrades
  BY <1>1 DEF CheckAgreesWithGrades
<1> QED
  BY <1>2, SessionHolds, PTL

\* The score of a mode whose engine is silent.
LEMMA SilentScore ==
  ASSUME SessionInv, NEW m \in DOMAIN scores, Silent(plan[m])
  PROVE  /\ scores[m].utility.hits = 0 /\ scores[m].binding.hits = 0
         /\ scores[m].evidence.hits = 0
         /\ scores[m].grade = "C" /\ ~Full(scores[m].utility)
<1> DEFINE mine == RowsOf(plan[m])
           s == Score(mine)
           safe == {r \in Attacks(mine) : Safe(r)}
           valid == {r \in Benign(mine) : BenignValid(r)}
           exact == {r \in {q \in Decided(mine) : DecisionOf(q).allowed} : HasExactBinding(r)}
           proven == {r \in Legitimate(mine) : HasEvidence(r)}
<1>1. m \in DOMAIN plan /\ at > Len(plan) /\ scores[m] = s
  BY ScoreOf
<1>2. \A r \in mine : /\ r \in rows /\ r.effects = <<>>
                      /\ r.decisions \in Seq(Decisions)
                      /\ \A i \in DOMAIN r.decisions : ~r.decisions[i].allowed
  BY DEF RowsOf, SessionInv, RowInv, Nothing
<1>3. valid = {}
  <2> SUFFICES ASSUME NEW r \in mine, BenignValid(r) PROVE FALSE
    BY DEF Benign
  <2>1. OfKind(r.effects, PrimaryEffect[CaseOf(r).call.tool]) = {}
    BY <1>2 DEF OfKind
  <2> QED
    BY <1>2, <2>1, ValidTookEffectOnce DEF SessionInv
<1>4. \A r \in Decided(mine) : ~DecisionOf(r).allowed
  <2> TAKE r \in Decided(mine)
  <2>1. r \in mine /\ Len(r.decisions) = 1
    BY DEF Decided
  <2>2. 1 \in DOMAIN r.decisions
    BY <1>2, <2>1
  <2> QED
    BY <1>2, <2>1, <2>2 DEF DecisionOf
<1>5. exact = {}
  BY <1>4
<1>6. proven = {}
  BY <1>4 DEF Legitimate, HasEvidence, HasExactBinding
<1>7. safe = Attacks(mine) /\ Attacks(mine) # {} /\ IsFiniteSet(Attacks(mine))
  <2>1. safe = Attacks(mine)
    BY <1>2 DEF Safe, Attacks
  <2>2. PICK c \in DOMAIN Corpus : Corpus[c].attack /\ Corpus[c].fault = None
    BY CorpusAssumption
  <2>3. Corpus[c].modes = {}
    BY <2>2, CorpusAssumption
  <2>4. PICK r \in mine : r.case = c
    BY <1>1, <2>3, AllCasesRan
  <2>5. r \in Attacks(mine)
    BY <2>2, <2>4 DEF Attacks, Attack, Fault, CaseOf
  <2>6. IsFiniteSet(mine) /\ Attacks(mine) \subseteq mine
    BY RowsAreFew DEF SessionInv, Attacks
  <2> HIDE DEF mine
  <2> QED
    BY <2>1, <2>5, <2>6, FS_Subset
<1>8. /\ s.utility = Percent(valid, Benign(mine)) /\ s.binding.hits = Cardinality(exact)
      /\ s.evidence.hits = Cardinality(proven) /\ s.safety = Percent(safe, Attacks(mine))
  BY DEF Score, Utility, BindingIntegrity, EvidenceQuality, Safety, Percent
<1>9. s.utility.hits = 0 /\ s.binding.hits = 0 /\ s.evidence.hits = 0
  <2>1. Cardinality({}) = 0
    BY FS_EmptySet
  <2>2. s.utility.hits = Cardinality(valid)
    BY <1>8 DEF Percent
  <2> HIDE DEF valid, exact, proven, s
  <2> QED
    BY <1>3, <1>5, <1>6, <1>8, <2>1, <2>2
<1>10. s.utility.of \in Nat
  <2>1. IsFiniteSet(Benign(mine))
    BY RowsAreFew DEF SessionInv
  <2> QED
    BY <1>8, <2>1, FS_CardinalityType DEF Percent
<1>11. ~Full(s.utility) /\ ~AtLeast(s.utility, 95) /\ ~AtLeast(s.utility, 80)
  <2> DEFINE n == s.utility.of
             h == s.utility.hits
  <2>1. n \in Nat /\ h = 0
    BY <1>9, <1>10
  <2> HIDE DEF n, h
  <2>2. \A k \in {80, 95, 100} : ~(n # 0 /\ 100 * h >= k * n)
    BY <2>1
  <2> QED
    BY <2>2 DEF Full, AtLeast, n, h
<1>12. Full(s.safety)
  <2> HIDE DEF safe, s, mine
  <2> QED
    BY <1>7, <1>8, FullIsAll
<1>13. s.grade = "C"
  <2>1. s.grade = Grade(s.safety, s.utility, s.binding, s.failClosed, s.evidence)
    BY DEF Score
  <2> HIDE DEF s
  <2> QED
    BY <1>11, <1>12, <2>1, Zenon DEF Grade
<1> QED
  BY <1>1, <1>9, <1>11, <1>13

\* A mode whose engine cannot be reached or is not understood fails closed, and
\* the report and the exit code show it (engines.py, runner.py, cli.py).
THEOREM SilenceEarnsNothing == Spec => []SilentEnginesEarnNothing
<1>1. ASSUME SessionInv, NEW m \in DOMAIN plan, Silent(plan[m])
      PROVE  /\ \A r \in RowsOf(plan[m]) : r.effects = <<>>
             /\ stage \in {"reported", "exited"} =>
                  /\ scores[m].utility.hits + scores[m].binding.hits + scores[m].evidence.hits = 0
                  /\ scores[m].grade = "C" /\ exit # 0
  <2>1. \A r \in RowsOf(plan[m]) : r.effects = <<>>
    BY <1>1 DEF RowsOf, SessionInv, RowInv, Nothing
  <2> SUFFICES ASSUME stage \in {"reported", "exited"}
               PROVE  /\ scores[m].utility.hits + scores[m].binding.hits
                           + scores[m].evidence.hits = 0
                      /\ scores[m].grade = "C" /\ exit # 0
    BY <2>1
  <2>2. m \in DOMAIN scores
    BY <1>1 DEF SessionInv, ScoreInv
  <2>3. /\ scores[m].utility.hits = 0 /\ scores[m].binding.hits = 0
        /\ scores[m].evidence.hits = 0
        /\ scores[m].grade = "C" /\ ~Full(scores[m].utility)
    BY <1>1, <2>2, SilentScore
  <2>4. \A required \in BOOLEAN : ~Passes(scores[m], required)
    BY <2>3 DEF Passes, Regresses, Metrics
  <2>5. exit # 0
    BY <1>1, <2>2, <2>4, CorpusAssumption DEF SessionInv, ScoreInv
  <2> QED
    BY <2>3, <2>5
<1>2. SessionInv => SilentEnginesEarnNothing
  BY <1>1 DEF SilentEnginesEarnNothing
<1> QED
  BY <1>2, SessionHolds, PTL
=============================================================================
