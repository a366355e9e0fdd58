# AgentGym in TLA+

AgentGym runs attack and benign tool calls through three agent frameworks and
eight enforcement modes and records which calls take effect. What it measures
depends on one claim: a tool body has an effect only through an authorization
of exactly that call, once, while the evidence for it still holds. This
directory models the parts of the implementation that carry this claim, checks
them with TLC and proves the main invariants with TLAPS.

## The system and its parts

| Part | State | Operations | What makes it correct |
|---|---|---|---|
| Execution boundary (`boundary.py`) | decisions, pending table | `authorize`, `execute` | a permit is used once, for its own call, and is not lost |
| Policy gate (`policy.py`) | mode, lease, revocation | `check`, `issue_execution_permit`, `verify_execution` | an execution is judged again at the last moment; order of irreversible acts |
| Permits and receipts (`permits.py`, `native/src/lib.rs`) | permit consumed or not | issue, verify, consume | exact call, validity window, single use |
| Stateful authority (`state.py`) | spent checkpoints, receipts, capabilities | `verify`, `join`, `consume`, `parse` | validated without mutation, spent atomically, spent once |
| Effects and oracle (`tools.py`, `recorder.py`) | effects | `_apply_effects`, `record` | an effect needs a permit; forbidden effects are recognised |
| Provider clients and emulators (`wire/`) | armed fault, grants, authorizations | `check`, `authorized`, `execute` | a fault denies; faults belong to one client |
| Framework runtimes (`frameworks.py`) | per run | `invoke` | every exception denies; a denied call is never executed |
| Case adapter (`adapters.py`) | gate, recorder, boundary | `run` | faults are cleared, state is isolated between runs |
| Engines and schemas (`engines.py`, `typesec_native.py`, `bindings.py`) | none | `check`, `validate_bound_call` | fail closed |
| Runner (`runner.py`, `cli.py`) | result rows | metrics, grade, `--check` | a grade follows only from measured rows |
| Cases (`scenarios.py`, `faults.py`, `mutations.py`) | constants | | each attack differs from its benign case in what it names |
| World and policy corpus (`world.py`, `policy/`, `fixtures/world.json`) | constants after loading | parse, load | one reading; refused whole |
| Generators and release gate (`scripts/build_*.py`, `scripts/check.sh`) | generated files | build, `--check` | the engines decide on the corpus the process loaded |

A framework hook calls `authorize`, which asks the gate, which may ask an
engine, a provider and the stateful services, and on an allow mints a permit
and files it under the digest of the whole call. The tool body later calls
`execute` with the call it was given; the boundary takes a filed permit for
that digest, the gate verifies the receipt, repeats its checks, executes at
Arcade where the tool lives there, spends the single-use authority, and the
effect implementation consumes the permit before it records the effect.

What is hard: the adapters of the benchmark make one call at a time, but the
frameworks run tool bodies on worker threads (Pydantic AI runs synchronous
tools in a thread, LangGraph's tool node runs the calls of a turn on a pool),
the stores hold locks for that reason and the tests say so
(`tests/test_security_boundary.py:448`), while the pending table and the
decision list have none. The evaluation clock and the revocation flag are
plain fields the host changes between operations
(`tests/test_security_boundary.py:149`). Providers time out, answer with the
wrong type or shape, or repeat a stale allow. Around the boundary, one policy is
read by five readers (the process, the Rust gate, a second parser for documents
presented at run time, OPA and Cerbos), and the two engines read a translation
that someone has to regenerate. And the verdict on all this is a set of rows and
percentages, from which a safe or a silent mode must not earn more than it
showed.

## Modules

`ExecutionBoundary` is the hub: the other modules each open one of the parts it
takes as a constant or a nondeterministic answer, or use it.

    ExecutionBoundary --implements--> SingleUseGrant
    BranchJoin, ReceiptChain --implement--> AuthorityStore
      Allowed (the verdict on a call)      <- Mediation
        the corpus Mediation assumes       <- PolicyCorpus
      the content of a call's evidence     <- BranchJoin, ReceiptChain
      the answer of a provider             <- ProviderWire

    Benchmark runs Scenarios through Mediation's verdicts, and Scoring on the rows

### ExecutionBoundary and SingleUseGrant

`ExecutionBoundary` is the boundary with everything it calls that changes
state. A thread is at one label at a time, and a step between labels is as much
as another thread cannot split: each access to the unlocked table, the
re-evaluation of the policy, the request to Arcade, the consumption under a
store's lock, and the consumption of the permit with the record of the effect.

| Code | Model |
|---|---|
| `authorize` | `CheckDenies`, `CheckRaises`, `CheckAllows`, then `Issue` or `IssueFails`, then `AppendEntry` |
| `execute` | `Fetch`, `Pop` or `PopFails`, `Test`, `Unlink`, `Verify` or `VerifyFails`, `RemoteExecute` or `RemoteFails`, `Consume` or `ConsumeFails`, `Apply` or `ApplyFails` |
| `gate.evaluation_time`, `gate.revoked` | `Tick`, `Revoke` |
| list objects in `_pending` | `lists`, with `pending` mapping a digest to one of them and `ref` the reference a thread kept |
| `BoundaryState`'s spent sets | `spent` |

A member of `Calls` is one canonical envelope. `Allowed[m]` is what the engines,
schemas and content predicates of mode `m` say of it; a provider's answer is
chosen again at each request, so it may be a fault, a stale allow, or change
between authorization and execution. `Needs[c]` is the authority executing `c`
spends. Two joins that differ only in an attempt number have different digests
and present the same capabilities, which is why `Needs` need not be injective.

`SingleUseGrant` is the promise without the mechanism: grants are issued, then
voided or spent on one effect, and where authority is enforced no two effects
share any. `ExecutionBoundary` implements it under the mapping at the end of
that module: a grant is live while its entry is in some list, even an unlinked
one, or in a thread's hands.

### AuthorityStore

`AuthorityStore` is what a store of single-use evidence promises its callers:
evidence comes in holdings that are consumed whole, no holding is consumed that
shares evidence with an earlier one, and a caller is given the store's word on a
whole holding only, for an authorization only while the holding is unspent.
Each operation is one step. A word may go stale before the caller acts on it,
which is the gap the boundary closes by consuming again at execution; saying no
is always allowed.

| AuthorityStore | BranchJoin | ReceiptChain |
|---|---|---|
| `holdings` | the tenant's grants, one holding | each provisioned chain |
| `consumed` | `joins` | `imports` |
| `Provision` | before the model begins | `Provision` of a seed |
| `Vouch` (authorize), `Recognise` (oracle) | `EndScan` with a valid verdict | `Lookup` with a valid verdict |
| `Leave` | `Answer` | `Answer` |
| `Consume` | `Spend` | `Spend` |

The middle two columns are the linearization points: everything else the two
stores do, the loops above all, is invisible to their callers.

### BranchJoin

`BranchJoin` is `BranchCapabilityRegistry` of `state.py`: the loop of `join`
over the presented events, with its flags as the record `scan`, under the
re-entrant lock. `authorize`, `consume` and the oracle call it, with the
differences between them as a `purpose`.

| Code | Model |
|---|---|
| entering `join`, or `consume` around it | `Enter` |
| one turn of the loop | `Read` with `AfterEvent` or `AfterGarbage` |
| leaving `join`'s with-block | `EndScan`; the lock stays with a consumer (`HoldsOn`) |
| `_spent.update` | `Spend` |
| returning the verdict | `Answer` |
| `_capabilities`, `_spent` | `Grant`, `spent`; `joins` is a history of the consumptions |

A presentation that is no array is answered without touching the state and is
no action. `attempt` is only validated and lives in `Garbage`. The reference
verdict is `ExactJoin`, which says nothing of flags; the two differ by
`Joinable`: if the seed grants one branch two different requests, the loop takes
the second for a drifted retry and that tenant can never join.

### ReceiptChain

`ReceiptChain` is `ReceiptLedger` of `state.py`: `_verify_structure` receipt by
receipt, `verify`, `consume` and the constructor that provisions the trusted
chains. A digest is represented by the sequence of contents it commits to;
injectivity is all that is assumed of the hash, and it is what the code relies
on.

| Code | Model |
|---|---|
| `__init__` over the seeds, its two `raise`s, its end | `Enter` for `"seed"`, `Provision` or `Reject`, `Serve` |
| one turn of `_verify_structure` | `Read` with `AfterReceipt` or `AfterGarbage` |
| a structural refusal | `Reject` |
| the lookups of `verify` under the lock | `Lookup` |
| `consume` after `verify` | `Spend`, or `Answer` |

The constructor holds the lock in the model because nobody else has the object
yet. `spent` is per terminal digest, as in the code: a provisioned chain and a
provisioned extension of it are two imports, and the prefix of a provisioned
chain is sound but unknown. The constructor may raise, and then there is no
ledger: the runs disable the deadlock check.

### Mediation

`Mediation` computes from a call what `ExecutionBoundary` takes as `Allowed`:
the eight profiles and the mediator of `policy.py`, the engines they ask (the
Rego policy, the generated Cerbos policies, the Rust gate), the bindings, and
the oracle of `tools.py` that names the forbidden effects.

| Code | Model |
|---|---|
| `validate_bound_call` | `Bound` |
| `agentgym.rego` | `Opa`, `RegoContent` |
| `policy/cerbos/resource_policies/`, written by `build_cerbos_policies.py` | `Cerbos`, `CerbosContent` |
| `check_rust_gate`, `native/src/lib.rs` | `RustGate`, `Odrl` |
| `PolicyGate._execution_mediator` | `Mediator`, `MediatedChannel` |
| `_native`, `_workos_profile`, `_arcade_profile`, `_mediated`, `_typesec` | `Verdict`, `Native` |
| `_apply_effects` and the checks it makes | `Oracle` |
| `authorize` | `Authorize` |
| `execute`: the permit taken | `Begin` |
| its receipt and the policy again (`verify_execution`) | `Verify` or `VerifyFails` |
| the request to Arcade | `RemoteExecute` or `RemoteFails` |
| `state.consume` | `Consume` or `ConsumeFails` |
| the permit and the recorder (`_apply_effects`) | `Record` or `RecordFails` |
| the host, and other calls, between any two of these | `Revoke`, `Lapse`, `SpendElsewhere` |

The policy on the arguments of a call is written four times in the repository,
and the model has each copy on its own, in the form its source gives it: what a
delegation may ask is `RegoDelegation` and `CerbosDelegation` where an engine
allows it, `Amplified` where the mediator denies it, and `Amplifies` where the
oracle records it; a credential likewise (`RegoCredential`, `CerbosCredential`,
`Widened` and `Outlives`, `Bypasses`), and the content of a query. That they
agree, at the caps too, is checked and proved; a cap or a scope that slips in
one of them, to either side, breaks a property.

What the stores and the parser say of evidence is `genuine` (they vouch for it),
`altered` (well formed, and nobody does) or `malformed` (the closed schema
refuses it before a store is asked, and in every mode). A service answers each
request as it likes, and a fault counts as no. The lapse of the lease stops the
mediated modes, and a raw permit at or after it; the windows themselves are in
`ExecutionBoundary`. Calls with values of a wrong type are left out, calls with
missing or empty fields are not.

Some facts about the code that the properties had to be stated around: only
TypeSec looks at the organization; Cerbos pins the resource of the tool while
OPA accepts any grant with the same action and resource; the oracle has no
effect for a marketing purpose in an e-mail, for a public memory label or for a
missing delegated user on Drive; the mediator leaves the purpose of a query to
the engine, so `MediatedIsSafe` needs both.

A revocation while Arcade is asked does not stop the effect: the capability is
looked at before the request and not again. The model has that step, and no
property says otherwise; what the code does promise is `NothingAfterLapse` of
`ExecutionBoundary`, which is about executions that begin after the revocation.
`RefusedForAReason` is the other direction: what an execution has done itself
never makes one of its later checks refuse it.

### ProviderWire

`ProviderWire` is one `FrameworkAdapter.run` per member of `Runs`, with the
clients of `wire/clients.py` and the emulators behind `wire/servers.py`, which
all runs share.

| Code | Model |
|---|---|
| `faults.py`: cases, faults, applicable modes | `FaultTrials`; `Controls` are the same calls with no fault |
| `arm_fault` before, and in the `finally` | `Begin`, `Conclude` |
| the local revocation of the stale-allow case | `RevokedLocally` |
| denials before any request | `DenyLocally` |
| the requests of `check` and `verify_execution` | `Conversation` |
| `_http` opening a connection, the fault header | `Ask` |
| a server thread, `request_fault`, the emulators | `Handle`, `Answer` |
| the client's parsing | `Read`, `Receive` |
| `CLIENT_TIMEOUT`, a broken connection | `GiveUp` |

The request takes its fault along when it is sent and may be handled after its
client has given up. The in-process transport is the special case in which
`Handle` follows `Ask` at once. Not modelled: Arcade's status route (no client
calls it), API keys, the retired and disabled endpoints, the rules on
authorization URLs, the fault `wrong_shape` and the emulators' own default fault
and revocations (only tests use them). Authorization records are keyed by run
and question where the emulator counts.

### Scenarios, Scoring and Benchmark

`Scenarios` is the data: the fourteen scenarios with a benign case and an attack
each, the fault trials, and the world they run in, as the records `Mediation`
takes. `Scoring` is the verdict on rows. `Benchmark` is a run of the command:
every case in every mode of the selection, and then the report.

| Code | Model |
|---|---|
| `scenarios.py`, `faults.py`, `fixtures/world.json`, `rbac.yaml` | the constants of `Scenarios` |
| `FrameworkAdapter.run` up to `invoke`; a fault the mode does not meet | `Begin`; `Skip` |
| a framework's hook, its tool body | `Hook`, `Body` |
| the framework returns; raises | `Return`; `Raise` (the program ends, without a report) |
| `_apply_effects` recording kinds | `Kinds` |
| `safe`, `useful` of `adapters.py` | `Safe`, `Useful` |
| `runner.py` metrics | `Safety`, `Utility`, `BindingIntegrity`, `FailClosed`, `EvidenceQuality` |
| `_grade`; `--check`, `--require-fail-closed` | `Grade`; `Passes`, `Check` |
| a reply of OPA, of Cerbos, with one field replaced or missing | `OpaReply`, `CerbosReply`, `Received`; the fault is chosen per session |
| `OpaEngine.check`, `CerbosEngine.check` taking a reply | `OpaAllows`, `CerbosAllows`, field by field |
| a provider's answer under the fault of the case | `WorkosAllows`, `ArcadeAuthorizes`, `ArcadeExecutes` |

One thread runs a session and the clock stands still, so the boundary reduces
to the list of allows not spent. The frameworks are third-party code. A faithful
one shows the call of the case to the hook and gives it to the body; in one
case of a session the framework may instead show, repeat and skip what it likes,
or raise. A payload that is no call of the principal is refused before the
boundary sees it, as if the hook had been left out. Rows are a set, as no metric
depends on their order, and a percentage is a pair of numbers, compared without
division; a metric of nothing is not measured, and no threshold is met by it.

### PolicyCorpus

`PolicyCorpus` is the life of the three documents the policy is written in:
edited by hand, loaded by the process, translated by the generators, released by
the gate.

| Code | Model |
|---|---|
| `parse_rbac_policy` | `RbacAccepted`, `Grants` |
| `parse_odrl_policy`; `ClosedPolicyLoader` | `OdrlAccepted`; `Supports`, `IsCanonical` |
| `_load` and the checks around it | `Loads` |
| `build_opa_data.py`, `build_cerbos_policies.py` | `BuildOpa`, `BuildCerbos`, with `OpaBuilds` and `CerbosBuilds` their checks |
| `--check` of the two scripts, in `scripts/check.sh` and the release workflow | `FilesCurrent`, `Release` |
| an editor | `Edit` |

The scripts import the module that loads the corpus, so they run only if it
loads. `NoString` stands for an empty string and for every value that is none;
a document is `open` when a mapping lacks a key or has one too many.

## Runs

| Run | Instance | Shows |
|---|---|---|
| `boundary_threads` | 2 threads, e-mail and two joins, 3 authorizations, lease of 1 tick, clock to 1, modes opa-mediated and arcade; 3.9 M states | exactness, one place per permit, single use, nothing after the lapse, authority and provider executions are accounted for; while the lease runs every effect is on record |
| `boundary_serial` | 1 thread, all 8 modes, dashboard, e-mail and join, lease [1, 2), clock to 3; 2.2 M states | the decision record and the pending table stay in step |
| `boundary_fair` | 2 threads, e-mail and a join, 2 authorizations; 102 k states | operations end; refinement of `SingleUseGrant` |
| `boundary_stale` | 1 thread, opa-mediated | finding: a stale lease raises out of `check`, and no decision is recorded |
| `join_race` | 2 threads, 2 grants of the joining tenant and one of another, presentations of up to 3 events out of 7: genuine, different from a grant in request, branch or tenant, another tenant's, malformed; 5.1 M states | the flags accept exactly the reference; refinement of `AuthorityStore`: a join is consumed once, and whole |
| `chain_race` | 2 threads, chains of up to 3 receipts from 6: two genuine, one that repeats an event, one with the digest before it, one with a field too many, and no receipt; 2.75 M states | exactly the histories unfolded from a digest are sound; refinement of `AuthorityStore`: a chain is imported once |
| `mediation` | 8 modes, 3 subjects, 2 organizations, every call that differs in a field somebody looks at, every answer of the services, any change between two steps of an execution; 381 k states | mediated modes record no forbidden effect; what raw engines stop; the substrates agree; denials are warranted; what was allowed is refused only for a change since |
| `mediation_opa` | the same | finding: raw OPA accepts a grant written for another tool |
| `wire` | 2 overlapping runs of any two trials or controls, no obligation on any server; 261 k states | faults belong to their run, and fail closed; effects have a trace at Arcade; every run ends |
| `benchmark` | the 40 cases in each mode, one field of the engines' replies replaced or missing, and a deviating framework in any case of typesec and in some cases of each other mode; 603 k states | attacks and trials have no effect in the mediated modes whatever the framework does; an A is earned; evidence is about the one effect; `--check` and the grades agree; silent engines earn nothing; the published scores |
| `corpus` | any two edits out of about 150 versions of the three documents, generators run or forgotten in between; 31 k states | a released policy has one reading, and the engines have it; what `Mediation` assumes; the two ODRL parsers differ only where it cannot matter |
| `wire_reach` | 1 run | finding: nine fault trials never reach the emulator they disturb |

The three findings are disagreements between the code and a sentence of the
repository; each is quoted in `PROJECT.json`:

- `boundary_stale`: receipts are issued and verified outside the `try` of
  `check` (`policy.py:112`).
- `mediation_opa`: the Rego policy ties no resource to a tool
  (`agentgym.rego:96`), so its memory rule is not bound to the supervisor.
- `wire_reach`: in the mediated modes the trials `stale_allow`, `wrong_resource`
  and `replay_completed` are denied locally, so they measure the denial and not
  the handling of the fault (`adapters.py:99`).

## Bounds

Boundary. Two threads are enough for every race on one list or one authority,
since each race is between the thread that reads and the one that changes. Three
authorizations allow two permits in one list and one more filed while they are
taken. A clock with one value inside the window and one at its end meets both
sides of `now >= expires_at`; the serial run adds an instant before the window
and one after. `MaxDecisions` and `MaxTime` bound the counters `asked` and
`now`.

Joins and chains. `MaxEvents` = 3 allows both grants and a retry, an intruder or
a malformed event before, between or after them. A capability nobody issued is
not in the pool (one of another tenant is refused likewise); `AcceptsExact`
covers it. `MaxReceipts` = 3 allows a duplicate of an event that is not the
last, a splice into the middle and a receipt after a malformed one.
The proofs hold for any length.

Mediation. Lifetimes 0 to 3 with caps 1 and 2 lie below, at and above each cap.
The resources of a call are its own, one granted for another tool with the same
action, and one granted to nobody; its action is its own or a wrong one. One
call at a time is enough, as verdicts depend on other calls only through
`spent`, which `SpendElsewhere` moves.

Wire. Runs interact only through a server, and a server relates at most the run
it answers to one that armed something else, so two overlapping runs meet every
interaction. A run asks at most three questions, which bounds everything else.

Benchmark. Cases meet only in the metrics, so one deviating case per session is
enough for every row and for each way a row can spoil a percentage. `MaxSteps`
= 4 allows two hooks and two bodies, hence a repeated effect, a second decision
and an allow left over; the three calls a deviating framework shows are the one
of the case, the other one of its scenario, and another task's. With
TypeSec every case deviates, with the other mediated modes two attacks and two
fault trials, with the rest a benign case and an attack: the modes differ in
their verdicts only.

Corpus. Any of the documents may be ill formed or well formed and wrong, so one
edit meets every refusal and two meet a change that one document makes and
another must follow. A generator or the release may come between them.

## Fairness

Boundary: a thread in the middle of an operation eventually takes its next
step. The interpreter schedules every thread, and a provider request ends after
at most three seconds. Nothing obliges the host to ask again, so the runs
disable the deadlock check.

Benchmark and corpus: none is stated, their properties are of safety.

Wire: only steps of the client are fair, since every wait of it has a deadline
(`CLIENT_TIMEOUT`, `clients.py:52`). Nothing is assumed of the servers.

## Proofs

TLAPS checks every theorem below for all values of the constants that satisfy
the assumptions of the module (`RegistryAssumption`, `LedgerAssumption` and so
on; TLC evaluates them in the runs). Every safety property of the runs but
`PublishedScores` has its theorem. Each module of proofs has one inductive
invariant or a few, a lemma per action that it is kept, and theorems that follow
from it.

`ExecutionBoundary_proofs`:

- `TypeCorrect`: `TypeOK`, from the inductive `TypeInv`, which adds what a
  thread holds at each label (`HeldTypes`); without it a popped entry or an
  index into `lists` could not be typed.
- `EffectsAreExact`: `ExactCall`. Inductive: a thread past the policy check
  holds the decision on the call it executes.
- `AuthorityIsSingleUse`: `SingleUse`. Inductive `SpendInv`: in a mediated mode
  what effects and threads about to record one need is already spent, and these
  needs are disjoint; consumption checks disjointness from `spent`, which
  carries it from the lock to the effect.
- `LapseIsFinal`: `NothingAfterLapse`. Inductive `LapseInv`: an execution marked
  as begun late shows that the lease is gone for good, so none is past the
  policy check.
- `SpendingIsWhole`: a step spends what one call needs, whole, or nothing.

`QuietStep` carries the frame: all but four actions leave the threads past the
policy check, and the records, alone.

`BranchJoin_proofs`. `AllRead` says what each flag means of the events read so
far (`Reads`), which `GarbageReads` and `EventReads` carry over one turn of the
loop. `AcceptsExact` is a theorem about operators alone: locals that describe a
presentation accept it exactly when it is an `ExactJoin` and the grants are
`Joinable`. With `Locked` and `Replays` (a consumer's flag still matches `spent`,
as it holds the lock) this gives `VerdictsAreExact`.

`JoinImplementsStore` is the refinement of `AuthorityStore`, step by step: a
verdict formed under the lock is the store's word on the tenant's grants
(`VerdictStep`), and a consumption takes them while `Replays` says that none is
spent (`SpendSpends`). It needs a second invariant, `LedgerInv`: what `_spent`
holds is what the consumptions took, each of them the tenant's grants.
`ConsumptionIsOnce` and `ConsumptionIsWhole` follow from that, and say it of the
code's own state.

`ReceiptChain_proofs`. The same layout: `Reads` describes the locals,
`SoundUnfolds` and `UnfoldAppend` show that the loop passes exactly the
unfoldings of a digest (`SoundnessIsUnfolding`), and since a digest has one
unfolding, a terminal names one chain (`SeedsAreUnique`). `LedgerInv` adds that
provisioned chains are unfoldings, and that imports and `spent` correspond;
hence `ImportsAreOnce`. `LedgerImplementsStore` is the refinement of
`AuthorityStore`. The ledger spends digests where the store spends chains, so it
rests on `UnspentIsNotImported` (a digest commits to one chain); that seeds come
before imports is the invariant `Staged`, since whoever seeds holds the lock.

`Mediation_proofs`. The verdicts are compared as operators: `AllowedIsClean` (an
allowed call has no forbidden effect), `OpaIsTypesec` and `CerbosIsOpa` (where
the substrates meet, giving `SubstratesAreHarmonized`), `MediatorPasses` and
`MediatorNeeds` (giving `DenialsAreWarranted`). They rest on lemmas that the
copies of a rule say the same of every call and every cap
(`DelegationRulesAgree`, `CredentialRulesAgree`, `TranslationsAgree`).
`MediationIsSafe` needs `Checked`: in a mediated mode, an execution past
`Verify` is of a call without a forbidden effect, whatever happens meanwhile. `RequestsAreStopped` needs `RawInv`,
since a raw engine is not asked again and its allow has to be remembered with
the permit. `RefusalsHaveAReason` needs `AllowStands`: while nothing was
revoked, has lapsed or is spent, the mode still allows the permitted call when
every service confirms (more confirmations allow no less,
`MoreConfirmationsAllowNoLess`), and an execution has spent nothing before its
last step.
`CorpusAssumption` states what the comparison needs of the policy corpus: one
grantee per resource, who has the Arcade grants of his tools. The run `corpus`
shows it of every corpus that can be released (`CorpusIsMediations`); the Arcade
grants, which no policy document states, are those of the emulator's seed.

`ProviderWire_proofs`. `YesToCheck`, `YesToAuthorize` and `YesToExecute` say what
the client takes for a yes under each fault; `DisturbedYes` and `FailClosedYes`
draw the consequences for a trial. The state machine contributes `WireInv`: a
request carries the fault of its own run (`Sent`), a reply answers the question
the run is waiting on (`Replied`), all but the last answer heard are a yes
(`Heard`), and a yes from Arcade left its record (`Earned`). The theorems are
`HealthIsTruth`, `DefectsDeny`, `FaultsFailClosed` and `EffectsHaveATrace`.
`ClientsRunOut` is the safety half of `EveryRunEnds`: `Left` counts the steps a
client can still take, six at most; each of them uses one up, nothing else
changes the count, and the run is done when it is zero. What is left to fairness
is that a client with a step left takes it.

`PolicyCorpus_proofs`. The invariant is that the sources are documents somebody
wrote, and the two properties themselves, which only a release can disturb.
`GrantsAreDeclared` shows that an accepted policy grants what its entries
declare, since a name stands for one role (`NameIsItsRole`); `CerbosCovers`, that
a generator which found one grant per kind wrote all the grants it covers and no
other, for which what a document grants must be finite
(`DocumentsAssumption`). The theorems are `DeployedHasOneReading` and
`EnginesAreCurrent`.

What `CorpusIsMediations` says of a release is `MediationsFacts`, which rests on
the generator's counts: one grant of each kind (`SingleGrants`), and two of the
SaaS resources with one subject, who therefore has both (`ApproverHasBoth`); the
theorem is `ReleasedCorpusFits`. `OdrlParsersAgree` adds the invariant that the
deployed process loaded a document its parser accepts (`OdrlInv`), and
`SupportedIsAccepted`: dropping the duplicates of a list leaves a list, whatever
its length (`ListOfSet`). `OdrlsAssumption` gives a document its keys and lists.

`BoundaryPermits_proofs` continues `ExecutionBoundary_proofs` with the table.

- `PlacesHold`: `PlaceInv`. Every slot of a list, every thread's hand and every
  effect has the number of a decision, and no two of them the same one.
  `OnePlaceEach` (`PermitInOnePlace`) follows. The steps that move a permit are
  lemmas about the place it leaves and the one it takes; the unlocked table does
  not break the invariant, since a pop is one step and a list that was unlinked
  keeps its entries.
- `BoundaryImplementsGrants`: the refinement of `SingleUseGrant`, with
  `GrantInit` and `GrantStep`. `PlaceInv` makes the grant that leaves `live`
  unique, `ExactInv` gives it its call, and `SpendInv` its unshared authority.
- `NothingIsBurned`: `SpentForAnEffect`. Between the consumption and the effect
  only the window of the permit is looked at. `WindowInv` says that in a
  mediated mode it ends with the lease and has begun, `PaidInv` that nothing else
  spends.
- `ProviderAgrees`: `ProviderAndRecorderAgree`. `ProviderInv` pairs every
  confirmed execution with the thread that is about to record it (`Confirmed`),
  down to its marks.
- `EffectsStayOnRecord`: `EffectsAreOnRecord`, for any number of threads while
  the lease runs and for one thread for good. A denial that overrules the last
  decision comes only from a failing issue; `MintInv` and `MintingSucceeds` say
  that in a mediated mode minting does not fail before the lease ends, since the
  check that led to it has looked at the same window, and `LastInv` that with one
  thread the last decision is its own. `RecordInv` says that every live permit
  is of an allow still on record. After the lease, with two threads, the property
  is false: the overruled decision may be another thread's.
- `NothingIsStranded`: `NoPermitStranded` for any number of threads that are
  never in the boundary with one call at once (`Apart`), with the corollary
  `NothingIsStrandedByOne` for one thread. `LinkInv` says that lists are not
  shared between calls (`ListsDiffer`), that a thread's list is the one its
  digest maps to, and that it is empty when it is unlinked. Two threads with one
  call can strand a permit, so `Apart` cannot be dropped.

`Benchmark_proofs`. `SessionInv` is a conjunction, one part per aspect of a
session: `WalkInv` (where it is, and that runs start afresh), `OneForOne` (while
one decision was made there is its permit or at most one execution, of its call),
`RunInv` and `RowInv` (what holds of decisions and effects during a run holds of
its row), `OneRowEach` and `Covered` (one row for each case and mode passed, and
none missing), and `ScoreInv` (the scores are those of the rows). The theorems
are for every corpus with the traits of `CorpusAssumption`, every set of calls a
framework may present and every sequence of hooks and bodies; `MaxSteps` is not
used.

- `MediationHolds`: from `MediatedIsClean` for scenarios, `TrialsAreContained`
  for trials: each fault leaves either no yes of the provider or a call the
  mediator refuses for itself.
- `EvidenceIsEarned`: from `OneForOne`, since a benign case requires an effect.
- `AIsEarned` and `CheckIsTheGrades`: the 95 % of the grade and the 100 % of the
  check are one threshold below twenty benign cases (`NearlyAllIsAll`; the
  corpus has fourteen), counted through the injection of rows into cases
  (`RowsAreFew`). The check lets an unmeasured `fail_closed` pass where the grade
  does not; this never decides, because a mode with full bindings is mediated and
  the trials run in every mediated mode (`PassesIsA`).
- `SilenceEarnsNothing`: from the quiet part of `RunInv`, and from `Covered` for
  the grade: a C and not a D, as there is an attack that was stopped.

Model-checked only: the liveness properties `EveryOperationEnds` and
`EveryRunEnds` (but for the count behind the second, `ClientsRunOut`), as the
prover has no rule for `ENABLED`; and `PublishedScores`,
which is a computation on the forty cases of the repository.

## Not modelled

- Signatures and canonical JSON: an envelope's digest is its identity, a
  receipt's its content.
- The approval store beyond verify-then-consume, and the schema of the seeds
  of the stores (`from_seed`). The dataset scan, which only reads fixtures.
- The frameworks themselves (third-party code): hooks and tool bodies are
  concurrent callers in `ExecutionBoundary`, and one caller that may deviate in
  `Benchmark`.
- `mutations.py` and its property tests, provenance and printing of a report,
  thresholds of `--check` other than the defaults, Docker, compile-fail tests,
  and the legacy in-memory providers.
- The Rust policy library: what it makes of the policy text is `OneReading`'s
  assumption, that a reader keeps the first, the last or all of the entries under
  one name.

Two things the code does that no run singles out. Arcade is asked to execute
before the permit's window is looked at (`policy.py:168`, `tools.py:42-47`); the
steps are in `ExecutionBoundary`, and `NothingAfterLapse` is stated so that it
holds. And `binding_integrity` and `evidence_quality` pass over a row with more
or fewer decisions than calls (`runner.py:121`), so a framework that never asks
is not in their denominators; `safety` and `utility` still judge such a row.

## Plan

Done: the modules above; proofs of every safety property but the published
scores, and of the three refinements.

Left, in order:

1. `ApprovalStore`, as the third implementation of `AuthorityStore`, and a
   registry whose callers join for several tenants.
2. A composition of `Mediation` with the boundary's table: calls in flight on
   two threads that share evidence, with `AuthorityStore` for the stores.
3. A bound on what a lapse leaves behind: how many permits are filed that no
   execution will use.
