-------------------------- MODULE ExecutionBoundary --------------------------
(***************************************************************************)
(* The single-use authorization boundary of agentgym/boundary.py together  *)
(* with the parts of the policy gate (policy.py), the execution permits    *)
(* (permits.py, native/src/lib.rs), the stateful authority (state.py) and  *)
(* the effect implementation (tools.py) that decide whether one exact tool *)
(* call takes effect.                                                      *)
(*                                                                         *)
(* Framework hooks and tool bodies run on threads.  A hook authorizes the  *)
(* call it was shown; a tool body later executes the call it was given,    *)
(* which need not be the same one.  The table of unspent decisions has no  *)
(* lock, so its accesses are separate steps; each store of state.py holds  *)
(* its lock across verify-and-spend, so a consumption is one step.         *)
(*                                                                         *)
(* A member of Calls stands for one canonical envelope.  What the policy   *)
(* engines, the closed schemas and the mediator's predicates say of a call *)
(* is a function of the envelope and is the constant Allowed; what a       *)
(* provider answers is chosen anew at every request.                       *)
(***************************************************************************)
EXTENDS Naturals, Sequences, FiniteSets

CONSTANTS
  Threads,       \* worker threads that run framework hooks and tool bodies
  Calls,         \* exact calls, one per canonical envelope
  NoCall,        \* not a call
  Kind,          \* [Calls -> Kinds]: the tool the call names
  Authorities,   \* checkpoints, terminal receipts and branch capabilities
  Needs,         \* [Calls -> SUBSET Authorities]: what executing the call spends
  Modes,         \* enforcement modes the gate may be built with
  Allowed,       \* [AllModes -> SUBSET Calls]: the deterministic policy verdict
  IssuedAt,      \* PolicyGate.issued_at
  TTL,           \* PolicyGate.ttl_seconds
  MaxTime,       \* bound: last value of the evaluation clock
  MaxDecisions   \* bound: authorizations asked of one boundary

MediatedModes == {"opa-mediated", "cerbos-mediated", "typesec"}
AllModes == MediatedModes \cup {"native", "workos", "arcade", "opa", "cerbos"}
Kinds == {"catalog", "dashboard", "arcade", "stateful", "plain"}

ASSUME CallsAssumption ==
  /\ NoCall \notin Calls
  /\ Kind \in [Calls -> Kinds]
  /\ Modes \subseteq AllModes
  /\ Allowed \in [AllModes -> SUBSET Calls]

ASSUME NeedsAssumption ==
  /\ Needs \in [Calls -> SUBSET Authorities]
  /\ \A c \in Calls : Needs[c] # {} => Kind[c] = "stateful"

ASSUME BoundsAssumption ==
  /\ IssuedAt \in Nat /\ TTL \in Nat
  /\ MaxTime \in Nat /\ MaxDecisions \in Nat

LeaseEnd == IssuedAt + TTL
Ids == 1 .. MaxDecisions          \* decisions, and the lists they created
NoList == 0
Time == 0 .. MaxTime

Decision == [call : Calls, allowed : BOOLEAN]
\* A decision paired with its permit, as the pending table stores them.
Entry == [id : Ids, call : Calls, from : Nat, until : Nat]
NoEntry == [id |-> 0, call |-> NoCall, from |-> 0, until |-> 0]
\* An effect on the recorder, or an execution at Arcade: the allow it spent,
\* the call that was executed, whether the execution had begun with the lease
\* already revoked or over, and whether the permit had lapsed by this moment.
Event == [id : Ids, decided : Calls, call : Calls,
          stale : BOOLEAN, lapsed : BOOLEAN]

VARIABLES
  mode,       \* PolicyGate.mode, fixed when the gate is built
  now,        \* PolicyGate.evaluation_time, moved by the host
  revoked,    \* PolicyGate.revoked
  asked,      \* history: calls of ExecutionBoundary.authorize
  decisions,  \* ExecutionBoundary.decisions
  pending,    \* ExecutionBoundary._pending: which list a digest maps to
  lists,      \* the list objects those keys map to, or once mapped to
  spent,      \* BoundaryState: authority already consumed
  remote,     \* executions Arcade performed and confirmed
  effects,    \* EffectRecorder.effects
  pc,         \* what each thread does next
  cur,        \* the call each thread was given
  ref,        \* the list object each thread holds a reference to
  held,       \* the decision and permit each thread took or minted
  stale       \* history: the running execute began with the lease gone

gateVars == <<mode, now, revoked>>
tableVars == <<pending, lists>>
outVars == <<spent, remote, effects>>
threadVars == <<pc, cur, ref, held, stale>>
vars == <<gateVars, asked, decisions, tableVars, outVars, threadVars>>
-----------------------------------------------------------------------------
\* Mutant: a digest of the tool alone, leaving arguments and runtime facts out.
DigestOfTool(c) == CHOOSE d \in Calls : Kind[d] = Kind[c]
\* ToolCall.digest: the canonical envelope is injective, so is its digest.
Digest(c) == c

Mediated == mode \in MediatedModes

\* The receipt and the mediated permit share one window, [issued, expires).
LeaseCurrent == IssuedAt <= now /\ now < LeaseEnd

\* Which calls the mode puts to WorkOS or Arcade before it decides.
AsksProvider(c) ==
  \/ mode \in {"workos", "arcade"}
  \/ mode = "native" /\ Kind[c] \in {"catalog", "dashboard", "arcade"}
  \/ Mediated /\ Kind[c] \in {"dashboard", "arcade"}

\* The runtime facts only a mediated mode holds: the local revocation, and the
\* stores' verification that the authority is still unspent.
MediatorAllows(c) == ~revoked /\ Needs[c] \cap spent = {}

\* The verdict of PolicyGate.check and of its repetition at execution, when
\* the provider's answer (if it is asked) is ok.
PolicyAllows(c, ok) ==
  /\ c \in Allowed[mode]
  /\ AsksProvider(c) => ok
  /\ Mediated => MediatorAllows(c)
  /\ mode = "typesec" => now < LeaseEnd

Goto(t, label) == pc' = [pc EXCEPT ![t] = label]

\* The thread's call returns or raises; the hook and the tool body turn every
\* exception into a denial, so both end the same way.
Return(t) ==
  /\ Goto(t, "idle")
  /\ cur' = [cur EXCEPT ![t] = NoCall]
  /\ ref' = [ref EXCEPT ![t] = NoList]
  /\ held' = [held EXCEPT ![t] = NoEntry]
  /\ stale' = [stale EXCEPT ![t] = FALSE]
-----------------------------------------------------------------------------
Init ==
  /\ mode \in Modes
  /\ now = 0
  /\ revoked = FALSE
  /\ asked = 0
  /\ decisions = <<>>
  /\ pending = [c \in Calls |-> NoList]
  /\ lists = [i \in Ids |-> <<>>]
  /\ spent = {} /\ remote = {} /\ effects = {}
  /\ pc = [t \in Threads |-> "idle"]
  /\ cur = [t \in Threads |-> NoCall]
  /\ ref = [t \in Threads |-> NoList]
  /\ held = [t \in Threads |-> NoEntry]
  /\ stale = [t \in Threads |-> FALSE]

(***************************************************************************)
(* authorize                                                               *)
(***************************************************************************)
Ask(t) == pc[t] = "idle" /\ asked < MaxDecisions /\ asked' = asked + 1

\* Mutant: check appends its decision too.
RecordTwice(c, allowed) ==
  decisions' = decisions \o <<[call |-> c, allowed |-> allowed], [call |-> c, allowed |-> allowed]>>
Record(c, allowed) ==
  decisions' = Append(decisions, [call |-> c, allowed |-> allowed])

CheckDenies(t, c, ok) ==
  /\ Ask(t)
  /\ ~PolicyAllows(c, ok)
  /\ Record(c, FALSE)
  /\ UNCHANGED <<gateVars, tableVars, outVars, threadVars>>

\* The verdict is an allow but its receipt cannot be issued or verified at this
\* moment: check raises, and authorize ends with no decision appended.
CheckRaises(t, c, ok) ==
  /\ Ask(t)
  /\ PolicyAllows(c, ok)
  /\ Mediated /\ ~LeaseCurrent
  /\ UNCHANGED <<gateVars, decisions, tableVars, outVars, threadVars>>

CheckAllows(t, c, ok) ==
  /\ Ask(t)
  /\ PolicyAllows(c, ok)
  /\ Mediated => LeaseCurrent
  /\ Record(c, TRUE)
  /\ Goto(t, "issue")
  /\ cur' = [cur EXCEPT ![t] = c]
  /\ held' = [held EXCEPT ![t] =
       [id |-> Len(decisions) + 1, call |-> c, from |-> 0, until |-> 0]]
  /\ UNCHANGED <<gateVars, tableVars, outVars, ref, stale>>

\* Mutant: a mediated permit one tick shorter than its receipt.
WindowOfShorterPermit(start) == [from |-> start, until |-> start + TTL - 1]
\* The window a permit issued at start is good for.
Window(start) == [from |-> start, until |-> start + TTL]

\* Mutant: the local revocation is looked at again before minting.
PermitCanIssueUnrevoked == ~revoked /\ IF Mediated THEN LeaseCurrent ELSE TTL > 0
PermitCanIssue == IF Mediated THEN LeaseCurrent ELSE TTL > 0

\* The permit is minted; setdefault then finds or creates the digest's list.
Issue(t) ==
  LET d == Digest(cur[t])
      list == IF pending[d] = NoList THEN held[t].id ELSE pending[d]
      start == IF Mediated THEN IssuedAt ELSE now
  IN /\ pc[t] = "issue"
     /\ PermitCanIssue
     /\ held' = [held EXCEPT ![t].from = Window(start).from,
                             ![t].until = Window(start).until]
     /\ pending' = [pending EXCEPT ![d] = list]
     /\ ref' = [ref EXCEPT ![t] = list]
     /\ Goto(t, "append")
     /\ UNCHANGED <<gateVars, asked, decisions, lists, outVars, cur, stale>>

\* Mutant: the first decision on record is overruled.
OverruleFirst(t) ==
  decisions' = [decisions EXCEPT ![1] = [call |-> cur[t], allowed |-> FALSE]]
\* PermitError: the LAST decision on record is replaced by a denial.
Overrule(t) ==
  decisions' = [decisions EXCEPT ![Len(decisions)] =
                  [call |-> cur[t], allowed |-> FALSE]]

IssueFails(t) ==
  /\ pc[t] = "issue"
  /\ ~PermitCanIssue
  /\ Overrule(t)
  /\ Return(t)
  /\ UNCHANGED <<gateVars, asked, tableVars, outVars>>

AppendEntry(t) ==
  /\ pc[t] = "append"
  /\ lists' = [lists EXCEPT ![ref[t]] = Append(@, held[t])]
  /\ Return(t)
  /\ UNCHANGED <<gateVars, asked, decisions, pending, outVars>>

(***************************************************************************)
(* execute                                                                 *)
(***************************************************************************)
\* The list is fetched, and looked at before it is popped: without an unspent
\* decision execute raises, at once or as PopFails, and changes nothing.
Fetch(t, c) ==
  LET list == pending[Digest(c)]
  IN /\ pc[t] = "idle"
     /\ list # NoList
     /\ Goto(t, "pop")
     /\ cur' = [cur EXCEPT ![t] = c]
     /\ ref' = [ref EXCEPT ![t] = list]
     /\ stale' = [stale EXCEPT ![t] = revoked \/ now >= LeaseEnd]
     /\ UNCHANGED <<gateVars, asked, decisions, tableVars, outVars, held>>

\* Mutant: the decision is read, not removed.
PeekedList(list) == list
\* What pop(0) leaves of a list.
PoppedList(list) == Tail(list)

\* Mutant: the key is removed after every pop.
UnlinksAlways(list) == TRUE
\* The key is removed only when the list has become empty.
Unlinks(list) == list = <<>>

\* pop(0) takes the oldest decision.
Pop(t) ==
  LET list == lists[ref[t]]
  IN /\ pc[t] = "pop"
     /\ list # <<>>
     /\ held' = [held EXCEPT ![t] = Head(list)]
     /\ lists' = [lists EXCEPT ![ref[t]] = PoppedList(list)]
     /\ Goto(t, "test")
     /\ UNCHANGED <<gateVars, asked, decisions, pending, outVars, cur, ref, stale>>

\* Mutant: a blocking queue waits for the next entry.
PopWaits(t) == FALSE /\ UNCHANGED vars
\* The list is empty, or another thread has emptied it since it was looked at:
\* IndexError.
PopFails(t) ==
  /\ pc[t] = "pop"
  /\ lists[ref[t]] = <<>>
  /\ Return(t)
  /\ UNCHANGED <<gateVars, asked, decisions, tableVars, outVars>>

\* The list is looked at again, after what other threads did to it meanwhile.
Test(t) ==
  /\ pc[t] = "test"
  /\ Goto(t, IF Unlinks(lists[ref[t]]) THEN "unlink" ELSE "verify")
  /\ UNCHANGED <<gateVars, asked, decisions, tableVars, outVars, cur, ref, held, stale>>

\* The key goes, whichever list it maps to by now and whatever is in it.
Unlink(t) ==
  /\ pc[t] = "unlink"
  /\ pending' = [pending EXCEPT ![Digest(cur[t])] = NoList]
  /\ Goto(t, "verify")
  /\ UNCHANGED <<gateVars, asked, decisions, lists, outVars, cur, ref, held, stale>>

\* Mutant: the receipt is verified, the policy is not evaluated again.
RevalidatesReceiptOnly(t, ok) ==
  /\ Digest(held[t].call) = Digest(cur[t])
  /\ Mediated => LeaseCurrent

\* verify_execution up to its first irreversible act: the decision is about
\* this call, its receipt is still current, and the policy is evaluated again.
Revalidates(t, ok) ==
  /\ Digest(held[t].call) = Digest(cur[t])
  /\ Mediated => LeaseCurrent
  /\ Mediated \/ mode = "workos" => PolicyAllows(cur[t], ok)

ExecutesRemotely(c) == mode = "arcade" \/ (Mediated /\ Kind[c] = "arcade")

AfterRemote == IF Mediated THEN "consume" ELSE "apply"

Verify(t, ok) ==
  /\ pc[t] = "verify"
  /\ Revalidates(t, ok)
  /\ Goto(t, IF ExecutesRemotely(cur[t]) THEN "remote" ELSE AfterRemote)
  /\ UNCHANGED <<gateVars, asked, decisions, tableVars, outVars, cur, ref, held, stale>>

VerifyFails(t, ok) ==
  /\ pc[t] = "verify"
  /\ ~Revalidates(t, ok)
  /\ Return(t)
  /\ UNCHANGED <<gateVars, asked, decisions, tableVars, outVars>>

EventOf(t) ==
  [id |-> held[t].id, decided |-> held[t].call, call |-> cur[t],
   stale |-> stale[t], lapsed |-> now < held[t].from \/ now >= held[t].until]

\* Arcade executes the tool and confirms the exact user and tool.
RemoteExecute(t) ==
  /\ pc[t] = "remote"
  /\ remote' = remote \cup {EventOf(t)}
  /\ Goto(t, AfterRemote)
  /\ UNCHANGED <<gateVars, asked, decisions, tableVars, spent, effects,
                 cur, ref, held, stale>>

\* A refusal, a fault, or an answer that does not echo the exact binding.
RemoteFails(t) ==
  /\ pc[t] = "remote"
  /\ Return(t)
  /\ UNCHANGED <<gateVars, asked, decisions, tableVars, outVars>>

\* What a consumption adds to the spent authority.
Spends(c) == Needs[c]

\* Mutant: the store spends without verifying again under its lock.
UnspentAlways(c) == TRUE
\* The store's verification, repeated under the lock it spends under.
Unspent(c) == Needs[c] \cap spent = {}

Consume(t) ==
  /\ pc[t] = "consume"
  /\ Unspent(cur[t])
  /\ spent' = spent \cup Spends(cur[t])
  /\ Goto(t, "apply")
  /\ UNCHANGED <<gateVars, asked, decisions, tableVars, remote, effects,
                 cur, ref, held, stale>>

ConsumeFails(t) ==
  /\ pc[t] = "consume"
  /\ ~Unspent(cur[t])
  /\ Return(t)
  /\ UNCHANGED <<gateVars, asked, decisions, tableVars, outVars>>

\* Mutant: the effect boundary ignores the permit's window.
PermitAcceptsLapsed(t) ==
  /\ \A e \in effects : e.id # held[t].id
  /\ Digest(held[t].call) = Digest(cur[t])

\* consume_execution_permit: unused, about this call, and inside its window.
PermitAccepts(t) ==
  /\ \A e \in effects : e.id # held[t].id
  /\ Digest(held[t].call) = Digest(cur[t])
  /\ held[t].from <= now /\ now < held[t].until

Apply(t) ==
  /\ pc[t] = "apply"
  /\ PermitAccepts(t)
  /\ effects' = effects \cup {EventOf(t)}
  /\ Return(t)
  /\ UNCHANGED <<gateVars, asked, decisions, tableVars, spent, remote>>

ApplyFails(t) ==
  /\ pc[t] = "apply"
  /\ ~PermitAccepts(t)
  /\ Return(t)
  /\ UNCHANGED <<gateVars, asked, decisions, tableVars, outVars>>

(***************************************************************************)
(* The host moves the evaluation clock and revokes the local capability.   *)
(***************************************************************************)
Tick ==
  /\ now < MaxTime
  /\ now' = now + 1
  /\ UNCHANGED <<mode, revoked, asked, decisions, tableVars, outVars, threadVars>>

Revoke ==
  /\ ~revoked
  /\ revoked' = TRUE
  /\ UNCHANGED <<mode, now, asked, decisions, tableVars, outVars, threadVars>>

Authorize(t) ==
  \/ \E c \in Calls, ok \in BOOLEAN :
       CheckDenies(t, c, ok) \/ CheckRaises(t, c, ok) \/ CheckAllows(t, c, ok)
  \/ Issue(t)
  \/ IssueFails(t)
  \/ AppendEntry(t)

Execute(t) ==
  \/ \E c \in Calls : Fetch(t, c)
  \/ Pop(t)
  \/ PopFails(t)
  \/ Test(t)
  \/ Unlink(t)
  \/ \E ok \in BOOLEAN : Verify(t, ok) \/ VerifyFails(t, ok)
  \/ RemoteExecute(t)
  \/ RemoteFails(t)
  \/ Consume(t)
  \/ ConsumeFails(t)
  \/ Apply(t)
  \/ ApplyFails(t)

Next ==
  \/ \E t \in Threads : Authorize(t) \/ Execute(t)
  \/ Tick
  \/ Revoke

Spec == Init /\ [][Next]_vars

\* A hook or a tool body that has started runs to its return: the interpreter
\* schedules every thread and a provider request ends within its timeout.
FairSpec == Spec /\ \A t \in Threads : WF_vars(pc[t] # "idle" /\ (Authorize(t) \/ Execute(t)))
-----------------------------------------------------------------------------
(***************************************************************************)
(* Properties                                                              *)
(***************************************************************************)
Labels == {"idle", "issue", "append", "pop", "test", "unlink", "verify",
           "remote", "consume", "apply"}

\* Every variable has its type.
TypeOK ==
  /\ mode \in Modes /\ now \in Time /\ revoked \in BOOLEAN
  /\ asked \in 0 .. MaxDecisions
  /\ decisions \in Seq(Decision) /\ Len(decisions) <= asked
  /\ pending \in [Calls -> Ids \cup {NoList}]
  /\ lists \in [Ids -> Seq(Entry)]
  /\ spent \in SUBSET Authorities
  /\ remote \in SUBSET Event /\ effects \in SUBSET Event
  /\ pc \in [Threads -> Labels]
  /\ cur \in [Threads -> Calls \cup {NoCall}]
  /\ ref \in [Threads -> Ids \cup {NoList}]
  /\ held \in [Threads -> Entry \cup {NoEntry}]
  /\ stale \in [Threads -> BOOLEAN]

\* No effect, and no execution at Arcade, is for a call other than the one the
\* gate decided, however the calls handed to hooks and tool bodies are mixed
\* (boundary.py: decisions are filed and found by the full-call digest).
ExactCall == \A e \in effects \cup remote : e.decided = e.call

\* Where the permit of decision i can be found: in a list, with a thread that
\* is about to file it or has taken it, or spent on an effect.
Places(i) ==
  {<<"list", l, k>> : l \in {l \in Ids : \E k \in DOMAIN lists[l] : lists[l][k].id = i},
                      k \in {k \in Ids : \E l \in Ids : k \in DOMAIN lists[l] /\ lists[l][k].id = i}}
  \cup {<<"thread", t>> : t \in {t \in Threads : held[t].id = i}}
  \cup {<<"effect", e>> : e \in {e \in effects : e.id = i}}

\* One allow is never in two hands: whatever threads fetch, pop and unlink the
\* same lists, no permit is taken twice and none survives its effect
\* (boundary.py execute).
PermitInOnePlace == \A i \in Ids : Cardinality(Places(i)) <= 1

\* In a mediated mode no single-use authority pays for two effects, although
\* two authorizations may both have found it unspent (policy.py: validated
\* without mutation, consumed immediately before the effect).
SingleUse ==
  Mediated => \A e, f \in effects : e # f => Needs[e.call] \cap Needs[f.call] = {}

\* In a mediated mode nothing comes of an execution begun after the local
\* capability was revoked or its lease ended, neither at Arcade nor on the
\* recorder; in every mode no effect is recorded on a lapsed permit.
NothingAfterLapse ==
  /\ \A e \in effects : ~e.lapsed
  /\ Mediated => \A e \in effects \cup remote : ~e.stale

\* Authority is not burned: what has been spent has produced an effect, is in
\* the hands of an execution about to record one, or the lease ended while the
\* execution that spent it was under way (policy.py spends only after every
\* check of its own).
SpentForAnEffect ==
  \A a \in spent :
    \/ \E e \in effects : a \in Needs[e.call]
    \/ \E t \in Threads : pc[t] = "apply" /\ a \in Needs[cur[t]]
    \/ now >= LeaseEnd

\* The provider and the recorder agree: an effect of a tool Arcade executes was
\* executed there under the same allow, and in a mediated mode an execution
\* Arcade confirmed becomes an effect unless the lease ends under way.
ProviderAndRecorderAgree ==
  /\ \A e \in effects : ExecutesRemotely(e.call) => e \in remote
  /\ Mediated => \A r \in remote :
       \/ r \in effects
       \/ \E t \in Threads : pc[t] \in {"consume", "apply"} /\ held[t].id = r.id
       \/ now >= LeaseEnd

\* Every call of a hook or a tool body returns, also when another thread takes
\* the entry it was about to take.
EveryOperationEnds == \A t \in Threads : pc[t] # "idle" ~> pc[t] = "idle"

\* The grant an entry or an event stands for.
GrantOf(e) == [id |-> e.id, call |-> e.call]

EntriesInLists == UNION {{lists[l][k] : k \in DOMAIN lists[l]} : l \in Ids}
EntriesInHand == {held[t] : t \in Threads} \ {NoEntry}

\* The boundary implements SingleUseGrant: a grant is live while its entry is
\* in a list, even one that was unlinked, or in a thread's hands.
Abstract == INSTANCE SingleUseGrant WITH
  enforced <- Mediated,
  live <- {GrantOf(e) : e \in EntriesInLists \cup EntriesInHand},
  done <- {GrantOf(e) : e \in effects}

\* Every step of the boundary is a step of the abstract promise or invisible
\* to it.
ImplementsSingleUseGrant == Abstract!Spec
-----------------------------------------------------------------------------
(***************************************************************************)
(* The record and the table have no lock, so what they promise depends on  *)
(* who uses the boundary at a time.                                        *)
(***************************************************************************)
\* Only one thread uses the boundary, as in a run of the benchmark.
OneThread == \A t, u \in Threads : t = u

\* No two threads are inside the boundary with one call.
Apart == \A t, u \in Threads : cur[t] = cur[u] => t = u \/ cur[t] = NoCall

\* Each effect has its own allow, over the very call, still on the record the
\* benchmark grades (boundary.py overrules the LAST decision when no permit can
\* be minted): of any number of threads while the lease runs, since until then
\* minting does not fail, and of a single one for good.
EffectsAreOnRecord ==
  OneThread \/ ~Mediated \/ now < LeaseEnd =>
    \A e \in effects : decisions[e.id] = [call |-> e.call, allowed |-> TRUE]

\* No unspent decision is lost: every list that holds one is the list its
\* digest maps to, unless two threads were in the boundary with one call.
NoPermitStranded ==
  \A l \in Ids : lists[l] # <<>> => \E d \in Calls : pending[d] = l
-----------------------------------------------------------------------------
(***************************************************************************)
(* Statements of the repository that the code does not live up to.         *)
(***************************************************************************)
\* SOL-AGENTGYM-REVIEW.md 21-22: stale evidence denies and never escapes, so
\* every authorization leaves a decision on the record.
EveryRequestIsDecided == Len(decisions) = asked
=============================================================================
