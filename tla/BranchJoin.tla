------------------------------ MODULE BranchJoin ------------------------------
(***************************************************************************)
(* The branch capability registry of agentgym/state.py: parallel branches  *)
(* are granted one capability each, a join presents one event per branch,  *)
(* and a join that presents exactly the grants of its tenant is valid and  *)
(* may be consumed once.                                                   *)
(*                                                                         *)
(* The loop over the presented events is modelled event by event.  The     *)
(* registry's re-entrant lock is held while the events are read; consume   *)
(* holds it until the capabilities are spent, an authorization and the     *)
(* effect oracle release it before they form their verdict.                *)
(***************************************************************************)
EXTENDS Naturals, Sequences

CONSTANTS
  Threads,       \* concurrent callers of one registry
  NoThread,      \* nobody holds the lock
  Capabilities,  \* capability names that may be presented
  Branches, Tenants, Digests,
  Issued,        \* capabilities the trusted seed provisions
  Grant,         \* [Issued -> Grants]: what each was issued for
  Tenant,        \* the tenant every caller joins for
  Garbage,       \* an event with a missing, unknown or ill-typed field
  Presentable,   \* the events callers present
  MaxEvents      \* bound: events in one presentation

Grants == [branch : Branches, tenant : Tenants, digest : Digests]
GoodEvent == [capability : Capabilities, branch : Branches, tenant : Tenants, digest : Digests]
Event == GoodEvent \cup {Garbage}

ASSUME RegistryAssumption ==
  /\ NoThread \notin Threads
  /\ Issued \subseteq Capabilities /\ Grant \in [Issued -> Grants]
  /\ Tenant \in Tenants
  /\ Garbage \notin GoodEvent /\ Garbage \notin Digests
  /\ Presentable \subseteq Event
  /\ MaxEvents \in Nat

\* An authorization and a consumption require unspent capabilities; the oracle
\* asks whether a join that has taken effect was a genuine one.
Purposes == {"authorize", "consume", "oracle"}

VARIABLES
  lock,      \* the thread inside the registry's lock
  spent,     \* BranchCapabilityRegistry._spent
  joins,     \* history: the capabilities each consumption spent, in order
  pc,        \* what each thread does next
  purpose,   \* why it called join
  events,    \* history: the events it has read
  scan       \* the locals of its loop

vars == <<lock, spent, joins, pc, purpose, events, scan>>

Scan == [presented : SUBSET Capabilities, digestOf : [Branches -> Digests \cup {Garbage}],
         confusion : BOOLEAN, reuse : BOOLEAN, drift : BOOLEAN,
         unknown : BOOLEAN, malformed : BOOLEAN, replayed : BOOLEAN]

\* Before the first event; Garbage stands for a branch not yet seen.
FreshScan == [presented |-> {}, digestOf |-> [b \in Branches |-> Garbage],
              confusion |-> FALSE, reuse |-> FALSE, drift |-> FALSE,
              unknown |-> FALSE, malformed |-> FALSE, replayed |-> FALSE]
-----------------------------------------------------------------------------
\* Mutant: a capability is compared with the branch and tenant it was issued for,
\* not with the request.
DriftsFromBranch(e) == e.capability \in Issued /\ e.branch # Grant[e.capability].branch
\* The event is for another branch or another request than its grant.
DriftsFromGrant(e) ==
  /\ e.capability \in Issued
  /\ e.branch # Grant[e.capability].branch \/ e.digest # Grant[e.capability].digest

\* The event is for another tenant than the join's or its grant's.
CrossesTenant(e) ==
  \/ e.tenant # Tenant
  \/ e.capability \in Issued /\ e.tenant # Grant[e.capability].tenant

\* Mutant: the capability is noted before the fields are validated.
AfterGarbagePresented(s) == [s EXCEPT !.malformed = TRUE, !.presented = @ \cup {Garbage}]
\* One turn of the loop on an event that fails validation.
AfterGarbage(s) == [s EXCEPT !.malformed = TRUE]

\* One turn of the loop on a well-formed event: every flag is sticky, and the
\* first digest seen for a branch is the one its retries must repeat.
AfterEvent(s, e) ==
  [presented |-> s.presented \cup {e.capability},
   digestOf  |-> [s.digestOf EXCEPT ![e.branch] = IF @ = Garbage THEN e.digest ELSE @],
   confusion |-> s.confusion \/ CrossesTenant(e),
   reuse     |-> s.reuse \/ e.capability \in s.presented,
   drift     |-> s.drift \/ DriftsFromGrant(e) \/ s.digestOf[e.branch] \notin {Garbage, e.digest},
   unknown   |-> s.unknown \/ e.capability \notin Issued,
   malformed |-> s.malformed,
   replayed  |-> s.replayed \/ e.capability \in spent]

TenantGrants == {c \in Issued : Grant[c].tenant = Tenant}

\* Mutant: a join need not present every branch.
AcceptsSubset(s, n) == n > 0 /\ ~s.confusion /\ ~s.reuse /\ ~s.drift /\ ~s.unknown /\ ~s.malformed
\* The verdict on n events, apart from replays.
Accepts(s, n) ==
  /\ n > 0
  /\ ~s.confusion /\ ~s.reuse /\ ~s.drift /\ ~s.unknown /\ ~s.malformed
  /\ s.presented = TenantGrants

Valid(t) ==
  /\ Accepts(scan[t], Len(events[t]))
  /\ purpose[t] # "oracle" => ~scan[t].replayed
-----------------------------------------------------------------------------
Init ==
  /\ lock = NoThread
  /\ spent = {}
  /\ joins = <<>>
  /\ pc = [t \in Threads |-> "idle"]
  /\ purpose = [t \in Threads |-> "authorize"]
  /\ events = [t \in Threads |-> <<>>]
  /\ scan = [t \in Threads |-> FreshScan]

Goto(t, label) == pc' = [pc EXCEPT ![t] = label]

\* join or consume is called and takes the lock.
Enter(t, p) ==
  /\ pc[t] = "idle"
  /\ lock = NoThread
  /\ lock' = t
  /\ purpose' = [purpose EXCEPT ![t] = p]
  /\ Goto(t, "scan")
  /\ UNCHANGED <<spent, joins, events, scan>>

Read(t, e) ==
  /\ pc[t] = "scan"
  /\ Len(events[t]) < MaxEvents
  /\ events' = [events EXCEPT ![t] = Append(@, e)]
  /\ scan' = [scan EXCEPT ![t] =
       IF e = Garbage THEN AfterGarbage(@) ELSE AfterEvent(@, e)]
  /\ UNCHANGED <<lock, spent, joins, pc, purpose>>

\* Mutant: consume verifies and spends under the lock, but not under one lock.
HoldsNoLonger(t) == FALSE
\* The outermost with-block of consume is still open after the inner join.
HoldsOn(t) == purpose[t] = "consume"

\* The events are exhausted; join leaves its with-block.
EndScan(t) ==
  /\ pc[t] = "scan"
  /\ Goto(t, "decide")
  /\ lock' = IF HoldsOn(t) THEN lock ELSE NoThread
  /\ UNCHANGED <<spent, joins, purpose, events, scan>>

\* The call returns: its locals are gone, and the lock if it still has it.
Return(t) ==
  /\ lock' = IF lock = t THEN NoThread ELSE lock
  /\ Goto(t, "idle")
  /\ purpose' = [purpose EXCEPT ![t] = "authorize"]
  /\ events' = [events EXCEPT ![t] = <<>>]
  /\ scan' = [scan EXCEPT ![t] = FreshScan]

\* _spent.update over the presented events.
Spends(t) == {events[t][i].capability : i \in DOMAIN events[t]}

Spend(t) ==
  /\ pc[t] = "decide"
  /\ purpose[t] = "consume" /\ Valid(t)
  /\ spent' = spent \cup Spends(t)
  /\ joins' = Append(joins, Spends(t))
  /\ Return(t)

\* A verdict is returned and nothing is spent.
Answer(t) ==
  /\ pc[t] = "decide"
  /\ purpose[t] # "consume" \/ ~Valid(t)
  /\ Return(t)
  /\ UNCHANGED <<spent, joins>>

Step(t) ==
  \/ \E p \in Purposes : Enter(t, p)
  \/ \E e \in Presentable : Read(t, e)
  \/ EndScan(t)
  \/ Spend(t)
  \/ Answer(t)

Next == \E t \in Threads : Step(t)

Spec == Init /\ [][Next]_vars
-----------------------------------------------------------------------------
(***************************************************************************)
(* Properties                                                              *)
(***************************************************************************)
TypeOK ==
  /\ lock \in Threads \cup {NoThread}
  /\ spent \in SUBSET Capabilities
  /\ joins \in Seq(SUBSET Capabilities)
  /\ pc \in [Threads -> {"idle", "scan", "decide"}]
  /\ purpose \in [Threads -> Purposes]
  /\ events \in [Threads -> Seq(Event)]
  /\ scan \in [Threads -> Scan]

\* The presentation is a list of the tenant's grants: each event restates a
\* grant of the tenant, and each grant is presented by one event.
ExactJoin(es) ==
  /\ es # <<>>
  /\ \A i \in DOMAIN es :
       /\ es[i] # Garbage
       /\ es[i].capability \in TenantGrants
       /\ Grant[es[i].capability] =
            [branch |-> es[i].branch, tenant |-> es[i].tenant, digest |-> es[i].digest]
  /\ \A c \in TenantGrants : \E i \in DOMAIN es :
       es[i].capability = c /\ \A j \in DOMAIN es : es[j].capability = c => j = i

\* Two grants for one branch that differ in the request can never be joined:
\* the loop takes the second for a drifted retry.
Joinable ==
  \A c, d \in TenantGrants : Grant[c].branch = Grant[d].branch => Grant[c].digest = Grant[d].digest

\* The sticky flags of the loop add up to the reference: an answer is valid
\* exactly when the presentation lists the tenant's grants and, for a consumer
\* that still holds the lock, none of them is spent; the oracle looks past that
\* (state.py join).
VerdictIsExact ==
  \A t \in Threads : pc[t] = "decide" =>
    LET exact == ExactJoin(events[t]) /\ Joinable
        unspent == TenantGrants \cap spent = {}
    IN CASE purpose[t] = "consume" -> Valid(t) <=> exact /\ unspent
         [] purpose[t] = "oracle" -> Valid(t) <=> exact
         [] purpose[t] = "authorize" -> (Valid(t) => exact) /\ (exact /\ unspent => Valid(t))

\* The registry implements AuthorityStore.  The tenant's grants are one holding,
\* the last event read gives a verifier the store's word, and the update of
\* _spent consumes the holding (state.py join, consume): a join is valid or
\* consumed only whole, whatever was presented, a verdict is no older than the
\* lock it was formed under, and of any number of threads with the same genuine
\* join one consumes it.
Store == INSTANCE AuthorityStore WITH
  Callers <- Threads,
  holdings <- {TenantGrants},
  consumed <- joins,
  word <- [t \in Threads |->
    IF pc[t] = "decide" /\ purpose[t] # "consume" /\ Valid(t)
    THEN {[holding |-> Spends(t), fresh |-> purpose[t] = "authorize"]}
    ELSE {}]
ImplementsAuthorityStore == Store!Spec
=============================================================================
