----------------------- MODULE ExecutionBoundary_proofs -----------------------
(***************************************************************************)
(* Theorems about ExecutionBoundary for every set of threads, calls and    *)
(* authorities, every lease and every policy verdict.                      *)
(***************************************************************************)
EXTENDS ExecutionBoundary, SequenceTheorems, TLAPS

\* The type invariant, inductive by itself: a decision has an index among Ids
\* because every authorization is counted, and a thread past a given label
\* holds what that label needs.
HeldTypes ==
  \A t \in Threads :
    /\ pc[t] # "idle" => cur[t] \in Calls
    /\ pc[t] \in {"append", "pop", "test", "unlink"} => ref[t] \in Ids
    /\ pc[t] \in Labels \ {"idle", "pop"} => held[t] \in Entry

TypeInv == TypeOK /\ HeldTypes

LEMMA TypeInit == Init => TypeInv
<1> SUFFICES ASSUME Init PROVE TypeInv
  OBVIOUS
<1>1. mode \in Modes /\ now \in Time /\ asked \in 0 .. MaxDecisions
  BY BoundsAssumption DEF Init, Time
<1>7. revoked \in BOOLEAN
  BY DEF Init
<1>2. decisions \in Seq(Decision) /\ Len(decisions) <= asked
  BY DEF Init
<1>3. /\ pending \in [Calls -> Ids \cup {NoList}]
      /\ lists \in [Ids -> Seq(Entry)]
  BY DEF Init, NoList
<1>4. /\ spent \in SUBSET Authorities /\ remote \in SUBSET Event /\ effects \in SUBSET Event
  BY DEF Init
<1>5. /\ pc \in [Threads -> Labels]
      /\ cur \in [Threads -> Calls \cup {NoCall}]
      /\ ref \in [Threads -> Ids \cup {NoList}]
      /\ held \in [Threads -> Entry \cup {NoEntry}]
      /\ stale \in [Threads -> BOOLEAN]
  BY DEF Init, Labels
<1>6. HeldTypes
  BY DEF Init, HeldTypes
<1> QED
  BY <1>1, <1>2, <1>3, <1>4, <1>5, <1>6, <1>7 DEF TypeInv, TypeOK

(***************************************************************************)
(* One lemma for what every action leaves alone or shares, then one per    *)
(* action.                                                                 *)
(***************************************************************************)
\* A thread that returns holds nothing.
LEMMA ReturnTypes ==
  ASSUME TypeInv, NEW t \in Threads, Return(t)
  PROVE  /\ pc' \in [Threads -> Labels]
         /\ cur' \in [Threads -> Calls \cup {NoCall}]
         /\ ref' \in [Threads -> Ids \cup {NoList}]
         /\ held' \in [Threads -> Entry \cup {NoEntry}]
         /\ stale' \in [Threads -> BOOLEAN]
         /\ HeldTypes'
<1>1. pc' \in [Threads -> Labels] /\ stale' \in [Threads -> BOOLEAN]
  BY DEF TypeInv, TypeOK, Return, Goto, Labels
<1>2. /\ cur' \in [Threads -> Calls \cup {NoCall}]
      /\ ref' \in [Threads -> Ids \cup {NoList}]
      /\ held' \in [Threads -> Entry \cup {NoEntry}]
  BY DEF TypeInv, TypeOK, Return
<1>3. HeldTypes'
  BY DEF TypeInv, TypeOK, HeldTypes, Return, Goto, Labels
<1> QED
  BY <1>1, <1>2, <1>3

\* Moving a thread to another label and touching nothing else keeps its types
\* when what the new label needs is already held.
LEMMA GotoTypes ==
  ASSUME TypeInv, NEW t \in Threads, NEW l \in Labels, Goto(t, l),
         l # "idle" => cur[t] \in Calls,
         l \in {"append", "pop", "test", "unlink"} => ref[t] \in Ids,
         l \in Labels \ {"idle", "pop"} => held[t] \in Entry,
         UNCHANGED <<cur, ref, held>>
  PROVE  pc' \in [Threads -> Labels] /\ HeldTypes'
BY DEF TypeInv, TypeOK, HeldTypes, Goto

LEMMA RecordTypes ==
  ASSUME TypeInv, NEW t \in Threads, NEW c \in Calls, NEW b \in BOOLEAN,
         Ask(t), Record(c, b)
  PROVE  /\ decisions' \in Seq(Decision) /\ Len(decisions') <= asked'
         /\ asked' \in 0 .. MaxDecisions
         /\ Len(decisions) + 1 \in Ids
<1> DEFINE d == [call |-> c, allowed |-> b]
<1>1. d \in Decision
  BY DEF Decision
<1>2. decisions \in Seq(Decision) /\ Len(decisions) \in Nat /\ Len(decisions) <= asked
  BY LenProperties DEF TypeInv, TypeOK
<1>3. asked \in Nat /\ asked < MaxDecisions /\ asked' = asked + 1 /\ MaxDecisions \in Nat
  BY BoundsAssumption DEF TypeInv, TypeOK, Ask
<1>4. decisions' \in Seq(Decision) /\ Len(decisions') = Len(decisions) + 1
  BY <1>1, <1>2, AppendProperties DEF Record
<1> QED
  BY <1>2, <1>3, <1>4 DEF Ids

LEMMA WindowTypes ==
  ASSUME NEW start \in Nat
  PROVE  Window(start).from \in Nat /\ Window(start).until \in Nat
BY BoundsAssumption DEF Window

LEMMA CheckDeniesTypes ==
  ASSUME TypeInv, NEW t \in Threads, NEW c \in Calls, NEW ok \in BOOLEAN, CheckDenies(t, c, ok)
  PROVE  TypeInv'
<1>1. /\ decisions' \in Seq(Decision) /\ Len(decisions') <= asked'
      /\ asked' \in 0 .. MaxDecisions
  BY RecordTypes DEF CheckDenies
<1> QED
  BY <1>1 DEF CheckDenies, TypeInv, TypeOK, HeldTypes, gateVars, tableVars, outVars, threadVars

LEMMA CheckRaisesTypes ==
  ASSUME TypeInv, NEW t \in Threads, NEW c \in Calls, NEW ok \in BOOLEAN, CheckRaises(t, c, ok)
  PROVE  TypeInv'
<1>1. asked' \in 0 .. MaxDecisions /\ Len(decisions) <= asked'
  BY LenProperties, BoundsAssumption DEF CheckRaises, Ask, TypeInv, TypeOK
<1> QED
  BY <1>1 DEF CheckRaises, TypeInv, TypeOK, HeldTypes, gateVars, tableVars, outVars, threadVars

LEMMA CheckAllowsTypes ==
  ASSUME TypeInv, NEW t \in Threads, NEW c \in Calls, NEW ok \in BOOLEAN, CheckAllows(t, c, ok)
  PROVE  TypeInv'
<1>1. /\ decisions' \in Seq(Decision) /\ Len(decisions') <= asked'
      /\ asked' \in 0 .. MaxDecisions
      /\ Len(decisions) + 1 \in Ids
  BY RecordTypes DEF CheckAllows
<1> DEFINE e == [id |-> Len(decisions) + 1, call |-> c, from |-> 0, until |-> 0]
<1>2. e \in Entry
  BY <1>1 DEF Entry
<1>3. held' = [held EXCEPT ![t] = e] /\ cur' = [cur EXCEPT ![t] = c] /\ pc' = [pc EXCEPT ![t] = "issue"]
  BY DEF CheckAllows, Goto
<1> HIDE DEF e
<1>4. /\ held' \in [Threads -> Entry \cup {NoEntry}]
      /\ cur' \in [Threads -> Calls \cup {NoCall}]
      /\ pc' \in [Threads -> Labels]
  BY <1>2, <1>3 DEF TypeInv, TypeOK, Labels
<1>5. HeldTypes'
  BY <1>2, <1>3 DEF TypeInv, TypeOK, HeldTypes, CheckAllows, Labels
<1> QED
  BY <1>1, <1>4, <1>5 DEF CheckAllows, TypeInv, TypeOK, gateVars, tableVars, outVars

LEMMA IssueTypes ==
  ASSUME TypeInv, NEW t \in Threads, Issue(t)
  PROVE  TypeInv'
<1> DEFINE start == IF Mediated THEN IssuedAt ELSE now
           e == [held[t] EXCEPT !.from = Window(start).from, !.until = Window(start).until]
           list == IF pending[cur[t]] = NoList THEN held[t].id ELSE pending[cur[t]]
<1>1. cur[t] \in Calls /\ held[t] \in Entry
  BY DEF Issue, TypeInv, HeldTypes, Labels
<1>2. start \in Nat
  BY BoundsAssumption DEF TypeInv, TypeOK, Time
<1>3. e \in Entry
  <2> HIDE DEF start
  <2>1. Window(start).from \in Nat /\ Window(start).until \in Nat
    BY <1>2, WindowTypes
  <2> QED
    BY <1>1, <2>1 DEF Entry
<1>4. list \in Ids
  BY <1>1 DEF TypeInv, TypeOK, Entry
<1>5. /\ held' = [held EXCEPT ![t] = e]
      /\ pending' = [pending EXCEPT ![cur[t]] = list]
      /\ ref' = [ref EXCEPT ![t] = list]
      /\ pc' = [pc EXCEPT ![t] = "append"]
  BY DEF Issue, Goto, Digest, TypeInv, TypeOK
<1> HIDE DEF e, list
<1>6. /\ held' \in [Threads -> Entry \cup {NoEntry}]
      /\ pending' \in [Calls -> Ids \cup {NoList}]
      /\ ref' \in [Threads -> Ids \cup {NoList}]
      /\ pc' \in [Threads -> Labels]
  BY <1>3, <1>4, <1>5 DEF TypeInv, TypeOK, Labels
<1>7. HeldTypes'
  <2> SUFFICES ASSUME NEW u \in Threads
               PROVE  /\ pc'[u] # "idle" => cur'[u] \in Calls
                      /\ pc'[u] \in {"append", "pop", "test", "unlink"} => ref'[u] \in Ids
                      /\ pc'[u] \in Labels \ {"idle", "pop"} => held'[u] \in Entry
    BY DEF HeldTypes
  <2>1. cur' = cur
    BY DEF Issue
  <2>2. CASE u = t
    BY <1>1, <1>3, <1>4, <1>5, <2>1, <2>2 DEF TypeInv, TypeOK
  <2>3. CASE u # t
    BY <1>5, <2>1, <2>3 DEF TypeInv, TypeOK, HeldTypes
  <2> QED
    BY <2>2, <2>3
<1> QED
  BY <1>6, <1>7 DEF Issue, TypeInv, TypeOK, gateVars, outVars

LEMMA IssueFailsTypes ==
  ASSUME TypeInv, NEW t \in Threads, IssueFails(t)
  PROVE  TypeInv'
<1> DEFINE d == [call |-> cur[t], allowed |-> FALSE]
<1>1. d \in Decision
  BY DEF IssueFails, TypeInv, HeldTypes, Decision, Labels
<1>2. decisions \in Seq(Decision) /\ Len(decisions) <= asked
  BY DEF TypeInv, TypeOK
<1>3. decisions' = [decisions EXCEPT ![Len(decisions)] = d]
  BY DEF IssueFails, Overrule
<1> HIDE DEF d
<1>4. decisions' \in Seq(Decision) /\ Len(decisions') = Len(decisions)
  <2>1. CASE decisions = <<>>
    <3>1. decisions' = [k \in {} |-> d]
      BY <1>3, <2>1
    <3>2. decisions' = decisions
      BY <3>1, <2>1
    <3> QED
      BY <1>2, <3>2
  <2>2. CASE decisions # <<>>
    <3>1. Len(decisions) \in 1 .. Len(decisions)
      BY <1>2, <2>2, EmptySeq, LenProperties
    <3> QED
      BY <1>1, <1>2, <1>3, <3>1, ExceptSeq
  <2> QED
    BY <2>1, <2>2
<1>5. Return(t)
  BY DEF IssueFails
<1> QED
  BY <1>2, <1>4, <1>5, ReturnTypes DEF IssueFails, TypeInv, TypeOK, gateVars, tableVars, outVars

LEMMA AppendEntryTypes ==
  ASSUME TypeInv, NEW t \in Threads, AppendEntry(t)
  PROVE  TypeInv'
<1>1. ref[t] \in Ids /\ held[t] \in Entry
  BY DEF AppendEntry, TypeInv, HeldTypes, Labels
<1>2. Append(lists[ref[t]], held[t]) \in Seq(Entry)
  BY <1>1, AppendProperties DEF TypeInv, TypeOK
<1>3. lists' \in [Ids -> Seq(Entry)]
  BY <1>2 DEF AppendEntry, TypeInv, TypeOK
<1>4. Return(t)
  BY DEF AppendEntry
<1> QED
  BY <1>3, <1>4, ReturnTypes DEF AppendEntry, TypeInv, TypeOK, gateVars, outVars

LEMMA FetchTypes ==
  ASSUME TypeInv, NEW t \in Threads, NEW c \in Calls, Fetch(t, c)
  PROVE  TypeInv'
<1>1. pending[c] \in Ids
  BY DEF Fetch, Digest, TypeInv, TypeOK
<1>2. /\ pc' = [pc EXCEPT ![t] = "pop"]
      /\ cur' = [cur EXCEPT ![t] = c]
      /\ ref' = [ref EXCEPT ![t] = pending[c]]
      /\ held' = held
  BY DEF Fetch, Goto, Digest
<1>3. stale' \in [Threads -> BOOLEAN]
  <2> DEFINE b == revoked \/ now >= LeaseEnd
  <2>1. stale' = [stale EXCEPT ![t] = b] /\ b \in BOOLEAN
    BY DEF Fetch
  <2> HIDE DEF b
  <2> QED
    BY <2>1 DEF TypeInv, TypeOK
<1>4. /\ cur' \in [Threads -> Calls \cup {NoCall}]
      /\ pc' \in [Threads -> Labels]
      /\ ref' \in [Threads -> Ids \cup {NoList}]
  BY <1>1, <1>2 DEF TypeInv, TypeOK, Labels
<1>5. HeldTypes'
  BY <1>1, <1>2 DEF TypeInv, TypeOK, HeldTypes, Labels
<1> QED
  BY <1>2, <1>3, <1>4, <1>5 DEF Fetch, TypeInv, TypeOK, gateVars, tableVars, outVars

LEMMA PopTypes ==
  ASSUME TypeInv, NEW t \in Threads, Pop(t)
  PROVE  TypeInv'
<1> DEFINE list == lists[ref[t]]
<1>1. ref[t] \in Ids /\ cur[t] \in Calls /\ list \in Seq(Entry) /\ list # <<>>
  BY DEF Pop, TypeInv, TypeOK, HeldTypes, Labels
<1>2. Head(list) \in Entry /\ Tail(list) \in Seq(Entry)
  BY <1>1, HeadTailProperties
<1>3. /\ held' = [held EXCEPT ![t] = Head(list)]
      /\ lists' = [lists EXCEPT ![ref[t]] = Tail(list)]
      /\ pc' = [pc EXCEPT ![t] = "test"]
  BY DEF Pop, Goto, PoppedList
<1> HIDE DEF list
<1>4. /\ held' \in [Threads -> Entry \cup {NoEntry}]
      /\ lists' \in [Ids -> Seq(Entry)]
      /\ pc' \in [Threads -> Labels]
  BY <1>2, <1>3 DEF TypeInv, TypeOK, Labels
<1>5. HeldTypes'
  BY <1>1, <1>2, <1>3 DEF TypeInv, TypeOK, HeldTypes, Pop, Labels
<1> QED
  BY <1>4, <1>5 DEF Pop, TypeInv, TypeOK, gateVars, outVars

LEMMA TestTypes ==
  ASSUME TypeInv, NEW t \in Threads, Test(t)
  PROVE  TypeInv'
<1> DEFINE label == IF Unlinks(lists[ref[t]]) THEN "unlink" ELSE "verify"
<1>1. cur[t] \in Calls /\ ref[t] \in Ids /\ held[t] \in Entry
  BY DEF Test, TypeInv, HeldTypes, Labels
<1>2. Goto(t, label) /\ label \in {"unlink", "verify"} /\ UNCHANGED <<cur, ref, held>>
  BY DEF Test
<1> HIDE DEF label
<1>3. pc' \in [Threads -> Labels] /\ HeldTypes'
  BY <1>1, <1>2, GotoTypes DEF Labels
<1> QED
  BY <1>3 DEF Test, TypeInv, TypeOK, gateVars, tableVars, outVars

LEMMA UnlinkTypes ==
  ASSUME TypeInv, NEW t \in Threads, Unlink(t)
  PROVE  TypeInv'
<1>1. cur[t] \in Calls /\ held[t] \in Entry
  BY DEF Unlink, TypeInv, HeldTypes, Labels
<1>2. pc' \in [Threads -> Labels] /\ HeldTypes'
  BY <1>1, GotoTypes DEF Unlink, Labels
<1>3. pending' \in [Calls -> Ids \cup {NoList}]
  BY <1>1 DEF Unlink, Digest, TypeInv, TypeOK
<1> QED
  BY <1>2, <1>3 DEF Unlink, TypeInv, TypeOK, gateVars, outVars

\* A thread whose call fails returns and leaves everything else alone.
LEMMA FailureTypes ==
  ASSUME TypeInv, NEW t \in Threads, Return(t),
         UNCHANGED <<gateVars, asked, decisions, tableVars, outVars>>
  PROVE  TypeInv'
BY ReturnTypes DEF TypeInv, TypeOK, gateVars, tableVars, outVars

LEMMA VerifyTypes ==
  ASSUME TypeInv, NEW t \in Threads, NEW ok \in BOOLEAN, Verify(t, ok)
  PROVE  TypeInv'
<1> DEFINE label == IF ExecutesRemotely(cur[t]) THEN "remote" ELSE AfterRemote
<1>1. cur[t] \in Calls /\ held[t] \in Entry
  BY DEF Verify, TypeInv, HeldTypes, Labels
<1>2. Goto(t, label) /\ label \in {"remote", "consume", "apply"} /\ UNCHANGED <<cur, ref, held>>
  BY DEF Verify, AfterRemote
<1> HIDE DEF label
<1>3. pc' \in [Threads -> Labels] /\ HeldTypes'
  BY <1>1, <1>2, GotoTypes DEF Labels
<1> QED
  BY <1>3 DEF Verify, TypeInv, TypeOK, gateVars, tableVars, outVars

\* What is put on the recorder or on Arcade's record is an event.
LEMMA EventTypes ==
  ASSUME TypeInv, NEW t \in Threads, pc[t] \in {"remote", "apply"}
  PROVE  EventOf(t) \in Event
<1> DEFINE gone == now < held[t].from \/ now >= held[t].until
<1>1. cur[t] \in Calls /\ held[t].id \in Ids /\ held[t].call \in Calls
  BY DEF TypeInv, HeldTypes, Labels, Entry
<1>2. stale[t] \in BOOLEAN
  BY DEF TypeInv, TypeOK
<1>3. gone \in BOOLEAN
  OBVIOUS
<1>4. EventOf(t) = [id |-> held[t].id, decided |-> held[t].call, call |-> cur[t],
                    stale |-> stale[t], lapsed |-> gone]
  BY DEF EventOf
<1> HIDE DEF gone
<1> QED
  BY <1>1, <1>2, <1>3, <1>4 DEF Event

LEMMA RemoteExecuteTypes ==
  ASSUME TypeInv, NEW t \in Threads, RemoteExecute(t)
  PROVE  TypeInv'
<1>1. cur[t] \in Calls /\ held[t] \in Entry
  BY DEF RemoteExecute, TypeInv, HeldTypes, Labels
<1>2. AfterRemote \in {"consume", "apply"}
  BY DEF AfterRemote
<1>3. pc' \in [Threads -> Labels] /\ HeldTypes'
  BY <1>1, <1>2, GotoTypes DEF RemoteExecute, Labels
<1>4. remote' \in SUBSET Event
  BY EventTypes DEF RemoteExecute, TypeInv, TypeOK
<1> QED
  BY <1>3, <1>4 DEF RemoteExecute, TypeInv, TypeOK, gateVars, tableVars

LEMMA ConsumeTypes ==
  ASSUME TypeInv, NEW t \in Threads, Consume(t)
  PROVE  TypeInv'
<1>1. cur[t] \in Calls /\ held[t] \in Entry
  BY DEF Consume, TypeInv, HeldTypes, Labels
<1>2. pc' \in [Threads -> Labels] /\ HeldTypes'
  BY <1>1, GotoTypes DEF Consume, Labels
<1>3. spent' \in SUBSET Authorities
  BY <1>1, NeedsAssumption DEF Consume, Spends, TypeInv, TypeOK
<1> QED
  BY <1>2, <1>3 DEF Consume, TypeInv, TypeOK, gateVars, tableVars

LEMMA ApplyTypes ==
  ASSUME TypeInv, NEW t \in Threads, Apply(t)
  PROVE  TypeInv'
<1>1. effects' \in SUBSET Event
  BY EventTypes DEF Apply, TypeInv, TypeOK
<1>2. Return(t)
  BY DEF Apply
<1> QED
  BY <1>1, <1>2, ReturnTypes DEF Apply, TypeInv, TypeOK, gateVars, tableVars

LEMMA HostTypes ==
  ASSUME TypeInv, Tick \/ Revoke
  PROVE  TypeInv'
<1>1. now' \in Time
  BY BoundsAssumption DEF Tick, Revoke, TypeInv, TypeOK, Time
<1>2. revoked' \in BOOLEAN
  BY DEF Tick, Revoke, TypeInv, TypeOK
<1> QED
  BY <1>1, <1>2 DEF Tick, Revoke, TypeInv, TypeOK, HeldTypes, tableVars, outVars, threadVars

LEMMA TypeStep == TypeInv /\ [Next]_vars => TypeInv'
<1> SUFFICES ASSUME TypeInv, [Next]_vars PROVE TypeInv'
  OBVIOUS
<1>1. ASSUME NEW t \in Threads, Authorize(t) PROVE TypeInv'
  BY <1>1, CheckDeniesTypes, CheckRaisesTypes, CheckAllowsTypes, IssueTypes,
     IssueFailsTypes, AppendEntryTypes DEF Authorize
<1>2. ASSUME NEW t \in Threads, Execute(t) PROVE TypeInv'
  <2>1. CASE PopFails(t) \/ RemoteFails(t) \/ ConsumeFails(t) \/ ApplyFails(t)
    BY <2>1, FailureTypes DEF PopFails, RemoteFails, ConsumeFails, ApplyFails
  <2>2. CASE \E ok \in BOOLEAN : VerifyFails(t, ok)
    BY <2>2, FailureTypes DEF VerifyFails
  <2>3. CASE \E c \in Calls : Fetch(t, c)
    BY <2>3, FetchTypes
  <2>4. CASE \E ok \in BOOLEAN : Verify(t, ok)
    BY <2>4, VerifyTypes
  <2>5. CASE Pop(t) \/ Test(t) \/ Unlink(t) \/ RemoteExecute(t) \/ Consume(t) \/ Apply(t)
    BY <2>5, PopTypes, TestTypes, UnlinkTypes, RemoteExecuteTypes, ConsumeTypes, ApplyTypes
  <2> QED
    BY <1>2, <2>1, <2>2, <2>3, <2>4, <2>5 DEF Execute
<1>3. CASE Tick \/ Revoke
  BY <1>3, HostTypes
<1>4. CASE UNCHANGED vars
  BY <1>4 DEF vars, gateVars, tableVars, outVars, threadVars, TypeInv, TypeOK, HeldTypes
<1> QED
  BY <1>1, <1>2, <1>3, <1>4 DEF Next

\* The type invariant and what each thread holds at each label.
THEOREM AlwaysTyped == Spec => []TypeInv
<1> QED
  BY TypeInit, TypeStep, PTL DEF Spec

\* Every variable keeps its type: in particular every authorization has an
\* index of its own, however the threads interleave.
THEOREM TypeCorrect == Spec => []TypeOK
<1>1. TypeInv => TypeOK
  BY DEF TypeInv
<1> QED
  BY <1>1, AlwaysTyped, PTL

(***************************************************************************)
(* Exactness and single use.  Only four actions concern a thread that has  *)
(* passed verify_execution's checks; every other step leaves such threads, *)
(* and what has been spent, executed and recorded, as they were.           *)
(***************************************************************************)
AtWork == {"remote", "consume", "apply"}

WorkStep(t) ==
  \/ \E ok \in BOOLEAN : Verify(t, ok)
  \/ RemoteExecute(t)
  \/ Consume(t)
  \/ Apply(t)

SameHands(u) ==
  /\ pc'[u] = pc[u] /\ cur'[u] = cur[u]
  /\ held'[u] = held[u] /\ stale'[u] = stale[u]

Quiet ==
  /\ mode' = mode /\ spent' = spent /\ remote' = remote /\ effects' = effects
  /\ \A u \in Threads : pc'[u] \in AtWork => SameHands(u)

LEMMA ReturnQuiet ==
  ASSUME TypeInv, NEW t \in Threads, Return(t)
  PROVE  \A u \in Threads : pc'[u] # "idle" => u # t /\ SameHands(u)
BY DEF Return, Goto, SameHands, TypeInv, TypeOK

LEMMA FailureQuiet ==
  ASSUME TypeInv, NEW t \in Threads, Return(t), UNCHANGED <<gateVars, outVars>>
  PROVE  Quiet
BY ReturnQuiet DEF Quiet, AtWork, gateVars, outVars

LEMMA QuietStep ==
  ASSUME TypeInv, [Next]_vars, \A t \in Threads : ~WorkStep(t)
  PROVE  Quiet
<1>1. ASSUME NEW t \in Threads, Authorize(t) PROVE Quiet
  <2>1. CASE \E c \in Calls, ok \in BOOLEAN : CheckDenies(t, c, ok) \/ CheckRaises(t, c, ok)
    BY <2>1 DEF CheckDenies, CheckRaises, Quiet, SameHands, gateVars, outVars, threadVars
  <2>2. CASE \E c \in Calls, ok \in BOOLEAN : CheckAllows(t, c, ok)
    BY <2>2 DEF CheckAllows, Goto, Quiet, SameHands, AtWork, TypeInv, TypeOK, gateVars, outVars
  <2>3. CASE Issue(t)
    BY <2>3 DEF Issue, Goto, Quiet, SameHands, AtWork, TypeInv, TypeOK, gateVars, outVars
  <2>4. CASE IssueFails(t) \/ AppendEntry(t)
    BY <2>4, FailureQuiet DEF IssueFails, AppendEntry
  <2> QED
    BY <1>1, <2>1, <2>2, <2>3, <2>4 DEF Authorize
<1>2. ASSUME NEW t \in Threads, Execute(t) PROVE Quiet
  <2>1. CASE \E c \in Calls : Fetch(t, c)
    BY <2>1 DEF Fetch, Goto, Quiet, SameHands, AtWork, TypeInv, TypeOK, gateVars, outVars
  <2>2. CASE Pop(t)
    BY <2>2 DEF Pop, Goto, Quiet, SameHands, AtWork, TypeInv, TypeOK, gateVars, outVars
  <2>3. CASE Unlink(t)
    <3>1. /\ pc' = [pc EXCEPT ![t] = "verify"]
          /\ UNCHANGED <<gateVars, outVars, cur, held, stale>>
      BY <2>3 DEF Unlink, Goto
    <3> QED
      BY <3>1 DEF Quiet, SameHands, AtWork, TypeInv, TypeOK, gateVars, outVars
  <2>4. CASE PopFails(t) \/ RemoteFails(t) \/ ConsumeFails(t) \/ ApplyFails(t)
    BY <2>4, FailureQuiet DEF PopFails, RemoteFails, ConsumeFails, ApplyFails
  <2>5. CASE \E ok \in BOOLEAN : VerifyFails(t, ok)
    BY <2>5, FailureQuiet DEF VerifyFails
  <2>6. CASE Test(t)
    <3> DEFINE label == IF Unlinks(lists[ref[t]]) THEN "unlink" ELSE "verify"
    <3>1. /\ pc' = [pc EXCEPT ![t] = label] /\ label \in {"unlink", "verify"}
          /\ UNCHANGED <<gateVars, outVars, cur, held, stale>>
      BY <2>6 DEF Test, Goto
    <3> HIDE DEF label
    <3> QED
      BY <3>1 DEF Quiet, SameHands, AtWork, TypeInv, TypeOK, gateVars, outVars
  <2> QED
    BY <1>2, <2>1, <2>2, <2>3, <2>4, <2>5, <2>6 DEF Execute, WorkStep
<1>3. CASE Tick \/ Revoke
  BY <1>3 DEF Tick, Revoke, Quiet, SameHands, outVars, threadVars
<1>4. CASE UNCHANGED vars
  BY <1>4 DEF vars, gateVars, outVars, threadVars, Quiet, SameHands
<1> QED
  BY <1>1, <1>2, <1>3, <1>4 DEF Next

\* What the four remaining actions do to the thread that takes them.
LEMMA VerifyWork ==
  ASSUME TypeInv, NEW t \in Threads, NEW ok \in BOOLEAN, Verify(t, ok)
  PROVE  /\ mode' = mode /\ spent' = spent /\ remote' = remote /\ effects' = effects
         /\ UNCHANGED <<cur, held, stale>>
         /\ held[t].call = cur[t]
         /\ pc'[t] \in AtWork
         /\ Mediated => pc'[t] # "apply"
         /\ \A u \in Threads \ {t} : pc'[u] = pc[u]
<1>1. /\ pc' = [pc EXCEPT ![t] = IF ExecutesRemotely(cur[t]) THEN "remote" ELSE AfterRemote]
      /\ UNCHANGED <<gateVars, outVars, cur, held, stale>>
  BY DEF Verify, Goto
<1>2. held[t].call = cur[t]
  BY DEF Verify, Revalidates, Digest
<1> QED
  BY <1>1, <1>2 DEF AfterRemote, AtWork, TypeInv, TypeOK, gateVars, outVars

LEMMA RemoteWork ==
  ASSUME TypeInv, NEW t \in Threads, RemoteExecute(t)
  PROVE  /\ mode' = mode /\ spent' = spent /\ effects' = effects
         /\ remote' = remote \cup {EventOf(t)}
         /\ UNCHANGED <<cur, held, stale>>
         /\ pc[t] = "remote" /\ pc'[t] \in AtWork
         /\ Mediated => pc'[t] # "apply"
         /\ \A u \in Threads \ {t} : pc'[u] = pc[u]
BY DEF RemoteExecute, Goto, AfterRemote, AtWork, TypeInv, TypeOK, gateVars

LEMMA ConsumeWork ==
  ASSUME TypeInv, NEW t \in Threads, Consume(t)
  PROVE  /\ mode' = mode /\ remote' = remote /\ effects' = effects
         /\ Needs[cur[t]] \cap spent = {} /\ spent' = spent \cup Needs[cur[t]]
         /\ UNCHANGED <<cur, held, stale>>
         /\ pc[t] = "consume" /\ pc'[t] = "apply"
         /\ \A u \in Threads \ {t} : pc'[u] = pc[u]
BY DEF Consume, Unspent, Spends, Goto, TypeInv, TypeOK, gateVars

LEMMA ApplyWork ==
  ASSUME TypeInv, NEW t \in Threads, Apply(t)
  PROVE  /\ mode' = mode /\ spent' = spent /\ remote' = remote
         /\ effects' = effects \cup {EventOf(t)}
         /\ pc[t] = "apply" /\ pc'[t] = "idle"
         /\ \A u \in Threads : pc'[u] # "idle" => u # t /\ SameHands(u)
BY ReturnQuiet DEF Apply, Return, Goto, TypeInv, TypeOK, gateVars

\* A thread past the policy check holds the decision on the very call it is
\* executing.
ExactInv ==
  /\ ExactCall
  /\ \A t \in Threads : pc[t] \in AtWork => held[t].call = cur[t]

LEMMA ExactInit == Init => ExactInv
BY DEF Init, ExactInv, ExactCall, AtWork

LEMMA ExactStep == TypeInv /\ ExactInv /\ [Next]_vars => ExactInv'
<1> SUFFICES ASSUME TypeInv, ExactInv, [Next]_vars PROVE ExactInv'
  OBVIOUS
<1>1. CASE \A t \in Threads : ~WorkStep(t)
  BY <1>1, QuietStep DEF Quiet, SameHands, ExactInv, ExactCall
<1>2. ASSUME NEW t \in Threads, NEW ok \in BOOLEAN, Verify(t, ok) PROVE ExactInv'
  BY <1>2, VerifyWork DEF ExactInv, ExactCall
<1>3. ASSUME NEW t \in Threads, RemoteExecute(t) PROVE ExactInv'
  <2>1. held[t].call = cur[t]
    BY <1>3, RemoteWork DEF ExactInv, AtWork
  <2>2. ExactCall'
    BY <1>3, <2>1, RemoteWork DEF ExactInv, ExactCall, EventOf
  <2>3. \A u \in Threads : pc'[u] \in AtWork => held'[u].call = cur'[u]
    BY <1>3, <2>1, RemoteWork DEF ExactInv
  <2> QED
    BY <2>2, <2>3 DEF ExactInv
<1>4. ASSUME NEW t \in Threads, Consume(t) PROVE ExactInv'
  <2>1. held[t].call = cur[t]
    BY <1>4, ConsumeWork DEF ExactInv, AtWork
  <2> QED
    BY <1>4, <2>1, ConsumeWork DEF ExactInv, ExactCall
<1>5. ASSUME NEW t \in Threads, Apply(t) PROVE ExactInv'
  <2>1. held[t].call = cur[t]
    BY <1>5, ApplyWork DEF ExactInv, AtWork
  <2>2. ExactCall'
    BY <1>5, <2>1, ApplyWork DEF ExactInv, ExactCall, EventOf
  <2>3. \A u \in Threads : pc'[u] \in AtWork => held'[u].call = cur'[u]
    BY <1>5, ApplyWork DEF ExactInv, SameHands, AtWork
  <2> QED
    BY <2>2, <2>3 DEF ExactInv
<1> QED
  BY <1>1, <1>2, <1>3, <1>4, <1>5 DEF WorkStep

\* Every effect, and every execution at Arcade, is of the call that was
\* decided, for any number of threads that mix up the calls they are given.
THEOREM EffectsAreExact == Spec => []ExactCall
<1>1. ExactInv => ExactCall
  BY DEF ExactInv
<1> QED
  BY <1>1, ExactInit, ExactStep, AlwaysTyped, PTL DEF Spec

\* Authority is spent before the effect it pays for, and what one thread has
\* spent is nobody else's: the store verifies and spends in one step.
SpendInv ==
  Mediated =>
    /\ \A e \in effects : Needs[e.call] \subseteq spent
    /\ \A t \in Threads : pc[t] = "apply" => Needs[cur[t]] \subseteq spent
    /\ \A t, u \in Threads :
         pc[t] = "apply" /\ pc[u] = "apply" /\ t # u => Needs[cur[t]] \cap Needs[cur[u]] = {}
    /\ \A t \in Threads, e \in effects :
         pc[t] = "apply" => Needs[cur[t]] \cap Needs[e.call] = {}
    /\ SingleUse

LEMMA SpendInit == Init => SpendInv
BY DEF Init, SpendInv, SingleUse

LEMMA SpendStep == TypeInv /\ SpendInv /\ [Next]_vars => SpendInv'
<1> SUFFICES ASSUME TypeInv, SpendInv, [Next]_vars, Mediated' PROVE SpendInv'
  BY DEF SpendInv
<1> DEFINE Frame == /\ mode' = mode /\ spent' = spent /\ effects' = effects
                    /\ \A u \in Threads : pc'[u] = "apply" => pc[u] = "apply" /\ cur'[u] = cur[u]
<1>1. ASSUME Frame PROVE SpendInv'
  BY <1>1 DEF SpendInv, SingleUse, Mediated
<1>2. CASE \A t \in Threads : ~WorkStep(t)
  BY <1>1, <1>2, QuietStep DEF Quiet, SameHands, AtWork
<1>3. ASSUME NEW t \in Threads, NEW ok \in BOOLEAN, Verify(t, ok) PROVE SpendInv'
  BY <1>1, <1>3, VerifyWork DEF Mediated
<1>4. ASSUME NEW t \in Threads, RemoteExecute(t) PROVE SpendInv'
  BY <1>1, <1>4, RemoteWork DEF Mediated
<1>5. ASSUME NEW t \in Threads, Consume(t) PROVE SpendInv'
  <2>1. Mediated
    BY <1>5, ConsumeWork DEF Mediated
  <2>2. /\ effects' = effects /\ cur' = cur
        /\ Needs[cur[t]] \cap spent = {} /\ spent' = spent \cup Needs[cur[t]]
        /\ \A u \in Threads \ {t} : pc'[u] = pc[u]
    BY <1>5, ConsumeWork
  <2>3. /\ \A e \in effects' : Needs[e.call] \subseteq spent'
        /\ \A u \in Threads : pc'[u] = "apply" => Needs[cur'[u]] \subseteq spent'
    BY <2>1, <2>2 DEF SpendInv
  <2>4. \A u, v \in Threads :
          pc'[u] = "apply" /\ pc'[v] = "apply" /\ u # v => Needs[cur'[u]] \cap Needs[cur'[v]] = {}
    <3>1. \A u \in Threads \ {t} : pc'[u] = "apply" => Needs[cur[u]] \cap Needs[cur[t]] = {}
      BY <2>1, <2>2 DEF SpendInv
    <3> QED
      BY <2>1, <2>2, <3>1 DEF SpendInv
  <2>5. \A u \in Threads, e \in effects' :
          pc'[u] = "apply" => Needs[cur'[u]] \cap Needs[e.call] = {}
    BY <2>1, <2>2 DEF SpendInv
  <2>6. SingleUse'
    BY <2>1, <2>2 DEF SpendInv, SingleUse
  <2> QED
    BY <2>3, <2>4, <2>5, <2>6 DEF SpendInv
<1>6. ASSUME NEW t \in Threads, Apply(t) PROVE SpendInv'
  <2>1. Mediated
    BY <1>6, ApplyWork DEF Mediated
  <2>2. /\ spent' = spent /\ effects' = effects \cup {EventOf(t)} /\ EventOf(t).call = cur[t]
        /\ pc[t] = "apply"
        /\ \A u \in Threads : pc'[u] = "apply" => u # t /\ pc[u] = "apply" /\ cur'[u] = cur[u]
    BY <1>6, ApplyWork DEF SameHands, EventOf
  <2>3. /\ \A e \in effects' : Needs[e.call] \subseteq spent'
        /\ \A u \in Threads : pc'[u] = "apply" => Needs[cur'[u]] \subseteq spent'
    BY <2>1, <2>2 DEF SpendInv
  <2>4. \A u, v \in Threads :
          pc'[u] = "apply" /\ pc'[v] = "apply" /\ u # v => Needs[cur'[u]] \cap Needs[cur'[v]] = {}
    BY <2>1, <2>2 DEF SpendInv
  <2>5. \A u \in Threads, e \in effects' :
          pc'[u] = "apply" => Needs[cur'[u]] \cap Needs[e.call] = {}
    BY <2>1, <2>2 DEF SpendInv
  <2>6. \A e, f \in effects' : e # f => Needs[e.call] \cap Needs[f.call] = {}
    BY <2>1, <2>2 DEF SpendInv, SingleUse
  <2> QED
    BY <2>3, <2>4, <2>5, <2>6 DEF SpendInv, SingleUse
<1> QED
  BY <1>2, <1>3, <1>4, <1>5, <1>6 DEF WorkStep

\* In a mediated mode no two effects are paid for with the same checkpoint,
\* terminal receipt or branch capability, for any number of concurrent
\* executions whose authorizations all found it unspent.
THEOREM AuthorityIsSingleUse == Spec => []SingleUse
<1>1. SpendInv => SingleUse
  BY DEF SpendInv, SingleUse
<1> QED
  BY <1>1, SpendInit, SpendStep, AlwaysTyped, PTL DEF Spec

(***************************************************************************)
(* Nothing after the lapse.  Revocation and the end of the lease are for   *)
(* good, so an execution that began after one of them finds it when the    *)
(* policy is evaluated again.                                              *)
(***************************************************************************)
Gone == revoked \/ now >= LeaseEnd

LapseInv ==
  /\ \A t \in Threads : stale[t] => Gone
  /\ Mediated => \A t \in Threads : pc[t] \in AtWork => ~stale[t]
  /\ NothingAfterLapse

LEMMA LapseInit == Init => LapseInv
BY DEF Init, LapseInv, NothingAfterLapse, AtWork

LEMMA GoneForGood == TypeInv /\ Gone /\ [Next]_vars => Gone'
<1> SUFFICES ASSUME TypeInv, Gone, [Next]_vars PROVE Gone'
  OBVIOUS
<1>1. CASE Tick
  <2>1. now \in Nat /\ now' = now + 1 /\ LeaseEnd' = LeaseEnd /\ LeaseEnd \in Nat
    BY <1>1, BoundsAssumption DEF Tick, TypeInv, TypeOK, Time, LeaseEnd
  <2>2. revoked' = revoked
    BY <1>1 DEF Tick
  <2>3. now >= LeaseEnd => now' >= LeaseEnd'
    BY <2>1
  <2> QED
    BY <2>2, <2>3 DEF Gone
<1>2. CASE Revoke
  BY <1>2 DEF Revoke, Gone
<1>3. CASE UNCHANGED <<revoked, now>>
  BY <1>3 DEF Gone, LeaseEnd
<1>4. ASSUME NEW t \in Threads, Authorize(t) PROVE UNCHANGED <<revoked, now>>
  BY <1>4 DEF Authorize, CheckDenies, CheckRaises, CheckAllows, Issue, IssueFails,
              AppendEntry, gateVars
<1>5. ASSUME NEW t \in Threads, Execute(t) PROVE UNCHANGED <<revoked, now>>
  BY <1>5 DEF Execute, Fetch, Pop, PopFails, Test, Unlink, Verify, VerifyFails, RemoteExecute,
              RemoteFails, Consume, ConsumeFails, Apply, ApplyFails, gateVars
<1> QED
  BY <1>1, <1>2, <1>3, <1>4, <1>5 DEF Next, vars, gateVars

\* Only the start of an execution sets the mark, and only when the lease is gone.
LEMMA StaleMeansGone ==
  ASSUME TypeInv, [Next]_vars, \A t \in Threads : stale[t] => Gone
  PROVE  \A t \in Threads : stale'[t] => Gone'
<1>1. ASSUME NEW t \in Threads, NEW c \in Calls, Fetch(t, c)
      PROVE  \A u \in Threads : stale'[u] => Gone
  BY <1>1 DEF Fetch, Gone, TypeInv, TypeOK
<1>2. ASSUME NEW t \in Threads, Return(t)
      PROVE  \A u \in Threads : stale'[u] => Gone
  BY <1>2 DEF Return, TypeInv, TypeOK
<1>3. CASE stale' = stale
  BY <1>3, GoneForGood
<1>4. ASSUME NEW t \in Threads, Authorize(t)
      PROVE  stale' = stale \/ Return(t)
  BY <1>4 DEF Authorize, CheckDenies, CheckRaises, CheckAllows, Issue, IssueFails,
              AppendEntry, threadVars
<1>5. ASSUME NEW t \in Threads, Execute(t)
      PROVE  stale' = stale \/ Return(t) \/ \E c \in Calls : Fetch(t, c)
  BY <1>5 DEF Execute, Pop, PopFails, Test, Unlink, Verify, VerifyFails, RemoteExecute,
              RemoteFails, Consume, ConsumeFails, Apply, ApplyFails
<1>6. CASE Tick \/ Revoke \/ UNCHANGED vars
  BY <1>3, <1>6 DEF Tick, Revoke, vars, threadVars
<1> QED
  BY <1>1, <1>2, <1>3, <1>4, <1>5, <1>6, GoneForGood DEF Next

\* Passing the policy check in a mediated mode shows that the lease holds now.
LEMMA RevalidatedIsCurrent ==
  ASSUME TypeInv, NEW t \in Threads, NEW ok \in BOOLEAN, Verify(t, ok), Mediated
  PROVE  ~Gone
<1>1. ~revoked
  BY DEF Verify, Revalidates, PolicyAllows, MediatorAllows
<1>2. now < LeaseEnd
  BY DEF Verify, Revalidates, LeaseCurrent
<1>3. now \in Nat /\ LeaseEnd \in Nat
  BY BoundsAssumption DEF TypeInv, TypeOK, Time, LeaseEnd
<1>4. ~(now >= LeaseEnd)
  BY <1>2, <1>3
<1> QED
  BY <1>1, <1>4 DEF Gone

LEMMA LapseStep == TypeInv /\ LapseInv /\ [Next]_vars => LapseInv'
<1> SUFFICES ASSUME TypeInv, LapseInv, [Next]_vars PROVE LapseInv'
  OBVIOUS
<1>0. \A t \in Threads : stale'[t] => Gone'
  BY StaleMeansGone DEF LapseInv
<1>1. CASE \A t \in Threads : ~WorkStep(t)
  <2>1. Quiet
    BY <1>1, QuietStep
  <2>2. Mediated' => \A t \in Threads : pc'[t] \in AtWork => ~stale'[t]
    BY <2>1 DEF Quiet, SameHands, LapseInv, Mediated
  <2>3. NothingAfterLapse'
    BY <2>1 DEF Quiet, LapseInv, NothingAfterLapse, Mediated
  <2> QED
    BY <1>0, <2>2, <2>3 DEF LapseInv
<1>2. ASSUME NEW t \in Threads, NEW ok \in BOOLEAN, Verify(t, ok) PROVE LapseInv'
  <2>1. Mediated => ~stale[t]
    BY <1>2, RevalidatedIsCurrent DEF LapseInv
  <2>2. Mediated' => \A u \in Threads : pc'[u] \in AtWork => ~stale'[u]
    BY <1>2, <2>1, VerifyWork DEF LapseInv, Mediated
  <2>3. NothingAfterLapse'
    BY <1>2, VerifyWork DEF LapseInv, NothingAfterLapse, Mediated
  <2> QED
    BY <1>0, <2>2, <2>3 DEF LapseInv
<1>3. ASSUME NEW t \in Threads, RemoteExecute(t) PROVE LapseInv'
  <2>1. Mediated => ~stale[t]
    BY <1>3, RemoteWork DEF LapseInv, AtWork
  <2>2. Mediated' => \A u \in Threads : pc'[u] \in AtWork => ~stale'[u]
    BY <1>3, <2>1, RemoteWork DEF LapseInv, Mediated
  <2>3. NothingAfterLapse'
    BY <1>3, <2>1, RemoteWork DEF LapseInv, NothingAfterLapse, Mediated, EventOf
  <2> QED
    BY <1>0, <2>2, <2>3 DEF LapseInv
<1>4. ASSUME NEW t \in Threads, Consume(t) PROVE LapseInv'
  <2>1. Mediated => ~stale[t]
    BY <1>4, ConsumeWork DEF LapseInv, AtWork
  <2>2. Mediated' => \A u \in Threads : pc'[u] \in AtWork => ~stale'[u]
    BY <1>4, <2>1, ConsumeWork DEF LapseInv, Mediated
  <2>3. NothingAfterLapse'
    BY <1>4, ConsumeWork DEF LapseInv, NothingAfterLapse, Mediated
  <2> QED
    BY <1>0, <2>2, <2>3 DEF LapseInv
<1>5. ASSUME NEW t \in Threads, Apply(t) PROVE LapseInv'
  <2>1. Mediated => ~stale[t]
    BY <1>5, ApplyWork DEF LapseInv, AtWork
  <2>2. Mediated' => \A u \in Threads : pc'[u] \in AtWork => ~stale'[u]
    BY <1>5, ApplyWork DEF LapseInv, Mediated, SameHands, AtWork
  <2>3. ~EventOf(t).lapsed
    <3>1. held[t] \in Entry /\ now \in Nat
      BY <1>5, ApplyWork DEF TypeInv, TypeOK, HeldTypes, Labels, Time
    <3>2. held[t].from <= now /\ now < held[t].until
      BY <1>5 DEF Apply, PermitAccepts
    <3>3. ~(now < held[t].from \/ now >= held[t].until)
      BY <3>1, <3>2 DEF Entry
    <3> QED
      BY <3>3 DEF EventOf
  <2>4. \A e \in effects' : ~e.lapsed
    BY <1>5, <2>3, ApplyWork DEF LapseInv, NothingAfterLapse
  <2>5. Mediated' => \A e \in effects' \cup remote' : ~e.stale
    <3>1. EventOf(t).stale = stale[t]
      BY DEF EventOf
    <3> QED
      BY <1>5, <2>1, <3>1, ApplyWork DEF LapseInv, NothingAfterLapse, Mediated
  <2> QED
    BY <1>0, <2>2, <2>4, <2>5 DEF LapseInv, NothingAfterLapse
<1> QED
  BY <1>1, <1>2, <1>3, <1>4, <1>5 DEF WorkStep

\* No effect is recorded on a lapsed permit, and in a mediated mode an
\* execution begun after the revocation or the end of the lease has no effect
\* anywhere, whatever was authorized before and however the threads race.
THEOREM LapseIsFinal == Spec => []NothingAfterLapse
<1>1. LapseInv => NothingAfterLapse
  BY DEF LapseInv
<1> QED
  BY <1>1, LapseInit, LapseStep, AlwaysTyped, PTL DEF Spec

\* The spent authority grows by everything one call needs or not at all: a
\* join never leaves some of its branch capabilities spent and others not
\* (state.py BranchCapabilityRegistry.consume).
SpendsWholeCalls ==
  [][spent' # spent => \E c \in Calls : Needs[c] = spent' \ spent]_spent

\* A consumption takes everything one call presents, none of it spent before,
\* in one step: no join is left half paid for.
THEOREM SpendingIsWhole == Spec => SpendsWholeCalls
<1> DEFINE Whole == spent' # spent => \E c \in Calls : Needs[c] = spent' \ spent
<1>1. TypeInv /\ [Next]_vars => [Whole]_spent
  <2> SUFFICES ASSUME TypeInv, [Next]_vars PROVE Whole
    OBVIOUS
  <2>1. CASE \A t \in Threads : ~WorkStep(t)
    BY <2>1, QuietStep DEF Quiet
  <2>2. ASSUME NEW t \in Threads, Consume(t) PROVE Whole
    <3>1. cur[t] \in Calls
      BY <2>2, ConsumeWork DEF TypeInv, HeldTypes
    <3>2. Needs[cur[t]] = spent' \ spent
      BY <2>2, ConsumeWork
    <3> QED
      BY <3>1, <3>2
  <2>3. ASSUME NEW t \in Threads, RemoteExecute(t) \/ Apply(t) \/ \E ok \in BOOLEAN : Verify(t, ok)
        PROVE  Whole
    BY <2>3, RemoteWork, ApplyWork, VerifyWork
  <2> QED
    BY <2>1, <2>2, <2>3 DEF WorkStep
<1> QED
  BY <1>1, AlwaysTyped, PTL DEF Spec, SpendsWholeCalls
=============================================================================
