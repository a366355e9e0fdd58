-------------------------- MODULE BranchJoin_proofs --------------------------
(***************************************************************************)
(* Theorems about BranchJoin for every set of threads, grants, events and  *)
(* every length of a presentation.                                         *)
(***************************************************************************)
EXTENDS BranchJoin, SequenceTheorems, TLAPS

LEMMA FreshIsScan == FreshScan \in Scan
  BY DEF FreshScan, Scan

LEMMA GarbageTurnTypes ==
  ASSUME NEW s \in Scan
  PROVE  AfterGarbage(s) \in Scan
  BY DEF AfterGarbage, Scan

LEMMA EventTurnTypes ==
  ASSUME NEW s \in Scan, NEW e \in GoodEvent
  PROVE  AfterEvent(s, e) \in Scan
<1>1. e.capability \in Capabilities /\ e.branch \in Branches /\ e.digest \in Digests
  BY DEF GoodEvent
<1>2. s.presented \cup {e.capability} \in SUBSET Capabilities
  BY <1>1 DEF Scan
<1>3. [s.digestOf EXCEPT ![e.branch] = IF @ = Garbage THEN e.digest ELSE @]
        \in [Branches -> Digests \cup {Garbage}]
  BY <1>1 DEF Scan
<1>4. s.malformed \in BOOLEAN
  BY DEF Scan
<1> QED
  BY <1>2, <1>3, <1>4 DEF AfterEvent, Scan

(***************************************************************************)
(* What the loop's locals say of the events read so far.                   *)
(***************************************************************************)
Good(es) == {i \in DOMAIN es : es[i] # Garbage}

\* Two retries of one branch disagree.
Conflict(es) == \E i, j \in Good(es) : es[i].branch = es[j].branch /\ es[i].digest # es[j].digest

Reads(es, s) ==
  /\ s.malformed <=> Good(es) # DOMAIN es
  /\ s.presented = {es[i].capability : i \in Good(es)}
  /\ s.confusion <=> \E i \in Good(es) : CrossesTenant(es[i])
  /\ s.unknown <=> \E i \in Good(es) : es[i].capability \notin Issued
  /\ s.reuse <=> \E i, j \in Good(es) : i # j /\ es[i].capability = es[j].capability
  /\ s.drift <=> Conflict(es) \/ \E i \in Good(es) : DriftsFromGrant(es[i])
  /\ \A b \in Branches : s.digestOf[b] # Garbage =>
       \E i \in Good(es) : es[i].branch = b /\ es[i].digest = s.digestOf[b]
  /\ \A i \in Good(es) : s.digestOf[es[i].branch] # Garbage

\* One more event leaves the earlier ones where they are.
LEMMA Grown ==
  ASSUME NEW es \in Seq(Event), NEW e \in Event
  PROVE  LET k == Len(es) + 1
             more == Append(es, e)
         IN /\ more \in Seq(Event)
            /\ k \notin DOMAIN es
            /\ DOMAIN more = DOMAIN es \cup {k}
            /\ more[k] = e
            /\ \A i \in DOMAIN es : i # k /\ more[i] = es[i]
            /\ Good(more) = IF e = Garbage THEN Good(es) ELSE Good(es) \cup {k}
<1> DEFINE k == Len(es) + 1
           more == Append(es, e)
<1>1. /\ more \in Seq(Event)
      /\ k \notin DOMAIN es
      /\ DOMAIN more = DOMAIN es \cup {k}
      /\ more[k] = e
      /\ \A i \in DOMAIN es : i # k /\ more[i] = es[i]
  BY AppendProperties, LenProperties
<1> HIDE DEF k, more
<1>2. Good(more) = IF e = Garbage THEN Good(es) ELSE Good(es) \cup {k}
  BY <1>1 DEF Good
<1> QED
  BY <1>1, <1>2 DEF k, more

LEMMA GoodIsGood ==
  ASSUME NEW es \in Seq(Event), NEW i \in Good(es)
  PROVE  es[i] \in GoodEvent
<1>1. i \in DOMAIN es /\ es[i] # Garbage
  BY DEF Good
<1>2. es[i] \in Event
  BY <1>1, ElementOfSeq, LenProperties
<1> QED
  BY <1>1, <1>2 DEF Event

LEMMA FreshReads == Reads(<<>>, FreshScan)
  BY DEF Reads, FreshScan, Good, Conflict

LEMMA GarbageReads ==
  ASSUME NEW es \in Seq(Event), NEW s \in Scan, Reads(es, s)
  PROVE  Reads(Append(es, Garbage), AfterGarbage(s))
<1> DEFINE k == Len(es) + 1
           more == Append(es, Garbage)
<1>1. /\ k \notin DOMAIN es
      /\ DOMAIN more = DOMAIN es \cup {k}
      /\ \A i \in DOMAIN es : more[i] = es[i]
      /\ Good(more) = Good(es)
  BY Grown DEF Event
<1>2. \A i \in Good(es) : i \in DOMAIN es
  BY DEF Good
<1> HIDE DEF k, more
<1>3. Good(more) # DOMAIN more
  BY <1>1, <1>2
<1>4. Conflict(more) <=> Conflict(es)
  BY <1>1, <1>2 DEF Conflict
<1>5. /\ AfterGarbage(s).malformed
      /\ AfterGarbage(s).presented = s.presented
      /\ AfterGarbage(s).confusion = s.confusion
      /\ AfterGarbage(s).unknown = s.unknown
      /\ AfterGarbage(s).reuse = s.reuse
      /\ AfterGarbage(s).drift = s.drift
      /\ AfterGarbage(s).digestOf = s.digestOf
  BY DEF AfterGarbage, Scan
<1> QED
  <2>1. AfterGarbage(s).presented = {more[i].capability : i \in Good(more)}
    BY <1>1, <1>2, <1>5 DEF Reads
  <2>2. AfterGarbage(s).confusion <=> \E i \in Good(more) : CrossesTenant(more[i])
    BY <1>1, <1>2, <1>5 DEF Reads
  <2>3. AfterGarbage(s).unknown <=> \E i \in Good(more) : more[i].capability \notin Issued
    BY <1>1, <1>2, <1>5 DEF Reads
  <2>4. AfterGarbage(s).reuse <=>
          \E i, j \in Good(more) : i # j /\ more[i].capability = more[j].capability
    BY <1>1, <1>2, <1>5 DEF Reads
  <2>5. AfterGarbage(s).drift <=> Conflict(more) \/ \E i \in Good(more) : DriftsFromGrant(more[i])
    BY <1>1, <1>2, <1>4, <1>5 DEF Reads
  <2>6. \A b \in Branches : AfterGarbage(s).digestOf[b] # Garbage =>
          \E i \in Good(more) : more[i].branch = b /\ more[i].digest = AfterGarbage(s).digestOf[b]
    BY <1>1, <1>2, <1>5 DEF Reads
  <2>7. \A i \in Good(more) : AfterGarbage(s).digestOf[more[i].branch] # Garbage
    BY <1>1, <1>2, <1>5 DEF Reads
  <2> QED
    BY <1>3, <1>5, <2>1, <2>2, <2>3, <2>4, <2>5, <2>6, <2>7 DEF Reads, more

LEMMA EventReads ==
  ASSUME NEW es \in Seq(Event), NEW s \in Scan, NEW e \in GoodEvent, Reads(es, s)
  PROVE  Reads(Append(es, e), AfterEvent(s, e))
<1> DEFINE k == Len(es) + 1
           more == Append(es, e)
           n == AfterEvent(s, e)
<1>1. /\ k \notin DOMAIN es
      /\ DOMAIN more = DOMAIN es \cup {k}
      /\ more[k] = e
      /\ \A i \in DOMAIN es : i # k /\ more[i] = es[i]
      /\ Good(more) = Good(es) \cup {k}
  BY Grown, RegistryAssumption DEF Event
<1>2. \A i \in Good(es) : i \in DOMAIN es /\ i # k /\ more[i] = es[i] /\ es[i].branch \in Branches
  BY <1>1, GoodIsGood DEF Good, GoodEvent
<1>3. e.branch \in Branches /\ e.digest \in Digests /\ e.digest # Garbage
  BY RegistryAssumption DEF GoodEvent
<1> HIDE DEF k, more
<1>4. Good(more) # DOMAIN more <=> Good(es) # DOMAIN es
  BY <1>1, <1>2
<1>5. s.digestOf \in [Branches -> Digests \cup {Garbage}]
  BY DEF Scan
<1>6. n.digestOf = [s.digestOf EXCEPT ![e.branch] = IF @ = Garbage THEN e.digest ELSE @]
  BY DEF AfterEvent
<1>7. n.malformed <=> Good(more) # DOMAIN more
  BY <1>4 DEF AfterEvent, Reads
<1>8. n.presented = {more[i].capability : i \in Good(more)}
  <2>1. n.presented = s.presented \cup {e.capability}
    BY DEF AfterEvent
  <2>2. {more[i].capability : i \in Good(more)} = {es[i].capability : i \in Good(es)} \cup {e.capability}
    BY <1>1, <1>2
  <2> QED
    BY <2>1, <2>2 DEF Reads
<1>9. n.confusion <=> \E i \in Good(more) : CrossesTenant(more[i])
  <2>1. n.confusion <=> s.confusion \/ CrossesTenant(e)
    BY DEF AfterEvent
  <2>2. (\E i \in Good(more) : CrossesTenant(more[i]))
          <=> (\E i \in Good(es) : CrossesTenant(es[i])) \/ CrossesTenant(e)
    BY <1>1, <1>2
  <2> QED
    BY <2>1, <2>2 DEF Reads
<1>10. n.unknown <=> \E i \in Good(more) : more[i].capability \notin Issued
  <2>1. n.unknown <=> s.unknown \/ e.capability \notin Issued
    BY DEF AfterEvent
  <2>2. (\E i \in Good(more) : more[i].capability \notin Issued)
          <=> (\E i \in Good(es) : es[i].capability \notin Issued) \/ e.capability \notin Issued
    BY <1>1, <1>2
  <2> QED
    BY <2>1, <2>2 DEF Reads
<1>11. n.reuse <=> \E i, j \in Good(more) : i # j /\ more[i].capability = more[j].capability
  <2>1. n.reuse <=> s.reuse \/ e.capability \in s.presented
    BY DEF AfterEvent
  <2>2. e.capability \in s.presented <=> \E i \in Good(es) : es[i].capability = e.capability
    BY DEF Reads
  <2>3. (\E i, j \in Good(more) : i # j /\ more[i].capability = more[j].capability)
          <=> \/ \E i, j \in Good(es) : i # j /\ es[i].capability = es[j].capability
              \/ \E i \in Good(es) : es[i].capability = e.capability
    BY <1>1, <1>2
  <2> QED
    BY <2>1, <2>2, <2>3 DEF Reads
<1>12. n.drift <=> Conflict(more) \/ \E i \in Good(more) : DriftsFromGrant(more[i])
  <2>1. n.drift <=> s.drift \/ DriftsFromGrant(e) \/ s.digestOf[e.branch] \notin {Garbage, e.digest}
    BY DEF AfterEvent
  <2>2. (\E i \in Good(more) : DriftsFromGrant(more[i]))
          <=> (\E i \in Good(es) : DriftsFromGrant(es[i])) \/ DriftsFromGrant(e)
    BY <1>1, <1>2
  <2>3. Conflict(more)
          <=> Conflict(es) \/ \E i \in Good(es) : es[i].branch = e.branch /\ es[i].digest # e.digest
    BY <1>1, <1>2 DEF Conflict
  <2>4. s.digestOf[e.branch] \notin {Garbage, e.digest}
          => \E i \in Good(es) : es[i].branch = e.branch /\ es[i].digest # e.digest
    BY <1>3 DEF Reads
  <2>5. ASSUME NEW i \in Good(es), es[i].branch = e.branch, es[i].digest # e.digest, ~Conflict(es)
        PROVE  s.digestOf[e.branch] \notin {Garbage, e.digest}
    <3>1. s.digestOf[e.branch] # Garbage
      BY <2>5 DEF Reads
    <3>2. PICK j \in Good(es) : es[j].branch = e.branch /\ es[j].digest = s.digestOf[e.branch]
      BY <1>3, <3>1 DEF Reads
    <3> QED
      BY <2>5, <3>1, <3>2 DEF Conflict
  <2>6. s.drift <=> Conflict(es) \/ \E i \in Good(es) : DriftsFromGrant(es[i])
    BY DEF Reads
  <2> QED
    BY <2>1, <2>2, <2>3, <2>4, <2>5, <2>6
<1>13. \A b \in Branches : n.digestOf[b] # Garbage =>
         \E i \in Good(more) : more[i].branch = b /\ more[i].digest = n.digestOf[b]
  <2> SUFFICES ASSUME NEW b \in Branches, n.digestOf[b] # Garbage
               PROVE  \E i \in Good(more) : more[i].branch = b /\ more[i].digest = n.digestOf[b]
    OBVIOUS
  <2>1. CASE s.digestOf[b] # Garbage
    <3>1. n.digestOf[b] = s.digestOf[b]
      BY <1>5, <1>6, <2>1
    <3> QED
      BY <1>1, <1>2, <2>1, <3>1 DEF Reads
  <2>2. CASE s.digestOf[b] = Garbage
    <3>1. b = e.branch /\ n.digestOf[b] = e.digest
      BY <1>3, <1>5, <1>6, <2>2
    <3> QED
      BY <1>1, <3>1
  <2> QED
    BY <2>1, <2>2
<1>14. \A i \in Good(more) : n.digestOf[more[i].branch] # Garbage
  <2>1. n.digestOf[e.branch] # Garbage
    BY <1>3, <1>5, <1>6
  <2>2. \A b \in Branches : s.digestOf[b] # Garbage => n.digestOf[b] # Garbage
    BY <1>3, <1>5, <1>6
  <2> QED
    BY <1>1, <1>2, <2>1, <2>2 DEF Reads
<1> HIDE DEF n
<1> QED
  BY <1>7, <1>8, <1>9, <1>10, <1>11, <1>12, <1>13, <1>14 DEF Reads, more, n

(***************************************************************************)
(* The verdict on a presentation, apart from replays.                      *)
(***************************************************************************)
LEMMA GrantIsRecord ==
  ASSUME NEW c \in Issued
  PROVE  /\ Grant[c] \in Grants
         /\ Grant[c] = [branch |-> Grant[c].branch, tenant |-> Grant[c].tenant,
                        digest |-> Grant[c].digest]
<1>1. Grant[c] \in Grants
  BY RegistryAssumption
<1> QED
  BY <1>1 DEF Grants

\* The loop accepts exactly the lists of the tenant's grants (state.py join).
THEOREM AcceptsExact ==
  ASSUME NEW es \in Seq(Event), NEW s \in Scan, Reads(es, s)
  PROVE  Accepts(s, Len(es)) <=> ExactJoin(es) /\ Joinable
<1>1. Len(es) > 0 <=> es # <<>>
  BY EmptySeq, LenProperties
<1>2. \A i \in Good(es) : i \in DOMAIN es /\ es[i] # Garbage /\ es[i] \in GoodEvent
  BY GoodIsGood DEF Good
<1>3. ASSUME Accepts(s, Len(es)) PROVE ExactJoin(es) /\ Joinable
  <2>1. Good(es) = DOMAIN es
    BY <1>3 DEF Accepts, Reads
  <2>2. ASSUME NEW i \in DOMAIN es
        PROVE  /\ es[i] # Garbage
               /\ es[i].capability \in TenantGrants
               /\ Grant[es[i].capability] =
                    [branch |-> es[i].branch, tenant |-> es[i].tenant, digest |-> es[i].digest]
    <3>1. i \in Good(es) /\ es[i] # Garbage
      BY <1>2, <2>1
    <3>2. es[i].capability \in Issued
      BY <1>3, <3>1 DEF Accepts, Reads
    <3>3. es[i].tenant = Tenant /\ es[i].tenant = Grant[es[i].capability].tenant
      BY <1>3, <3>1, <3>2 DEF Accepts, Reads, CrossesTenant
    <3>4. es[i].branch = Grant[es[i].capability].branch /\ es[i].digest = Grant[es[i].capability].digest
      BY <1>3, <3>1, <3>2 DEF Accepts, Reads, DriftsFromGrant
    <3> QED
      BY <3>1, <3>2, <3>3, <3>4, GrantIsRecord DEF TenantGrants
  <2>3. ASSUME NEW c \in TenantGrants
        PROVE  \E i \in DOMAIN es : es[i].capability = c /\ \A j \in DOMAIN es : es[j].capability = c => j = i
    BY <1>3, <2>1 DEF Accepts, Reads
  <2>4. Joinable
    <3> SUFFICES ASSUME NEW c \in TenantGrants, NEW d \in TenantGrants,
                        Grant[c].branch = Grant[d].branch
                 PROVE  Grant[c].digest = Grant[d].digest
      BY DEF Joinable
    <3>1. PICK i \in DOMAIN es : es[i].capability = c
      BY <2>3
    <3>2. PICK j \in DOMAIN es : es[j].capability = d
      BY <2>3
    <3>3. es[i].branch = Grant[c].branch /\ es[i].digest = Grant[c].digest
      <4>1. Grant[c] = [branch |-> es[i].branch, tenant |-> es[i].tenant, digest |-> es[i].digest]
        BY <2>2, <3>1
      <4> QED
        BY <4>1
    <3>5. es[j].branch = Grant[d].branch /\ es[j].digest = Grant[d].digest
      <4>1. Grant[d] = [branch |-> es[j].branch, tenant |-> es[j].tenant, digest |-> es[j].digest]
        BY <2>2, <3>2
      <4> QED
        BY <4>1
    <3>4. ~Conflict(es)
      BY <1>3 DEF Accepts, Reads
    <3> QED
      BY <2>1, <3>3, <3>4, <3>5 DEF Conflict
  <2> QED
    BY <1>1, <1>3, <2>2, <2>3, <2>4 DEF ExactJoin, Accepts
<1>4. ASSUME ExactJoin(es), Joinable PROVE Accepts(s, Len(es))
  <2>1. Good(es) = DOMAIN es
    BY <1>4 DEF ExactJoin, Good
  <2>2. \A i \in Good(es) :
          /\ es[i].capability \in Issued
          /\ Grant[es[i].capability].tenant = Tenant
          /\ es[i].branch = Grant[es[i].capability].branch
          /\ es[i].tenant = Grant[es[i].capability].tenant
          /\ es[i].digest = Grant[es[i].capability].digest
    <3> SUFFICES ASSUME NEW i \in DOMAIN es
                 PROVE  /\ es[i].capability \in Issued
                        /\ Grant[es[i].capability].tenant = Tenant
                        /\ es[i].branch = Grant[es[i].capability].branch
                        /\ es[i].tenant = Grant[es[i].capability].tenant
                        /\ es[i].digest = Grant[es[i].capability].digest
      BY <2>1
    <3> DEFINE g == Grant[es[i].capability]
    <3>1. es[i].capability \in TenantGrants
      BY <1>4 DEF ExactJoin
    <3>2. g = [branch |-> es[i].branch, tenant |-> es[i].tenant, digest |-> es[i].digest]
      BY <1>4 DEF ExactJoin
    <3>3. es[i].capability \in Issued /\ g.tenant = Tenant
      BY <3>1 DEF TenantGrants
    <3> HIDE DEF g
    <3>4. es[i].branch = g.branch /\ es[i].tenant = g.tenant /\ es[i].digest = g.digest
      BY <3>2
    <3> QED
      BY <3>3, <3>4 DEF g
  <2>3. ~s.malformed
    BY <2>1 DEF Reads
  <2>4. ~s.confusion
    BY <2>2 DEF Reads, CrossesTenant
  <2>5. ~s.unknown
    BY <2>2 DEF Reads
  <2>6. ~s.reuse
    <3>1. \A i, j \in Good(es) : es[i].capability = es[j].capability => i = j
      BY <1>4, <2>1 DEF ExactJoin
    <3> QED
      BY <3>1 DEF Reads
  <2>7. ~s.drift
    <3>1. ~Conflict(es)
      BY <1>4, <2>2 DEF Conflict, Joinable, TenantGrants
    <3>2. \A i \in Good(es) : ~DriftsFromGrant(es[i])
      BY <2>2 DEF DriftsFromGrant
    <3> QED
      BY <3>1, <3>2 DEF Reads
  <2>8. s.presented = TenantGrants
    <3>1. s.presented = {es[i].capability : i \in DOMAIN es}
      BY <2>1 DEF Reads
    <3>2. \A c \in TenantGrants : \E i \in DOMAIN es : es[i].capability = c
      BY <1>4 DEF ExactJoin
    <3>3. \A i \in DOMAIN es : es[i].capability \in TenantGrants
      BY <1>4 DEF ExactJoin
    <3> QED
      BY <3>1, <3>2, <3>3
  <2> QED
    BY <1>1, <1>4, <2>3, <2>4, <2>5, <2>6, <2>7, <2>8 DEF Accepts, ExactJoin
<1> QED
  BY <1>3, <1>4

(***************************************************************************)
(* The inductive invariant.  Who is inside the lock, what each loop has    *)
(* read, and that whoever holds the lock knows of every spent capability   *)
(* it was shown.                                                           *)
(***************************************************************************)
Locked == \A t \in Threads :
  pc[t] = "scan" \/ (pc[t] = "decide" /\ purpose[t] = "consume") => lock = t

Idle == \A t \in Threads : pc[t] = "idle" => events[t] = <<>> /\ scan[t] = FreshScan

Replays == \A t \in Threads :
  /\ scan[t].replayed => scan[t].presented \cap spent # {}
  /\ lock = t /\ ~scan[t].replayed => scan[t].presented \cap spent = {}

AllRead == \A t \in Threads : Reads(events[t], scan[t])

JoinInv == TypeOK /\ Locked /\ Idle /\ AllRead /\ Replays

\* A valid verdict is on the tenant's grants, which are all events presented.
LEMMA ValidPresents ==
  ASSUME JoinInv, NEW t \in Threads, Valid(t)
  PROVE  /\ Spends(t) = TenantGrants
         /\ scan[t].presented = TenantGrants
<1>1. scan[t].presented = TenantGrants /\ ~scan[t].malformed
  BY DEF Valid, Accepts
<1>2. Good(events[t]) = DOMAIN events[t]
  BY <1>1 DEF JoinInv, AllRead, Reads
<1> QED
  BY <1>1, <1>2 DEF JoinInv, AllRead, Reads, Spends

LEMMA ReturnKeeps ==
  ASSUME JoinInv, NEW t \in Threads, Return(t),
         spent' \in SUBSET Capabilities, joins' \in Seq(SUBSET Capabilities),
         spent \subseteq spent', spent' = spent \/ lock = t
  PROVE  JoinInv'
<1>1. TypeOK'
  BY FreshIsScan DEF JoinInv, Return, Goto, TypeOK, Purposes
<1>2. Locked'
  BY DEF JoinInv, Locked, Return, Goto, TypeOK
<1>3. Idle'
  BY DEF JoinInv, Idle, Return, Goto, TypeOK
<1>4. AllRead'
  BY FreshReads DEF JoinInv, AllRead, Return, TypeOK
<1>5. Replays'
  <2> SUFFICES ASSUME NEW u \in Threads
               PROVE  /\ scan'[u].replayed => scan'[u].presented \cap spent' # {}
                      /\ lock' = u /\ ~scan'[u].replayed => scan'[u].presented \cap spent' = {}
    BY DEF Replays
  <2>1. CASE u = t
    <3>1. scan'[u] = FreshScan
      BY <2>1 DEF JoinInv, TypeOK, Return
    <3> QED
      BY <3>1 DEF FreshScan
  <2>2. CASE u # t
    <3>1. scan'[u] = scan[u]
      BY <2>2 DEF JoinInv, TypeOK, Return
    <3>2. lock' = u => lock = u /\ lock # t
      BY <2>2, RegistryAssumption DEF Return
    <3> QED
      BY <3>1, <3>2 DEF JoinInv, Replays
  <2> QED
    BY <2>1, <2>2
<1> QED
  BY <1>1, <1>2, <1>3, <1>4, <1>5 DEF JoinInv

LEMMA JoinInit == Init => JoinInv
<1> SUFFICES ASSUME Init PROVE JoinInv
  OBVIOUS
<1>0. <<>> \in Seq(SUBSET Capabilities)
  BY EmptySeq
<1>1. TypeOK
  BY <1>0, RegistryAssumption, FreshIsScan DEF Init, TypeOK, Purposes
<1>2. Locked /\ Idle
  BY DEF Init, Locked, Idle
<1>3. AllRead
  BY FreshReads DEF Init, AllRead
<1>4. Replays
  BY RegistryAssumption DEF Init, Replays, FreshScan
<1> QED
  BY <1>1, <1>2, <1>3, <1>4 DEF JoinInv

LEMMA EnterKeeps ==
  ASSUME JoinInv, NEW t \in Threads, NEW p \in Purposes, Enter(t, p)
  PROVE  JoinInv'
<1>1. TypeOK'
  BY DEF JoinInv, Enter, Goto, TypeOK
<1>2. Locked'
  BY RegistryAssumption DEF JoinInv, TypeOK, Locked, Enter, Goto
<1>3. Idle' /\ AllRead'
  BY DEF JoinInv, TypeOK, Idle, AllRead, Enter, Goto
<1>4. Replays'
  <2>1. scan[t].presented = {}
    BY DEF JoinInv, Idle, Enter, FreshScan
  <2> QED
    BY <2>1 DEF JoinInv, Replays, Enter
<1> QED
  BY <1>1, <1>2, <1>3, <1>4 DEF JoinInv

LEMMA ReadKeeps ==
  ASSUME JoinInv, NEW t \in Threads, NEW e \in Presentable, Read(t, e)
  PROVE  JoinInv'
<1> DEFINE n == IF e = Garbage THEN AfterGarbage(scan[t]) ELSE AfterEvent(scan[t], e)
<1>1. e \in Event /\ events[t] \in Seq(Event) /\ scan[t] \in Scan
  BY RegistryAssumption DEF JoinInv, TypeOK
<1>2. n \in Scan
  BY <1>1, GarbageTurnTypes, EventTurnTypes DEF Event
<1>3. Append(events[t], e) \in Seq(Event)
  BY <1>1, AppendProperties
<1>4. Reads(Append(events[t], e), n)
  BY <1>1, GarbageReads, EventReads DEF JoinInv, AllRead, Event
<1>5. /\ n.replayed => n.presented \cap spent # {}
      /\ lock = t /\ ~n.replayed => n.presented \cap spent = {}
  <2>1. CASE e = Garbage
    <3>1. n.replayed = scan[t].replayed /\ n.presented = scan[t].presented
      BY <1>1, <2>1 DEF AfterGarbage, Scan
    <3> QED
      BY <3>1 DEF JoinInv, Replays
  <2>2. CASE e # Garbage
    <3>1. /\ n.replayed <=> scan[t].replayed \/ e.capability \in spent
          /\ n.presented = scan[t].presented \cup {e.capability}
      BY <2>2 DEF AfterEvent
    <3> QED
      BY <3>1 DEF JoinInv, Replays
  <2> QED
    BY <2>1, <2>2
<1> HIDE DEF n
<1>6. /\ events' = [events EXCEPT ![t] = Append(@, e)]
      /\ scan' = [scan EXCEPT ![t] = n]
      /\ UNCHANGED <<lock, spent, joins, pc, purpose>>
      /\ pc[t] = "scan"
  BY DEF Read, n
<1>7. TypeOK'
  BY <1>2, <1>3, <1>6 DEF JoinInv, TypeOK
<1>8. Locked' /\ Idle'
  BY <1>6 DEF JoinInv, TypeOK, Locked, Idle
<1>9. AllRead'
  BY <1>4, <1>6 DEF JoinInv, TypeOK, AllRead
<1>10. Replays'
  BY <1>5, <1>6 DEF JoinInv, TypeOK, Replays
<1> QED
  BY <1>7, <1>8, <1>9, <1>10 DEF JoinInv

LEMMA EndScanKeeps ==
  ASSUME JoinInv, NEW t \in Threads, EndScan(t)
  PROVE  JoinInv'
<1>1. TypeOK'
  BY DEF JoinInv, EndScan, Goto, TypeOK
<1>2. Locked'
  <2> SUFFICES ASSUME NEW u \in Threads, pc'[u] = "scan" \/ (pc'[u] = "decide" /\ purpose'[u] = "consume")
               PROVE  lock' = u
    BY DEF Locked
  <2>1. CASE u = t
    BY <2>1 DEF JoinInv, TypeOK, Locked, EndScan, Goto, HoldsOn
  <2>2. CASE u # t
    <3>1. lock = u /\ lock = t
      BY <2>2 DEF JoinInv, TypeOK, Locked, EndScan, Goto
    <3> QED
      BY <2>2, <3>1
  <2> QED
    BY <2>1, <2>2
<1>3. Idle' /\ AllRead'
  BY DEF JoinInv, TypeOK, Idle, AllRead, EndScan, Goto
<1>4. Replays'
  BY RegistryAssumption DEF JoinInv, TypeOK, Replays, EndScan
<1> QED
  BY <1>1, <1>2, <1>3, <1>4 DEF JoinInv

\* A consumption spends the tenant's grants, none of which was spent.
LEMMA SpendSpends ==
  ASSUME JoinInv, NEW t \in Threads, Spend(t)
  PROVE  /\ lock = t
         /\ TenantGrants \cap spent = {}
         /\ spent' = spent \cup TenantGrants
         /\ TenantGrants \in SUBSET Capabilities
         /\ joins' = Append(joins, TenantGrants)
<1>1. Valid(t) /\ lock = t /\ ~scan[t].replayed
  BY DEF Spend, Valid, JoinInv, Locked
<1>2. Spends(t) = TenantGrants /\ scan[t].presented = TenantGrants
  BY <1>1, ValidPresents
<1>3. TenantGrants \cap spent = {}
  BY <1>1, <1>2 DEF JoinInv, Replays
<1>4. TenantGrants \in SUBSET Capabilities
  BY RegistryAssumption DEF TenantGrants
<1> QED
  BY <1>1, <1>2, <1>3, <1>4 DEF Spend

LEMMA SpendKeeps ==
  ASSUME JoinInv, NEW t \in Threads, Spend(t)
  PROVE  JoinInv'
<1>1. spent' \in SUBSET Capabilities
  BY SpendSpends DEF JoinInv, TypeOK
<1>2. joins' \in Seq(SUBSET Capabilities)
  <2>1. joins' = Append(joins, TenantGrants) /\ TenantGrants \in SUBSET Capabilities
    BY SpendSpends
  <2>2. joins \in Seq(SUBSET Capabilities)
    BY DEF JoinInv, TypeOK
  <2> QED
    BY <2>1, <2>2, AppendProperties
<1> QED
  BY <1>1, <1>2, ReturnKeeps, SpendSpends DEF Spend

LEMMA AnswerKeeps ==
  ASSUME JoinInv, NEW t \in Threads, Answer(t)
  PROVE  JoinInv'
  BY ReturnKeeps DEF Answer, JoinInv, TypeOK

THEOREM JoinInvariant == Spec => []JoinInv
<1>1. JoinInv /\ [Next]_vars => JoinInv'
  <2> SUFFICES ASSUME JoinInv, [Next]_vars PROVE JoinInv'
    OBVIOUS
  <2>1. CASE UNCHANGED vars
    BY <2>1 DEF vars, JoinInv, TypeOK, Locked, Idle, AllRead, Replays
  <2>2. CASE Next
    BY <2>2, EnterKeeps, ReadKeeps, EndScanKeeps, SpendKeeps, AnswerKeeps DEF Next, Step
  <2> QED
    BY <2>1, <2>2
<1> QED
  BY <1>1, JoinInit, PTL DEF Spec

\* Every variable keeps its type.
THEOREM TypeCorrect == Spec => []TypeOK
<1>1. JoinInv => TypeOK
  BY DEF JoinInv
<1> QED
  BY <1>1, JoinInvariant, PTL

\* The verdict of the loop is the reference verdict at every point where join
\* forms it (state.py join).
THEOREM VerdictsAreExact == Spec => []VerdictIsExact
<1>1. JoinInv => VerdictIsExact
  <2> SUFFICES ASSUME JoinInv, NEW t \in Threads, pc[t] = "decide"
               PROVE  LET exact == ExactJoin(events[t]) /\ Joinable
                          unspent == TenantGrants \cap spent = {}
                      IN CASE purpose[t] = "consume" -> Valid(t) <=> exact /\ unspent
                           [] purpose[t] = "oracle" -> Valid(t) <=> exact
                           [] purpose[t] = "authorize" ->
                                (Valid(t) => exact) /\ (exact /\ unspent => Valid(t))
    BY DEF VerdictIsExact
  <2>1. Accepts(scan[t], Len(events[t])) <=> ExactJoin(events[t]) /\ Joinable
    BY AcceptsExact DEF JoinInv, TypeOK, AllRead
  <2>2. Accepts(scan[t], Len(events[t])) => scan[t].presented = TenantGrants
    BY DEF Accepts
  <2>3. scan[t].replayed => scan[t].presented \cap spent # {}
    BY DEF JoinInv, Replays
  <2>4. purpose[t] = "consume" /\ ~scan[t].replayed => scan[t].presented \cap spent = {}
    BY DEF JoinInv, Replays, Locked
  <2>5. purpose[t] \in {"authorize", "consume", "oracle"}
    BY DEF JoinInv, TypeOK, Purposes
  <2>6. Valid(t) <=> /\ Accepts(scan[t], Len(events[t]))
                     /\ purpose[t] # "oracle" => ~scan[t].replayed
    BY DEF Valid
  <2> HIDE DEF Accepts, ExactJoin, Joinable
  <2> QED
    BY <2>1, <2>2, <2>3, <2>4, <2>5, <2>6
<1> QED
  BY <1>1, JoinInvariant, PTL

(***************************************************************************)
(* The registry implements AuthorityStore.  The linearization points are   *)
(* the end of the loop for a verdict and the update of _spent for a        *)
(* consumption, both under the lock.                                       *)
(***************************************************************************)
\* What _spent holds is what the consumptions took, each of them the tenant's
\* grants, and so there is one consumption at most.
ConsumedOnce == \A i, j \in DOMAIN joins : i # j => joins[i] \cap joins[j] = {}

LedgerInv ==
  /\ spent = Store!Spent
  /\ \A i \in DOMAIN joins : joins[i] = TenantGrants
  /\ ConsumedOnce

LEMMA OneMore ==
  ASSUME NEW S, NEW q \in Seq(S), NEW x \in S
  PROVE  LET n == Len(q) + 1
             more == Append(q, x)
         IN /\ n \notin DOMAIN q /\ DOMAIN more = DOMAIN q \cup {n}
            /\ more[n] = x
            /\ \A i \in DOMAIN q : more[i] = q[i]
            /\ UNION {more[i] : i \in DOMAIN more} = (UNION {q[i] : i \in DOMAIN q}) \cup x
<1> DEFINE n == Len(q) + 1
           more == Append(q, x)
<1>1. /\ n \notin DOMAIN q /\ DOMAIN more = DOMAIN q \cup {n}
      /\ more[n] = x
      /\ \A i \in DOMAIN q : more[i] = q[i]
  BY AppendProperties, LenProperties
<1> HIDE DEF n, more
<1>2. {more[i] : i \in DOMAIN more} = {q[i] : i \in DOMAIN q} \cup {x}
  BY <1>1
<1>3. UNION {more[i] : i \in DOMAIN more} = (UNION {q[i] : i \in DOMAIN q}) \cup x
  BY <1>2
<1> QED
  BY <1>1, <1>3 DEF n, more

LEMMA LedgerInvariant == Spec => []LedgerInv
<1>1. Init => LedgerInv
  <2>1. DOMAIN <<>> = {}
    BY EmptySeq
  <2> QED
    BY <2>1 DEF Init, LedgerInv, ConsumedOnce, Store!Spent
<1>2. JoinInv /\ LedgerInv /\ [Next]_vars => LedgerInv'
  <2> SUFFICES ASSUME JoinInv, LedgerInv, [Next]_vars PROVE LedgerInv'
    OBVIOUS
  <2>1. CASE UNCHANGED <<spent, joins>>
    BY <2>1 DEF LedgerInv, ConsumedOnce, Store!Spent
  <2>2. ASSUME NEW t \in Threads, Spend(t) PROVE LedgerInv'
    <3> DEFINE n == Len(joins) + 1
    <3>1. /\ TenantGrants \cap spent = {}
          /\ spent' = spent \cup TenantGrants
          /\ joins' = Append(joins, TenantGrants)
          /\ joins \in Seq(SUBSET Capabilities) /\ TenantGrants \in SUBSET Capabilities
      BY <2>2, SpendSpends DEF JoinInv, TypeOK
    <3>2. /\ n \notin DOMAIN joins /\ DOMAIN joins' = DOMAIN joins \cup {n}
          /\ joins'[n] = TenantGrants
          /\ \A i \in DOMAIN joins : joins'[i] = joins[i]
          /\ Store!Spent' = Store!Spent \cup TenantGrants
      BY <3>1, OneMore DEF Store!Spent
    <3> HIDE DEF n
    <3>3. spent' = Store!Spent' /\ \A i \in DOMAIN joins' : joins'[i] = TenantGrants
      BY <3>1, <3>2 DEF LedgerInv
    <3>4. \A i \in DOMAIN joins : joins[i] \cap TenantGrants = {}
      BY <3>1 DEF LedgerInv, Store!Spent
    <3>5. ConsumedOnce'
      BY <3>2, <3>4 DEF LedgerInv, ConsumedOnce
    <3> QED
      BY <3>3, <3>5 DEF LedgerInv
  <2> QED
    BY <2>1, <2>2 DEF vars, Next, Step, Enter, Read, EndScan, Answer
<1> QED
  BY <1>1, <1>2, JoinInvariant, PTL DEF Spec

\* The store's word to one caller.
Told(t) ==
  IF pc[t] = "decide" /\ purpose[t] # "consume" /\ Valid(t)
  THEN {[holding |-> Spends(t), fresh |-> purpose[t] = "authorize"]}
  ELSE {}
Words == [t \in Threads |-> Told(t)]

\* A step of one thread leaves what the others were told.
Others(t) == \A u \in Threads \ {t} :
  /\ pc'[u] = pc[u] /\ purpose'[u] = purpose[u]
  /\ events'[u] = events[u] /\ scan'[u] = scan[u]

LEMMA StepsAreLocal ==
  ASSUME TypeOK, NEW t \in Threads, Step(t)
  PROVE  Others(t)
<1>1. CASE \E p \in Purposes : Enter(t, p)
  BY <1>1 DEF TypeOK, Others, Enter, Goto
<1>2. CASE \E e \in Presentable : Read(t, e)
  BY <1>2 DEF TypeOK, Others, Read
<1>3. CASE EndScan(t)
  BY <1>3 DEF TypeOK, Others, EndScan, Goto
<1>4. CASE Return(t)
  BY <1>4 DEF TypeOK, Others, Return, Goto
<1> QED
  BY <1>1, <1>2, <1>3, <1>4 DEF Step, Spend, Answer

LEMMA OthersKeepTheirWord ==
  ASSUME NEW t \in Threads, Others(t)
  PROVE  Words' = [Words EXCEPT ![t] = Told(t)']
<1>1. ASSUME NEW u \in Threads \ {t} PROVE Told(u)' = Told(u)
  BY DEF Others, Told, Valid, Spends
<1> QED
  BY <1>1 DEF Words

\* A verdict formed: nothing, or the store's word on the tenant's grants, and
\* for an authorization while the lock kept them unspent.
LEMMA VerdictStep ==
  ASSUME JoinInv, LedgerInv, NEW t \in Threads, EndScan(t)
  PROVE  [Store!Next]_(Store!storeVars)
<1>1. /\ Words' = [Words EXCEPT ![t] = Told(t)']
      /\ Words[t] = {} /\ Words \in [Threads -> {Told(u) : u \in Threads}]
  BY StepsAreLocal, OthersKeepTheirWord DEF JoinInv, Step, EndScan, Words, Told
<1>2. /\ joins' = joins /\ pc'[t] = "decide" /\ pc[t] = "scan"
      /\ purpose' = purpose /\ events' = events /\ scan' = scan
  BY DEF EndScan, Goto, JoinInv, TypeOK
<1>3. (Valid(t)' <=> Valid(t)) /\ Spends(t)' = Spends(t)
  BY <1>2 DEF Valid, Spends
<1>4. CASE Told(t)' = {}
  <2>1. Words' = Words
    BY <1>1, <1>4
  <2> QED
    BY <1>2, <2>1 DEF Store!storeVars, Words, Told
<1>5. CASE Told(t)' # {}
  <2>1. purpose[t] # "consume" /\ Valid(t)
    BY <1>2, <1>3, <1>5 DEF Told
  <2>2. Spends(t) = TenantGrants /\ scan[t].presented = TenantGrants
    BY <2>1, ValidPresents
  <2>3. Told(t)' = {[holding |-> TenantGrants, fresh |-> purpose[t] = "authorize"]}
    BY <1>2, <1>3, <2>1, <2>2 DEF Told
  <2>4. CASE purpose[t] = "authorize"
    <3>1. TenantGrants \cap Store!Spent = {}
      BY <1>2, <2>1, <2>2, <2>4 DEF JoinInv, LedgerInv, Locked, Replays, Valid
    <3>2. Words' = [Words EXCEPT ![t] = {[holding |-> TenantGrants, fresh |-> TRUE]}]
      BY <1>1, <2>3, <2>4
    <3>3. Store!Vouch(t, TenantGrants)
      BY <1>1, <1>2, <3>1, <3>2 DEF Store!Vouch, Store!Tell, Words, Told
    <3> QED
      BY <3>3 DEF Store!Next
  <2>5. CASE purpose[t] # "authorize"
    <3>1. Words' = [Words EXCEPT ![t] = {[holding |-> TenantGrants, fresh |-> FALSE]}]
      BY <1>1, <2>3, <2>5
    <3>2. Store!Recognise(t, TenantGrants)
      BY <1>1, <1>2, <3>1 DEF Store!Recognise, Store!Tell, Words, Told
    <3> QED
      BY <3>2 DEF Store!Next
  <2> QED
    BY <2>4, <2>5
<1> QED
  BY <1>4, <1>5

LEMMA StoreStep ==
  ASSUME JoinInv, LedgerInv, [Next]_vars
  PROVE  [Store!Next]_(Store!storeVars)
<1>1. CASE UNCHANGED vars
  BY <1>1 DEF vars, Store!storeVars, Valid, Spends
<1>2. ASSUME NEW t \in Threads, Step(t)
      PROVE  [Store!Next]_(Store!storeVars)
  <2>1. Words' = [Words EXCEPT ![t] = Told(t)'] /\ Words[t] = Told(t)
    BY <1>2, StepsAreLocal, OthersKeepTheirWord DEF JoinInv, Words
  <2>2. CASE \/ \E p \in Purposes : Enter(t, p)
             \/ \E e \in Presentable : Read(t, e)
    <3>1. Told(t) = {} /\ Told(t)' = {} /\ joins' = joins
      BY <2>2 DEF Enter, Read, Goto, JoinInv, TypeOK, Told
    <3>2. Words' = Words
      BY <2>1, <3>1 DEF Words
    <3> QED
      BY <3>1, <3>2 DEF Store!storeVars, Words, Told
  <2>3. CASE EndScan(t)
    BY <2>3, VerdictStep
  <2>4. CASE Spend(t)
    <3>1. Told(t) = {} /\ Told(t)' = {}
      BY <2>4 DEF Spend, Return, Goto, JoinInv, TypeOK, Told
    <3>2. Words' = Words
      BY <2>1, <3>1 DEF Words
    <3>3. joins' = Append(joins, TenantGrants) /\ TenantGrants \cap Store!Spent = {}
      BY <2>4, SpendSpends DEF LedgerInv
    <3>4. Store!Consume(TenantGrants)
      BY <3>2, <3>3 DEF Store!Consume, Words, Told
    <3> QED
      BY <3>4 DEF Store!Next
  <2>5. CASE Answer(t)
    <3>1. Told(t)' = {} /\ joins' = joins
      BY <2>5 DEF Answer, Return, Goto, JoinInv, TypeOK, Told
    <3>2. Words' = [Words EXCEPT ![t] = {}]
      BY <2>1, <3>1
    <3>3. Store!Leave(t)
      BY <3>1, <3>2 DEF Store!Leave, Words, Told
    <3> QED
      BY <3>3 DEF Store!Next
  <2> QED
    BY <1>2, <2>2, <2>3, <2>4, <2>5 DEF Step
<1> QED
  BY <1>1, <1>2 DEF Next

\* However many threads present whatever events, callers see a store that
\* consumes the tenant's grants whole and once and vouches only for grants that
\* are unspent at that moment (state.py join, consume).
THEOREM JoinImplementsStore == Spec => ImplementsAuthorityStore
<1>1. Init => Store!Init
  BY DEF Init, Store!Init
<1> QED
  BY <1>1, StoreStep, JoinInvariant, LedgerInvariant, PTL
     DEF Spec, ImplementsAuthorityStore, Store!Spec

\* However many threads present the same join, no two consumptions share a
\* capability (state.py consume).
THEOREM ConsumptionIsOnce == Spec => []ConsumedOnce
<1>1. LedgerInv => ConsumedOnce
  BY DEF LedgerInv
<1> QED
  BY <1>1, LedgerInvariant, PTL

\* A tenant's capabilities are spent together, and no other tenant's are spent
\* with them.
AllOrNothing == spent \in {{}, TenantGrants}

\* A join is never left half consumed (state.py consume).
THEOREM ConsumptionIsWhole == Spec => []AllOrNothing
<1>1. LedgerInv => AllOrNothing
  <2> SUFFICES ASSUME LedgerInv, spent # {} PROVE spent = TenantGrants
    BY DEF AllOrNothing
  <2>1. PICK i \in DOMAIN joins : TRUE
    BY DEF LedgerInv, Store!Spent
  <2>2. joins[i] = TenantGrants
    BY DEF LedgerInv
  <2> QED
    BY <2>1, <2>2 DEF LedgerInv, Store!Spent
<1> QED
  BY <1>1, LedgerInvariant, PTL
=============================================================================
