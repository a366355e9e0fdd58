------------------------ MODULE BoundaryPermits_proofs ------------------------
(***************************************************************************)
(* Where the permits of ExecutionBoundary are: each in one place, spent on *)
(* one effect, and what follows for the authority and the provider.  From  *)
(* this the boundary implements SingleUseGrant.                            *)
(***************************************************************************)
EXTENDS ExecutionBoundary_proofs, FiniteSetTheorems

-----------------------------------------------------------------------------
(* One permit is in one place. *)

\* A thread holds a permit between minting and filing it, and from taking it
\* to its return.
EmptyHands == \A t \in Threads : pc[t] \in {"idle", "pop"} => held[t] = NoEntry

\* Every permit belongs to a decision made.
IdsAreIssued ==
  /\ \A l \in Ids : \A k \in DOMAIN lists[l] : lists[l][k].id <= Len(decisions)
  /\ \A t \in Threads : held[t].id <= Len(decisions)
  /\ \A e \in effects : e.id <= Len(decisions)

\* No two slots, hands or effects, and no two of different sorts, have the
\* permit of one decision.
SlotsDiffer ==
  \A l, m \in Ids : \A k \in DOMAIN lists[l], j \in DOMAIN lists[m] :
    lists[l][k].id = lists[m][j].id => l = m /\ k = j
HandsDiffer == \A t, u \in Threads : held[t].id = held[u].id => t = u \/ held[t] = NoEntry
EffectsDiffer == \A e, f \in effects : e.id = f.id => e = f
SortsDiffer ==
  /\ \A l \in Ids : \A k \in DOMAIN lists[l] :
       /\ \A t \in Threads : lists[l][k].id # held[t].id
       /\ \A e \in effects : lists[l][k].id # e.id
  /\ \A t \in Threads, e \in effects : held[t].id # e.id

PlaceInv == EmptyHands /\ IdsAreIssued /\ SlotsDiffer /\ HandsDiffer /\ EffectsDiffer /\ SortsDiffer

LEMMA PlaceInit == Init => PlaceInv
<1> SUFFICES ASSUME Init PROVE PlaceInv
  OBVIOUS
<1>1. \A l \in Ids : DOMAIN lists[l] = {}
  BY DEF Init
<1>2. \A t \in Threads : held[t] = NoEntry
  BY DEF Init
<1>3. Len(decisions) = 0 /\ NoEntry.id = 0
  BY DEF Init, NoEntry
<1>4. effects = {}
  BY DEF Init
<1> QED
  BY <1>1, <1>2, <1>3, <1>4 DEF PlaceInv, EmptyHands, IdsAreIssued, SlotsDiffer, HandsDiffer,
     EffectsDiffer, SortsDiffer

\* What a slot, a hand and an effect hold.
LEMMA PlaceTypes ==
  ASSUME TypeInv
  PROVE  /\ \A l \in Ids : /\ lists[l] \in Seq(Entry)
                           /\ Len(lists[l]) \in Nat
                           /\ DOMAIN lists[l] = 1 .. Len(lists[l])
                           /\ \A k \in DOMAIN lists[l] :
                                lists[l][k] \in Entry /\ lists[l][k].id \in Ids
         /\ \A t \in Threads : held[t] = NoEntry \/ (held[t] \in Entry /\ held[t].id \in Ids)
         /\ \A e \in effects : e.id \in Ids
         /\ NoEntry.id = 0 /\ NoEntry \notin Entry
         /\ \A i \in Ids : i \in Nat /\ i # 0
         /\ Len(decisions) \in Nat
<1>1. ASSUME NEW l \in Ids
      PROVE  /\ lists[l] \in Seq(Entry)
             /\ Len(lists[l]) \in Nat
             /\ DOMAIN lists[l] = 1 .. Len(lists[l])
             /\ \A k \in DOMAIN lists[l] : lists[l][k] \in Entry
  <2>1. lists[l] \in Seq(Entry)
    BY DEF TypeInv, TypeOK
  <2> QED
    BY <2>1, LenProperties, ElementOfSeq
<1>2. Len(decisions) \in Nat
  BY LenProperties DEF TypeInv, TypeOK
<1>3. \A x \in Entry : x.id \in Ids
  BY DEF Entry
<1>4. \A t \in Threads : held[t] = NoEntry \/ held[t] \in Entry
  BY DEF TypeInv, TypeOK
<1>5. \A e \in effects : e.id \in Ids
  BY DEF TypeInv, TypeOK, Event
<1>6. NoEntry.id = 0 /\ \A i \in Ids : i \in Nat /\ i # 0
  BY BoundsAssumption DEF NoEntry, Ids
<1> QED
  BY <1>1, <1>2, <1>3, <1>4, <1>5, <1>6

\* A step that files nothing, records no effect, and leaves in each hand the
\* permit it had or none.
KeepsPlaces ==
  /\ UNCHANGED <<lists, effects>>
  /\ Len(decisions) <= Len(decisions') /\ Len(decisions') \in Nat
  /\ \A u \in Threads :
       held'[u] = NoEntry \/ (held[u] # NoEntry /\ held'[u].id = held[u].id)

LEMMA KeptPlaces ==
  ASSUME PlaceInv, TypeInv, TypeInv', KeepsPlaces, EmptyHands'
  PROVE  PlaceInv'
<1>1. IdsAreIssued'
  <2>1. \A l \in Ids : \A k \in DOMAIN lists'[l] : lists'[l][k].id <= Len(decisions')
    BY PlaceTypes DEF PlaceInv, IdsAreIssued, KeepsPlaces
  <2>2. \A t \in Threads : held'[t].id <= Len(decisions')
    BY PlaceTypes DEF PlaceInv, IdsAreIssued, KeepsPlaces
  <2>3. \A e \in effects' : e.id <= Len(decisions')
    BY PlaceTypes DEF PlaceInv, IdsAreIssued, KeepsPlaces
  <2> QED
    BY <2>1, <2>2, <2>3 DEF IdsAreIssued
<1>2. SlotsDiffer' /\ EffectsDiffer'
  BY DEF PlaceInv, SlotsDiffer, EffectsDiffer, KeepsPlaces
<1>3. HandsDiffer'
  <2> SUFFICES ASSUME NEW t \in Threads, NEW u \in Threads,
                      held'[t].id = held'[u].id, held'[t] # NoEntry
               PROVE  t = u
    BY DEF HandsDiffer
  <2>1. held'[t].id \in Ids
    BY PlaceTypes, TypeInv' DEF KeepsPlaces
  <2>2. held'[u] # NoEntry
    BY <2>1, PlaceTypes
  <2> QED
    BY <2>2 DEF KeepsPlaces, PlaceInv, HandsDiffer
<1>4. SortsDiffer'
  <2>1. \A l \in Ids : \A k \in DOMAIN lists'[l], t \in Threads : lists'[l][k].id # held'[t].id
    BY PlaceTypes DEF PlaceInv, SortsDiffer, KeepsPlaces
  <2>2. \A t \in Threads, e \in effects' : held'[t].id # e.id
    BY PlaceTypes DEF PlaceInv, SortsDiffer, KeepsPlaces
  <2> QED
    BY <2>1, <2>2 DEF PlaceInv, SortsDiffer, KeepsPlaces
<1> QED
  BY <1>1, <1>2, <1>3, <1>4 DEF PlaceInv

\* A thread that returns lets go of its permit.
LEMMA ReturnPlaces ==
  ASSUME PlaceInv, TypeInv, TypeInv', NEW t \in Threads, Return(t),
         UNCHANGED <<lists, effects>>, Len(decisions') = Len(decisions)
  PROVE  PlaceInv'
<1>1. held'[t] = NoEntry /\ \A u \in Threads \ {t} : held'[u] = held[u] /\ pc'[u] = pc[u]
  BY DEF Return, Goto, TypeInv, TypeOK
<1>2. EmptyHands'
  BY <1>1 DEF PlaceInv, EmptyHands
<1>3. KeepsPlaces
  BY <1>1, PlaceTypes DEF KeepsPlaces
<1> QED
  BY <1>2, <1>3, KeptPlaces

\* The permit of a new decision is a fresh one.
LEMMA CheckAllowsPlaces ==
  ASSUME PlaceInv, TypeInv, NEW t \in Threads, NEW c \in Calls, NEW ok \in BOOLEAN,
         CheckAllows(t, c, ok)
  PROVE  PlaceInv'
<1> DEFINE e == [id |-> Len(decisions) + 1, call |-> c, from |-> 0, until |-> 0]
           n == Len(decisions)
<1>1. /\ pc[t] = "idle" /\ pc'[t] = "issue"
      /\ \A u \in Threads \ {t} : pc'[u] = pc[u]
      /\ held' = [held EXCEPT ![t] = e]
      /\ UNCHANGED <<lists, effects>>
  BY DEF CheckAllows, Ask, Goto, TypeInv, TypeOK, tableVars, outVars
<1>2. e.id = n + 1 /\ n \in Nat
  BY PlaceTypes
<1>3. Len(decisions') = n + 1
  <2>1. decisions \in Seq(Decision) /\ [call |-> c, allowed |-> TRUE] \in Decision
    BY DEF TypeInv, TypeOK, Decision
  <2> QED
    BY <2>1, AppendProperties DEF CheckAllows, Record
<1> HIDE DEF e
<1>4. held'[t] = e /\ \A u \in Threads \ {t} : held'[u] = held[u]
  BY <1>1 DEF TypeInv, TypeOK
<1> HIDE DEF n
<1>5. EmptyHands'
  BY <1>1, <1>4 DEF PlaceInv, EmptyHands
<1>6. /\ \A l \in Ids : \A k \in DOMAIN lists[l] : lists[l][k].id \in Nat /\ lists[l][k].id <= n
      /\ \A u \in Threads : held[u].id \in Nat /\ held[u].id <= n
      /\ \A f \in effects : f.id \in Nat /\ f.id <= n
  BY PlaceTypes DEF PlaceInv, IdsAreIssued, n
<1>7. IdsAreIssued'
  BY <1>1, <1>2, <1>3, <1>4, <1>6 DEF IdsAreIssued
<1>8. SlotsDiffer' /\ EffectsDiffer'
  BY <1>1 DEF PlaceInv, SlotsDiffer, EffectsDiffer
<1>9. HandsDiffer'
  BY <1>2, <1>4, <1>6 DEF PlaceInv, HandsDiffer
<1>10. SortsDiffer'
  BY <1>1, <1>2, <1>4, <1>6 DEF PlaceInv, SortsDiffer
<1> QED
  BY <1>5, <1>7, <1>8, <1>9, <1>10 DEF PlaceInv

\* Filing an entry adds one slot, at the end of the list the thread found.
LEMMA FiledSlots ==
  ASSUME TypeInv, NEW t \in Threads, AppendEntry(t)
  PROVE  \A l \in Ids : \A k \in DOMAIN lists'[l] :
           \/ k \in DOMAIN lists[l] /\ lists'[l][k] = lists[l][k]
           \/ l = ref[t] /\ k = Len(lists[l]) + 1 /\ lists'[l][k] = held[t]
<1>1. ref[t] \in Ids /\ held[t] \in Entry
  BY DEF AppendEntry, TypeInv, HeldTypes, Labels
<1>2. \A l \in Ids : lists'[l] = IF l = ref[t] THEN Append(lists[l], held[t]) ELSE lists[l]
  BY DEF AppendEntry, TypeInv, TypeOK
<1>3. ASSUME NEW l \in Ids, l = ref[t], NEW k \in DOMAIN lists'[l]
      PROVE  \/ k \in DOMAIN lists[l] /\ lists'[l][k] = lists[l][k]
             \/ k = Len(lists[l]) + 1 /\ lists'[l][k] = held[t]
  <2>1. lists[l] \in Seq(Entry) /\ Len(lists[l]) \in Nat /\ DOMAIN lists[l] = 1 .. Len(lists[l])
    BY PlaceTypes
  <2>2. lists'[l] = Append(lists[l], held[t])
    BY <1>2, <1>3
  <2>3. /\ DOMAIN Append(lists[l], held[t]) = 1 .. Len(lists[l]) + 1
        /\ \A j \in 1 .. Len(lists[l]) : Append(lists[l], held[t])[j] = lists[l][j]
        /\ Append(lists[l], held[t])[Len(lists[l]) + 1] = held[t]
    BY <1>1, <2>1, AppendProperties, LenProperties
  <2> QED
    BY <1>3, <2>1, <2>2, <2>3
<1> QED
  BY <1>2, <1>3

LEMMA AppendEntryPlaces ==
  ASSUME PlaceInv, TypeInv, NEW t \in Threads, AppendEntry(t)
  PROVE  PlaceInv'
<1>1. /\ held'[t] = NoEntry /\ pc[t] = "append"
      /\ \A u \in Threads \ {t} : held'[u] = held[u] /\ pc'[u] = pc[u]
      /\ UNCHANGED <<effects, decisions>>
  BY DEF AppendEntry, Return, Goto, TypeInv, TypeOK, outVars
<1>2. held[t] \in Entry /\ held[t].id \in Ids /\ held[t] # NoEntry
  BY <1>1, PlaceTypes DEF TypeInv, HeldTypes, Labels
<1>3. \A l \in Ids : \A k \in DOMAIN lists'[l] :
           \/ k \in DOMAIN lists[l] /\ lists'[l][k] = lists[l][k]
           \/ l = ref[t] /\ k = Len(lists[l]) + 1 /\ lists'[l][k] = held[t]
  BY FiledSlots
<1>4. EmptyHands'
  BY <1>1 DEF PlaceInv, EmptyHands
<1>5. IdsAreIssued'
  BY <1>1, <1>3, PlaceTypes DEF PlaceInv, IdsAreIssued
<1>6. SlotsDiffer'
  <2> SUFFICES ASSUME NEW l \in Ids, NEW m \in Ids,
                      NEW k \in DOMAIN lists'[l], NEW j \in DOMAIN lists'[m],
                      lists'[l][k].id = lists'[m][j].id
               PROVE  l = m /\ k = j
    BY DEF SlotsDiffer
  <2>1. /\ \/ k \in DOMAIN lists[l] /\ lists'[l][k] = lists[l][k]
           \/ l = ref[t] /\ k = Len(lists[l]) + 1 /\ lists'[l][k] = held[t]
        /\ \/ j \in DOMAIN lists[m] /\ lists'[m][j] = lists[m][j]
           \/ m = ref[t] /\ j = Len(lists[m]) + 1 /\ lists'[m][j] = held[t]
    BY <1>3
  <2> QED
    BY <2>1 DEF PlaceInv, SlotsDiffer, SortsDiffer
<1>7. HandsDiffer'
  <2> SUFFICES ASSUME NEW u \in Threads, NEW v \in Threads,
                      held'[u].id = held'[v].id, held'[u] # NoEntry
               PROVE  u = v
    BY DEF HandsDiffer
  <2>1. u # t /\ held'[u] = held[u] /\ held[u].id \in Ids
    BY <1>1, PlaceTypes
  <2>2. v # t /\ held'[v] = held[v]
    BY <1>1, <2>1, PlaceTypes
  <2> QED
    BY <2>1, <2>2 DEF PlaceInv, HandsDiffer
<1>8. SortsDiffer'
  <2>1. \A l \in Ids : \A k \in DOMAIN lists'[l], u \in Threads : lists'[l][k].id # held'[u].id
    <3> SUFFICES ASSUME NEW l \in Ids, NEW k \in DOMAIN lists'[l], NEW u \in Threads
                 PROVE  lists'[l][k].id # held'[u].id
      OBVIOUS
    <3>1. lists'[l][k].id \in Ids /\ NoEntry.id \notin Ids
      BY <1>2, <1>3, PlaceTypes
    <3>2. CASE u = t
      BY <1>1, <3>1, <3>2
    <3>3. CASE u # t
      <4>1. held'[u] = held[u]
        BY <1>1, <3>3
      <4>2. held[t].id # held[u].id
        BY <1>2, <3>3 DEF PlaceInv, HandsDiffer
      <4> QED
        BY <1>3, <4>1, <4>2 DEF PlaceInv, SortsDiffer
    <3> QED
      BY <3>2, <3>3
  <2>2. \A l \in Ids : \A k \in DOMAIN lists'[l], e \in effects' : lists'[l][k].id # e.id
    BY <1>1, <1>3 DEF PlaceInv, SortsDiffer
  <2>3. \A u \in Threads, e \in effects' : held'[u].id # e.id
    BY <1>1, PlaceTypes DEF PlaceInv, SortsDiffer
  <2> QED
    BY <2>1, <2>2, <2>3 DEF SortsDiffer
<1>9. EffectsDiffer'
  BY <1>1 DEF PlaceInv, EffectsDiffer
<1> QED
  BY <1>4, <1>5, <1>6, <1>7, <1>8, <1>9 DEF PlaceInv

\* pop(0) moves the first slot of one list into the hand and every later one
\* of that list one place forward.
LEMMA TakenSlots ==
  ASSUME TypeInv, NEW t \in Threads, Pop(t)
  PROVE  /\ ref[t] \in Ids /\ 1 \in DOMAIN lists[ref[t]]
         /\ held'[t] = lists[ref[t]][1]
         /\ \A u \in Threads \ {t} : held'[u] = held[u]
         /\ \A l \in Ids : \A k \in DOMAIN lists'[l] :
              \/ l # ref[t] /\ k \in DOMAIN lists[l] /\ lists'[l][k] = lists[l][k]
              \/ /\ l = ref[t] /\ k + 1 \in DOMAIN lists[l] /\ k + 1 # 1 /\ k \in Nat
                 /\ lists'[l][k] = lists[l][k + 1]
<1> DEFINE list == lists[ref[t]]
<1>1. ref[t] \in Ids /\ list \in Seq(Entry) /\ list # <<>>
  BY DEF Pop, TypeInv, TypeOK, HeldTypes, Labels
<1>2. Len(list) \in Nat /\ DOMAIN list = 1 .. Len(list)
  BY <1>1, LenProperties
<1>3. /\ Head(list) = list[1] /\ Tail(list) \in Seq(Entry)
      /\ Len(list) # 0
      /\ Len(Tail(list)) = Len(list) - 1
      /\ \A k \in 1 .. Len(Tail(list)) : Tail(list)[k] = list[k + 1]
  BY <1>1, HeadTailProperties, EmptySeq
<1>4. DOMAIN Tail(list) = 1 .. Len(list) - 1
  BY <1>3, LenProperties
<1>5. held' = [held EXCEPT ![t] = Head(list)] /\ lists' = [lists EXCEPT ![ref[t]] = Tail(list)]
  BY DEF Pop, PoppedList
<1> HIDE DEF list
<1>6. held'[t] = list[1] /\ \A u \in Threads \ {t} : held'[u] = held[u]
  BY <1>3, <1>5 DEF TypeInv, TypeOK
<1>7. \A l \in Ids : lists'[l] = IF l = ref[t] THEN Tail(list) ELSE lists[l]
  BY <1>5 DEF TypeInv, TypeOK
<1>8. ASSUME NEW k \in DOMAIN Tail(list)
      PROVE  k + 1 \in DOMAIN list /\ k + 1 # 1 /\ k \in Nat /\ Tail(list)[k] = list[k + 1]
  BY <1>2, <1>3, <1>4
<1>9. 1 \in DOMAIN list
  BY <1>2, <1>3
<1> QED
  BY <1>1, <1>6, <1>7, <1>8, <1>9 DEF list

LEMMA PopPlaces ==
  ASSUME PlaceInv, TypeInv, NEW t \in Threads, Pop(t)
  PROVE  PlaceInv'
<1> DEFINE x == lists[ref[t]][1]
<1>1. /\ pc[t] = "pop" /\ pc'[t] = "test"
      /\ \A u \in Threads \ {t} : pc'[u] = pc[u]
      /\ UNCHANGED <<effects, decisions>>
  BY DEF Pop, Goto, TypeInv, TypeOK, outVars
<1>2. /\ ref[t] \in Ids /\ 1 \in DOMAIN lists[ref[t]]
      /\ held'[t] = x
      /\ \A u \in Threads \ {t} : held'[u] = held[u]
      /\ \A l \in Ids : \A k \in DOMAIN lists'[l] :
           \/ l # ref[t] /\ k \in DOMAIN lists[l] /\ lists'[l][k] = lists[l][k]
           \/ /\ l = ref[t] /\ k + 1 \in DOMAIN lists[l] /\ k + 1 # 1 /\ k \in Nat
              /\ lists'[l][k] = lists[l][k + 1]
  BY TakenSlots
<1>3. x \in Entry /\ x.id \in Ids /\ held[t] = NoEntry
  BY <1>1, <1>2, PlaceTypes DEF PlaceInv, EmptyHands
<1>4. EmptyHands'
  BY <1>1, <1>2 DEF PlaceInv, EmptyHands
<1>5. IdsAreIssued'
  BY <1>1, <1>2, PlaceTypes DEF PlaceInv, IdsAreIssued
<1>6. SlotsDiffer'
  <2> SUFFICES ASSUME NEW l \in Ids, NEW m \in Ids,
                      NEW k \in DOMAIN lists'[l], NEW j \in DOMAIN lists'[m],
                      lists'[l][k].id = lists'[m][j].id
               PROVE  l = m /\ k = j
    BY DEF SlotsDiffer
  <2>1. CASE l = ref[t] /\ m = ref[t]
    BY <1>2, <2>1 DEF PlaceInv, SlotsDiffer
  <2>2. CASE l # ref[t] \/ m # ref[t]
    BY <1>2, <2>2 DEF PlaceInv, SlotsDiffer
  <2> QED
    BY <2>1, <2>2
<1>7. \A l \in Ids : \A k \in DOMAIN lists'[l] : lists'[l][k].id # x.id
  BY <1>2 DEF PlaceInv, SlotsDiffer
<1>8. \A u \in Threads \ {t} : held[u].id # x.id
  BY <1>2 DEF PlaceInv, SortsDiffer
<1>9. HandsDiffer'
  BY <1>2, <1>8 DEF PlaceInv, HandsDiffer
<1>10. SortsDiffer'
  <2>1. \A l \in Ids : \A k \in DOMAIN lists'[l], u \in Threads : lists'[l][k].id # held'[u].id
    BY <1>2, <1>7 DEF PlaceInv, SortsDiffer
  <2>2. \A l \in Ids : \A k \in DOMAIN lists'[l], e \in effects' : lists'[l][k].id # e.id
    BY <1>1, <1>2 DEF PlaceInv, SortsDiffer
  <2>3. \A u \in Threads, e \in effects' : held'[u].id # e.id
    BY <1>1, <1>2 DEF PlaceInv, SortsDiffer
  <2> QED
    BY <2>1, <2>2, <2>3 DEF SortsDiffer
<1>11. EffectsDiffer'
  BY <1>1 DEF PlaceInv, EffectsDiffer
<1> QED
  BY <1>4, <1>5, <1>6, <1>9, <1>10, <1>11 DEF PlaceInv

\* An effect takes the permit out of the hand that spent it.
LEMMA ApplyPlaces ==
  ASSUME PlaceInv, TypeInv, NEW t \in Threads, Apply(t)
  PROVE  PlaceInv'
<1> DEFINE x == EventOf(t)
<1>1. /\ held'[t] = NoEntry /\ pc[t] = "apply"
      /\ \A u \in Threads \ {t} : held'[u] = held[u] /\ pc'[u] = pc[u]
      /\ UNCHANGED <<lists, decisions>>
      /\ effects' = effects \cup {x} /\ x.id = held[t].id
  BY DEF Apply, Return, Goto, EventOf, TypeInv, TypeOK, tableVars
<1> HIDE DEF x
<1>2. held[t] \in Entry /\ held[t].id \in Ids /\ held[t] # NoEntry
  BY <1>1, PlaceTypes DEF TypeInv, HeldTypes, Labels
<1>3. EmptyHands'
  BY <1>1 DEF PlaceInv, EmptyHands
<1>4. IdsAreIssued'
  BY <1>1, PlaceTypes DEF PlaceInv, IdsAreIssued
<1>5. SlotsDiffer'
  BY <1>1 DEF PlaceInv, SlotsDiffer
<1>6. EffectsDiffer'
  BY <1>1 DEF PlaceInv, EffectsDiffer, SortsDiffer
<1>7. \A u \in Threads : held'[u] = NoEntry \/ (u # t /\ held'[u] = held[u] /\ held[u].id # held[t].id)
  BY <1>1, <1>2, PlaceTypes DEF PlaceInv, HandsDiffer
<1>8. HandsDiffer'
  <2> SUFFICES ASSUME NEW u \in Threads, NEW v \in Threads,
                      held'[u].id = held'[v].id, held'[u] # NoEntry
               PROVE  u = v
    BY DEF HandsDiffer
  <2>1. held'[u] = held[u] /\ held[u].id \in Ids
    BY <1>7, PlaceTypes
  <2>2. held'[v] = held[v]
    BY <1>7, <2>1, PlaceTypes
  <2> QED
    BY <2>1, <2>2 DEF PlaceInv, HandsDiffer
<1>9. SortsDiffer'
  <2>1. \A l \in Ids : \A k \in DOMAIN lists'[l], u \in Threads : lists'[l][k].id # held'[u].id
    BY <1>1, <1>7, PlaceTypes DEF PlaceInv, SortsDiffer
  <2>2. \A l \in Ids : \A k \in DOMAIN lists'[l], e \in effects' : lists'[l][k].id # e.id
    BY <1>1 DEF PlaceInv, SortsDiffer
  <2>3. \A u \in Threads, e \in effects' : held'[u].id # e.id
    <3> SUFFICES ASSUME NEW u \in Threads, NEW e \in effects' PROVE held'[u].id # e.id
      OBVIOUS
    <3>1. e.id \in Ids
      BY <1>1, <1>2, PlaceTypes
    <3>2. CASE held'[u] = NoEntry
      BY <3>1, <3>2, PlaceTypes
    <3>3. CASE held'[u] # NoEntry
      BY <1>1, <1>7, <3>3 DEF PlaceInv, SortsDiffer
    <3> QED
      BY <3>2, <3>3
  <2> QED
    BY <2>1, <2>2, <2>3 DEF SortsDiffer
<1> QED
  BY <1>3, <1>4, <1>5, <1>6, <1>8, <1>9 DEF PlaceInv

\* Minting fills in the window of the permit the hand already has.
LEMMA IssuePlaces ==
  ASSUME PlaceInv, TypeInv, TypeInv', NEW t \in Threads, Issue(t)
  PROVE  PlaceInv'
<1> DEFINE w == Window(IF Mediated THEN IssuedAt ELSE now)
           e == [held[t] EXCEPT !.from = w.from, !.until = w.until]
<1>1. /\ held' = [held EXCEPT ![t] = e]
      /\ pc[t] = "issue" /\ pc'[t] = "append"
      /\ \A u \in Threads \ {t} : pc'[u] = pc[u]
      /\ UNCHANGED <<lists, effects, decisions>>
  BY DEF Issue, Goto, TypeInv, TypeOK, outVars
<1>2. held[t] \in Entry
  BY <1>1 DEF TypeInv, HeldTypes, Labels
<1>3. e.id = held[t].id
  BY <1>2 DEF Entry
<1> HIDE DEF e
<1>4. held'[t] = e /\ \A u \in Threads \ {t} : held'[u] = held[u]
  BY <1>1 DEF TypeInv, TypeOK
<1>5. EmptyHands'
  BY <1>1, <1>4 DEF PlaceInv, EmptyHands
<1>6. KeepsPlaces
  BY <1>1, <1>2, <1>3, <1>4, PlaceTypes DEF KeepsPlaces
<1> QED
  BY <1>5, <1>6, KeptPlaces

\* Every other step leaves the table, the hands and the recorder as they are.
LEMMA OtherPlaces ==
  ASSUME PlaceInv, TypeInv, TypeInv', UNCHANGED <<lists, held, effects>>,
         Len(decisions) <= Len(decisions'),
         \A u \in Threads : pc'[u] \in {"idle", "pop"} => pc[u] \in {"idle", "pop"}
  PROVE  PlaceInv'
<1>1. Len(decisions') \in Nat
  BY LenProperties DEF TypeInv, TypeOK
<1>2. EmptyHands'
  BY DEF PlaceInv, EmptyHands
<1>3. KeepsPlaces
  BY <1>1 DEF KeepsPlaces
<1> QED
  BY <1>2, <1>3, KeptPlaces

\* Overruling a decision replaces it, so the permits stay accounted for.
LEMMA OverruleKeepsLength ==
  ASSUME TypeInv, NEW t \in Threads, Overrule(t)
  PROVE  Len(decisions') = Len(decisions)
<1>1. decisions \in Seq(Decision) /\ DOMAIN decisions' = DOMAIN decisions
  BY DEF Overrule, TypeInv, TypeOK
<1>2. decisions' \in Seq(Decision \cup {decisions'[i] : i \in DOMAIN decisions'})
  <2>1. Len(decisions) \in Nat /\ DOMAIN decisions = 1 .. Len(decisions)
    BY <1>1, LenProperties
  <2>2. decisions' \in [1 .. Len(decisions) -> Decision \cup {decisions'[i] : i \in DOMAIN decisions'}]
    BY <1>1, <2>1 DEF Overrule
  <2> QED
    BY <2>1, <2>2, IsASeq
<1>3. Len(decisions) \in Nat /\ Len(decisions') \in Nat
      /\ DOMAIN decisions = 1 .. Len(decisions) /\ DOMAIN decisions' = 1 .. Len(decisions')
  BY <1>1, <1>2, LenProperties
<1> QED
  BY <1>1, <1>3

LEMMA PlaceStep == TypeInv /\ PlaceInv /\ [Next]_vars => PlaceInv'
<1> SUFFICES ASSUME TypeInv, PlaceInv, [Next]_vars PROVE PlaceInv'
  OBVIOUS
<1>0. TypeInv' /\ Len(decisions) \in Nat
  BY TypeStep, PlaceTypes
<1>1. ASSUME NEW t \in Threads, Authorize(t) PROVE PlaceInv'
  <2>1. CASE \E c \in Calls, ok \in BOOLEAN : CheckDenies(t, c, ok)
    <3>1. UNCHANGED <<lists, held, effects, pc>>
      BY <2>1 DEF CheckDenies, tableVars, outVars, threadVars
    <3>2. Len(decisions') = Len(decisions) + 1
      <4>1. PICK c \in Calls : decisions' = Append(decisions, [call |-> c, allowed |-> FALSE])
        BY <2>1 DEF CheckDenies, Record
      <4>2. decisions \in Seq(Decision) /\ [call |-> c, allowed |-> FALSE] \in Decision
        BY DEF TypeInv, TypeOK, Decision
      <4> QED
        BY <4>1, <4>2, AppendProperties
    <3> QED
      BY <1>0, <3>1, <3>2, OtherPlaces
  <2>2. CASE \E c \in Calls, ok \in BOOLEAN : CheckRaises(t, c, ok)
    <3>1. UNCHANGED <<lists, held, effects, pc, decisions>>
      BY <2>2 DEF CheckRaises, tableVars, outVars, threadVars
    <3> QED
      BY <1>0, <3>1, OtherPlaces
  <2>3. CASE \E c \in Calls, ok \in BOOLEAN : CheckAllows(t, c, ok)
    BY <2>3, CheckAllowsPlaces
  <2>4. CASE Issue(t)
    BY <1>0, <2>4, IssuePlaces
  <2>5. CASE IssueFails(t)
    <3>1. Return(t) /\ UNCHANGED <<lists, effects>> /\ Len(decisions') = Len(decisions)
      BY <2>5, OverruleKeepsLength DEF IssueFails, tableVars, outVars
    <3> QED
      BY <1>0, <3>1, ReturnPlaces
  <2>6. CASE AppendEntry(t)
    BY <2>6, AppendEntryPlaces
  <2> QED
    BY <1>1, <2>1, <2>2, <2>3, <2>4, <2>5, <2>6 DEF Authorize
<1>2. ASSUME NEW t \in Threads, Execute(t) PROVE PlaceInv'
  <2>1. CASE \E c \in Calls : Fetch(t, c)
    <3>1. /\ pc[t] = "idle"
          /\ \A u \in Threads \ {t} : pc'[u] = pc[u]
          /\ UNCHANGED <<lists, held, effects, decisions>>
      BY <2>1 DEF Fetch, Goto, TypeInv, TypeOK, tableVars, outVars
    <3> QED
      BY <1>0, <3>1, OtherPlaces
  <2>2. CASE Pop(t)
    BY <2>2, PopPlaces
  <2>3. CASE PopFails(t) \/ RemoteFails(t) \/ ConsumeFails(t) \/ ApplyFails(t)
             \/ \E ok \in BOOLEAN : VerifyFails(t, ok)
    <3>1. Return(t) /\ UNCHANGED <<lists, effects, decisions>>
      BY <2>3 DEF PopFails, RemoteFails, ConsumeFails, ApplyFails, VerifyFails, tableVars, outVars
    <3> QED
      BY <1>0, <3>1, ReturnPlaces
  <2>4. CASE Test(t) \/ Unlink(t) \/ RemoteExecute(t) \/ Consume(t) \/ \E ok \in BOOLEAN : Verify(t, ok)
    <3>1. UNCHANGED <<lists, held, effects, decisions>>
      BY <2>4 DEF Test, Unlink, RemoteExecute, Consume, Verify, tableVars, outVars
    <3>2. \A u \in Threads : pc'[u] \in {"idle", "pop"} => pc[u] \in {"idle", "pop"}
      BY <2>4, RemoteWork, ConsumeWork, VerifyWork DEF Test, Unlink, Goto, TypeInv, TypeOK, AtWork
    <3> QED
      BY <1>0, <3>1, <3>2, OtherPlaces
  <2>5. CASE Apply(t)
    BY <2>5, ApplyPlaces
  <2> QED
    BY <1>2, <2>1, <2>2, <2>3, <2>4, <2>5 DEF Execute
<1>3. CASE Tick \/ Revoke \/ UNCHANGED vars
  <2>1. UNCHANGED <<lists, held, effects, decisions, pc>>
    BY <1>3 DEF Tick, Revoke, vars, tableVars, outVars, threadVars
  <2> QED
    BY <1>0, <2>1, OtherPlaces
<1> QED
  BY <1>1, <1>2, <1>3 DEF Next

\* Every permit is accounted for: in one slot, one hand or one effect.
THEOREM PlacesHold == Spec => []PlaceInv
<1> QED
  BY PlaceInit, PlaceStep, AlwaysTyped, PTL DEF Spec

\* A set without two different members has at most one.
LEMMA AtMostOne ==
  ASSUME NEW S, \A x, y \in S : x = y
  PROVE  Cardinality(S) <= 1
<1>1. CASE S = {}
  BY <1>1, FS_EmptySet
<1>2. CASE S # {}
  <2>1. PICK x \in S : S = {x}
    BY <1>2
  <2> QED
    BY <2>1, FS_Singleton
<1> QED
  BY <1>1, <1>2

\* Every permit is in one list at one position, in one hand or spent on one
\* effect, never in two of these, however many threads fetch, pop, unlink and
\* file at once.
THEOREM OnePlaceEach == Spec => []PermitInOnePlace
<1>1. PlaceInv /\ TypeInv => PermitInOnePlace
  <2> SUFFICES ASSUME PlaceInv, TypeInv, NEW i \in Ids,
                      NEW x \in Places(i), NEW y \in Places(i)
               PROVE  x = y
    BY AtMostOne DEF PermitInOnePlace
  <2> DEFINE Slot(p) == \E l \in Ids : \E k \in DOMAIN lists[l] :
                          lists[l][k].id = i /\ p = <<"list", l, k>>
             Hand(p) == \E t \in Threads : held[t].id = i /\ p = <<"thread", t>>
             Spent(p) == \E e \in effects : e.id = i /\ p = <<"effect", e>>
  <2>1. ASSUME NEW p \in Places(i) PROVE Slot(p) \/ Hand(p) \/ Spent(p)
    <3>1. CASE \E t \in Threads : held[t].id = i /\ p = <<"thread", t>>
      BY <3>1
    <3>2. CASE \E e \in effects : e.id = i /\ p = <<"effect", e>>
      BY <3>2
    <3>3. CASE \E l \in Ids, k \in Ids :
                 /\ p = <<"list", l, k>>
                 /\ \E j \in DOMAIN lists[l] : lists[l][j].id = i
                 /\ \E m \in Ids : k \in DOMAIN lists[m] /\ lists[m][k].id = i
      <4>1. PICK l \in Ids, k \in Ids :
                 /\ p = <<"list", l, k>>
                 /\ \E j \in DOMAIN lists[l] : lists[l][j].id = i
                 /\ \E m \in Ids : k \in DOMAIN lists[m] /\ lists[m][k].id = i
        BY <3>3
      <4>2. PICK j \in DOMAIN lists[l] : lists[l][j].id = i
        BY <4>1
      <4>3. PICK m \in Ids : k \in DOMAIN lists[m] /\ lists[m][k].id = i
        BY <4>1
      <4>4. l = m /\ j = k
        BY <4>2, <4>3 DEF PlaceInv, SlotsDiffer
      <4> QED
        BY <4>1, <4>2, <4>4
    <3> QED
      BY <2>1, <3>1, <3>2, <3>3 DEF Places
  <2>2. i # 0 /\ NoEntry.id = 0
    BY PlaceTypes
  <2>3. CASE Slot(x) /\ Slot(y)
    BY <2>3 DEF PlaceInv, SlotsDiffer
  <2>4. CASE Hand(x) /\ Hand(y)
    BY <2>2, <2>4 DEF PlaceInv, HandsDiffer
  <2>5. CASE Spent(x) /\ Spent(y)
    BY <2>5 DEF PlaceInv, EffectsDiffer
  <2>6. ~((Slot(x) \/ Slot(y)) /\ (Hand(x) \/ Hand(y))) /\ ~((Slot(x) \/ Slot(y)) /\ (Spent(x) \/ Spent(y)))
        /\ ~((Hand(x) \/ Hand(y)) /\ (Spent(x) \/ Spent(y)))
    BY DEF PlaceInv, SortsDiffer
  <2> QED
    BY <2>1, <2>3, <2>4, <2>5, <2>6
<1> QED
  BY <1>1, PlacesHold, AlwaysTyped, PTL

-----------------------------------------------------------------------------
(***************************************************************************)
(* The boundary implements SingleUseGrant.  A grant is made when a check   *)
(* allows, moves unseen from hand to list to hand, and ends with a return  *)
(* (void) or with an effect.                                               *)
(***************************************************************************)
Live == {GrantOf(e) : e \in EntriesInLists \cup EntriesInHand}
Done == {GrantOf(e) : e \in effects}

OnFile(g) == \E l \in Ids : \E k \in DOMAIN lists[l] : g = GrantOf(lists[l][k])
InHand(g, t) == held[t] # NoEntry /\ g = GrantOf(held[t])

LEMMA LiveIs == \A g : g \in Live <=> OnFile(g) \/ \E t \in Threads : InHand(g, t)
<1>1. \A x : x \in EntriesInLists <=> \E l \in Ids : \E k \in DOMAIN lists[l] : x = lists[l][k]
  BY DEF EntriesInLists
<1>2. \A x : x \in EntriesInHand <=> \E t \in Threads : x = held[t] /\ x # NoEntry
  BY DEF EntriesInHand
<1> QED
  BY <1>1, <1>2 DEF Live, OnFile, InHand

LEMMA LiveIsNext == \A g : g \in Live' <=> OnFile(g)' \/ \E t \in Threads : InHand(g, t)'
<1>1. \A x : x \in EntriesInLists' <=> \E l \in Ids : \E k \in DOMAIN lists'[l] : x = lists'[l][k]
  BY DEF EntriesInLists
<1>2. \A x : x \in EntriesInHand' <=> \E t \in Threads : x = held'[t] /\ x # NoEntry
  BY DEF EntriesInHand
<1> QED
  BY <1>1, <1>2 DEF Live, OnFile, InHand

\* Grants are of decisions made, and no two live ones share an identity.
LEMMA GrantFacts ==
  ASSUME TypeInv, PlaceInv
  PROVE  /\ \A g \in Live \cup Done : g.id \in Nat /\ g.id <= Len(decisions)
         /\ \A t \in Threads : held[t] # NoEntry => GrantOf(held[t]) \in Abstract!Grant
         /\ \A g : \A t \in Threads : InHand(g, t) => ~OnFile(g)
         /\ \A g : \A t, u \in Threads : InHand(g, t) /\ InHand(g, u) => t = u
<1>0. \A x, y : GrantOf(x) = GrantOf(y) => x.id = y.id
  BY DEF GrantOf
<1>1. \A x : GrantOf(x).id = x.id
  BY DEF GrantOf
<1>2. \A g \in Live : g.id \in Nat /\ g.id <= Len(decisions)
  BY <1>1, LiveIs, PlaceTypes DEF OnFile, InHand, PlaceInv, IdsAreIssued
<1>3. \A g \in Done : g.id \in Nat /\ g.id <= Len(decisions)
  BY <1>1, PlaceTypes DEF Done, PlaceInv, IdsAreIssued
<1>4. \A t \in Threads : held[t] # NoEntry => GrantOf(held[t]) \in Abstract!Grant
  BY PlaceTypes DEF GrantOf, Abstract!Grant, Entry
<1>5. \A g : \A t \in Threads : InHand(g, t) => ~OnFile(g)
  BY <1>0 DEF InHand, OnFile, PlaceInv, SortsDiffer
<1>6. \A g : \A t, u \in Threads : InHand(g, t) /\ InHand(g, u) => t = u
  BY <1>0 DEF InHand, PlaceInv, HandsDiffer
<1> QED
  BY <1>2, <1>3, <1>4, <1>5, <1>6

\* A step of the abstract promise, in the terms of this module.
Same == Live' = Live /\ Done' = Done /\ Mediated' = Mediated

\* The grants stay as they are when lists and hands keep the grants they have.
LEMMA SameGrants ==
  ASSUME \A g : OnFile(g)' <=> OnFile(g),
         \A g : \A t \in Threads : InHand(g, t)' <=> InHand(g, t)
  PROVE  Live' = Live
<1>1. \A g : g \in Live' <=> g \in Live
  BY LiveIs, LiveIsNext
<1>2. Live = {g \in Live \cup Live' : g \in Live} /\ Live' = {g \in Live \cup Live' : g \in Live'}
  OBVIOUS
<1> QED
  BY <1>1, <1>2

\* A thread that returns voids the grant it holds, if any.
LEMMA ReturnGrants ==
  ASSUME TypeInv, PlaceInv, NEW t \in Threads, Return(t), UNCHANGED lists
  PROVE  \/ held[t] = NoEntry /\ Live' = Live
         \/ held[t] # NoEntry /\ GrantOf(held[t]) \in Live /\ Live' = Live \ {GrantOf(held[t])}
<1>1. held'[t] = NoEntry /\ \A u \in Threads \ {t} : held'[u] = held[u]
  BY DEF Return, TypeInv, TypeOK
<1>2. \A g : OnFile(g)' <=> OnFile(g)
  BY DEF OnFile
<1>3. \A g : ~InHand(g, t)' /\ \A u \in Threads \ {t} : InHand(g, u)' <=> InHand(g, u)
  BY <1>1 DEF InHand
<1>4. CASE held[t] = NoEntry
  <2>1. \A g : \A u \in Threads : InHand(g, u)' <=> InHand(g, u)
    BY <1>3, <1>4 DEF InHand
  <2> QED
    BY <1>2, <1>4, <2>1, SameGrants
<1>5. CASE held[t] # NoEntry
  <2> DEFINE h == GrantOf(held[t])
  <2>1. InHand(h, t) /\ \A g : InHand(g, t) => g = h
    BY <1>5 DEF InHand
  <2> HIDE DEF h
  <2>2. \A g : g \in Live' <=> g \in Live /\ g # h
    <3>1. ~OnFile(h) /\ \A u \in Threads \ {t} : ~InHand(h, u)
      BY <2>1, GrantFacts
    <3>2. \A g : g \in Live' <=> OnFile(g) \/ \E u \in Threads \ {t} : InHand(g, u)
      BY <1>2, <1>3, LiveIsNext
    <3>3. \A g : g \in Live <=> OnFile(g) \/ \E u \in Threads : InHand(g, u)
      BY LiveIs
    <3> QED
      BY <2>1, <3>1, <3>2, <3>3
  <2>3. h \in Live
    BY <2>1, LiveIs
  <2>4. Live' = Live \ {h}
    BY <2>2
  <2> QED
    BY <1>5, <2>3, <2>4 DEF h
<1> QED
  BY <1>4, <1>5

\* A permit is filed: its grant moves from the hand to the list.
LEMMA AppendGrants ==
  ASSUME TypeInv, PlaceInv, NEW t \in Threads, AppendEntry(t)
  PROVE  Live' = Live
<1>1. /\ held'[t] = NoEntry
      /\ \A u \in Threads \ {t} : held'[u] = held[u]
      /\ held[t] \in Entry /\ held[t] # NoEntry /\ ref[t] \in Ids
  BY PlaceTypes DEF AppendEntry, Return, TypeInv, TypeOK, HeldTypes, Labels
<1>2. \A l \in Ids : lists'[l] = IF l = ref[t] THEN Append(lists[l], held[t]) ELSE lists[l]
  BY DEF AppendEntry, TypeInv, TypeOK
<1>3. \A l \in Ids : /\ \A k \in DOMAIN lists[l] : k \in DOMAIN lists'[l] /\ lists'[l][k] = lists[l][k]
                     /\ l = ref[t] => /\ Len(lists[l]) + 1 \in DOMAIN lists'[l]
                                      /\ lists'[l][Len(lists[l]) + 1] = held[t]
  <2> SUFFICES ASSUME NEW l \in Ids
               PROVE  /\ \A k \in DOMAIN lists[l] : k \in DOMAIN lists'[l] /\ lists'[l][k] = lists[l][k]
                      /\ l = ref[t] => /\ Len(lists[l]) + 1 \in DOMAIN lists'[l]
                                       /\ lists'[l][Len(lists[l]) + 1] = held[t]
    OBVIOUS
  <2>1. lists[l] \in Seq(Entry) /\ Len(lists[l]) \in Nat /\ DOMAIN lists[l] = 1 .. Len(lists[l])
    BY PlaceTypes
  <2>2. /\ DOMAIN Append(lists[l], held[t]) = 1 .. Len(lists[l]) + 1
        /\ \A j \in 1 .. Len(lists[l]) : Append(lists[l], held[t])[j] = lists[l][j]
        /\ Append(lists[l], held[t])[Len(lists[l]) + 1] = held[t]
    BY <1>1, <2>1, AppendProperties, LenProperties
  <2>3. CASE l = ref[t]
    <3>1. lists'[l] = Append(lists[l], held[t])
      BY <1>2, <2>3
    <3>2. \A j \in 1 .. Len(lists[l]) : j \in 1 .. Len(lists[l]) + 1
      BY <2>1
    <3> QED
      BY <2>1, <2>2, <3>1, <3>2
  <2>4. CASE l # ref[t]
    BY <1>2, <2>4
  <2> QED
    BY <2>3, <2>4
<1>4. \A g : OnFile(g)' <=> OnFile(g) \/ g = GrantOf(held[t])
  BY <1>1, <1>3, FiledSlots DEF OnFile
<1>5. \A g : \A u \in Threads : InHand(g, u)' <=> u # t /\ InHand(g, u)
  BY <1>1 DEF InHand
<1>6. \A g : InHand(g, t) <=> g = GrantOf(held[t])
  BY <1>1 DEF InHand
<1>7. \A g : g \in Live' <=> g \in Live
  BY <1>4, <1>5, <1>6, LiveIs, LiveIsNext
<1> QED
  BY <1>7

\* A permit is taken: its grant moves from the list to the hand.
LEMMA PopGrants ==
  ASSUME TypeInv, PlaceInv, NEW t \in Threads, Pop(t)
  PROVE  Live' = Live
<1> DEFINE list == lists[ref[t]]
           x == list[1]
<1>1. /\ ref[t] \in Ids /\ 1 \in DOMAIN list /\ held'[t] = x
      /\ \A u \in Threads \ {t} : held'[u] = held[u]
      /\ \A l \in Ids : \A k \in DOMAIN lists'[l] :
           \/ l # ref[t] /\ k \in DOMAIN lists[l] /\ lists'[l][k] = lists[l][k]
           \/ /\ l = ref[t] /\ k + 1 \in DOMAIN lists[l] /\ k + 1 # 1 /\ k \in Nat
              /\ lists'[l][k] = lists[l][k + 1]
  BY TakenSlots
<1>2. held[t] = NoEntry /\ x # NoEntry
  <2>1. held[t] = NoEntry
    BY DEF Pop, PlaceInv, EmptyHands
  <2>2. x \in Entry
    BY <1>1, PlaceTypes
  <2> QED
    BY <2>1, <2>2, PlaceTypes
<1>3. /\ \A l \in Ids : l # ref[t] => lists'[l] = lists[l]
      /\ lists'[ref[t]] = Tail(list)
  BY <1>1 DEF Pop, PoppedList, TypeInv, TypeOK
<1>4. \A k \in DOMAIN list : k = 1 \/ (k - 1 \in DOMAIN lists'[ref[t]] /\ lists'[ref[t]][k - 1] = list[k])
  <2>1. list \in Seq(Entry) /\ list # <<>> /\ DOMAIN list = 1 .. Len(list) /\ Len(list) \in Nat
    BY <1>1, PlaceTypes DEF Pop
  <2>2. /\ Tail(list) \in Seq(Entry) /\ Len(Tail(list)) = Len(list) - 1
        /\ \A k \in 1 .. Len(Tail(list)) : Tail(list)[k] = list[k + 1]
    BY <2>1, HeadTailProperties
  <2>3. DOMAIN Tail(list) = 1 .. Len(list) - 1
    BY <2>2, LenProperties
  <2> HIDE DEF list
  <2>4. ASSUME NEW k \in DOMAIN list, k # 1
        PROVE  k - 1 \in DOMAIN Tail(list) /\ Tail(list)[k - 1] = list[k]
    <3>1. k \in Nat /\ k - 1 \in 1 .. Len(list) - 1 /\ (k - 1) + 1 = k
      BY <2>1, <2>4
    <3> QED
      BY <2>2, <2>3, <3>1
  <2> QED
    BY <1>3, <2>4
<1>5. \A g : OnFile(g) <=> OnFile(g)' \/ g = GrantOf(x)
  <2>1. \A g : OnFile(g)' => OnFile(g)
    BY <1>1 DEF OnFile
  <2>2. \A g : g = GrantOf(x) => OnFile(g)
    BY <1>1 DEF OnFile
  <2>3. ASSUME NEW g, OnFile(g), g # GrantOf(x) PROVE OnFile(g)'
    <3>1. PICK l \in Ids : \E k \in DOMAIN lists[l] : g = GrantOf(lists[l][k])
      BY <2>3 DEF OnFile
    <3>2. PICK k \in DOMAIN lists[l] : g = GrantOf(lists[l][k])
      BY <3>1
    <3>3. CASE l = ref[t]
      BY <1>4, <2>3, <3>2, <3>3 DEF OnFile
    <3>4. CASE l # ref[t]
      BY <1>3, <3>2, <3>4 DEF OnFile
    <3> QED
      BY <3>3, <3>4
  <2> QED
    BY <2>1, <2>2, <2>3
<1>6. \A g : InHand(g, t)' <=> g = GrantOf(x)
  BY <1>1, <1>2 DEF InHand
<1>7. \A g : ~InHand(g, t) /\ \A u \in Threads \ {t} : InHand(g, u)' <=> InHand(g, u)
  BY <1>1, <1>2 DEF InHand
<1>8. \A g : g \in Live' <=> g \in Live
  BY <1>5, <1>6, <1>7, LiveIs, LiveIsNext
<1> QED
  BY <1>8

\* A grant is made for the call that is allowed, with an identity of its own.
LEMMA CheckGrants ==
  ASSUME TypeInv, PlaceInv, NEW t \in Threads, NEW c \in Calls, NEW ok \in BOOLEAN,
         CheckAllows(t, c, ok)
  PROVE  \E g \in Abstract!Grant : Abstract!Issue(g)
<1> DEFINE e == [id |-> Len(decisions) + 1, call |-> c, from |-> 0, until |-> 0]
           h == GrantOf(e)
<1>1. /\ held' = [held EXCEPT ![t] = e]
      /\ pc[t] = "idle"
      /\ UNCHANGED <<lists, effects, mode>>
  BY DEF CheckAllows, Ask, tableVars, outVars, gateVars
<1>2. e.id = Len(decisions) + 1 /\ h.id = Len(decisions) + 1 /\ h.call = c
  BY DEF GrantOf
<1>3. Len(decisions) + 1 \in Ids /\ Len(decisions) \in Nat
  BY RecordTypes, PlaceTypes DEF CheckAllows
<1>4. h \in Abstract!Grant
  BY <1>3 DEF Abstract!Grant, GrantOf
<1>5. e # NoEntry
  BY <1>2, <1>3, PlaceTypes
<1> HIDE DEF e
<1>6. held'[t] = e /\ \A u \in Threads \ {t} : held'[u] = held[u]
  BY <1>1 DEF TypeInv, TypeOK
<1>7. \A g : /\ InHand(g, t)' <=> g = h
             /\ ~InHand(g, t)
             /\ \A u \in Threads \ {t} : InHand(g, u)' <=> InHand(g, u)
             /\ OnFile(g)' <=> OnFile(g)
  BY <1>1, <1>5, <1>6 DEF InHand, OnFile, PlaceInv, EmptyHands
<1> HIDE DEF h
<1>8. \A g : g \in Live' <=> g \in Live \/ g = h
  BY <1>7, LiveIs, LiveIsNext
<1>9. Live' = Live \cup {h}
  BY <1>8
<1>10. \A g \in Live \cup Done : g.id # h.id
  BY <1>2, <1>3, GrantFacts
<1>11. Done' = Done /\ Mediated' = Mediated
  BY <1>1 DEF Done, Mediated
<1>12. Abstract!Issue(h)
  BY <1>9, <1>10, <1>11 DEF Abstract!Issue, Live, Done
<1> QED
  BY <1>4, <1>12

\* An effect spends the grant in the hand of the thread that records it.
LEMMA ApplyGrants ==
  ASSUME TypeInv, PlaceInv, ExactInv, SpendInv, NEW t \in Threads, Apply(t)
  PROVE  \E g \in Abstract!Grant : Abstract!Effect(g)
<1> DEFINE h == GrantOf(held[t])
<1>1. /\ Return(t) /\ UNCHANGED <<lists, mode>> /\ pc[t] = "apply"
      /\ effects' = effects \cup {EventOf(t)}
  BY DEF Apply, tableVars, gateVars
<1>2. held[t] # NoEntry /\ held[t] \in Entry
  BY <1>1, PlaceTypes DEF TypeInv, HeldTypes, Labels
<1>3. h \in Live /\ Live' = Live \ {h}
  BY <1>1, <1>2, ReturnGrants
<1>4. h \in Abstract!Grant
  BY <1>2, GrantFacts
<1>5. held[t].call = cur[t] /\ h.call = cur[t] /\ GrantOf(EventOf(t)) = h
  BY <1>1 DEF ExactInv, AtWork, GrantOf, EventOf
<1>6. Mediated => \A g \in Done : Needs[g.call] \cap Needs[h.call] = {}
  <2> SUFFICES ASSUME Mediated, NEW e \in effects
               PROVE  Needs[GrantOf(e).call] \cap Needs[h.call] = {}
    BY DEF Done
  <2>1. GrantOf(e).call = e.call
    BY DEF GrantOf
  <2>2. Needs[cur[t]] \cap Needs[e.call] = {}
    BY <1>1 DEF SpendInv
  <2> QED
    BY <1>5, <2>1, <2>2
<1>7. Done' = Done \cup {h}
  <2>1. Done' = {GrantOf(e) : e \in effects'}
    BY DEF Done, GrantOf
  <2> QED
    BY <1>1, <1>5, <2>1 DEF Done
<1>8. Mediated' = Mediated
  BY <1>1 DEF Mediated
<1> HIDE DEF h
<1>9. Abstract!Effect(h)
  BY <1>3, <1>6, <1>7, <1>8 DEF Abstract!Effect, Live, Done
<1> QED
  BY <1>4, <1>9

LEMMA GrantStep ==
  TypeInv /\ PlaceInv /\ ExactInv /\ SpendInv /\ [Next]_vars => [Abstract!Next]_(Abstract!grantVars)
<1> SUFFICES ASSUME TypeInv, PlaceInv, ExactInv, SpendInv, [Next]_vars
             PROVE  Abstract!Next \/ Same
  BY DEF Abstract!grantVars, Same, Live, Done
<1>1. ASSUME UNCHANGED <<lists, held, effects, mode>> PROVE Same
  BY <1>1 DEF Same, Live, Done, EntriesInLists, EntriesInHand, GrantOf, Mediated
<1>2. ASSUME NEW t \in Threads, Return(t), UNCHANGED <<lists, effects, mode>>
      PROVE  Abstract!Next \/ Same
  <2>1. Done' = Done /\ Mediated' = Mediated
    BY <1>2 DEF Done, GrantOf, Mediated
  <2>2. CASE held[t] = NoEntry
    BY <1>2, <2>1, <2>2, ReturnGrants DEF Same
  <2>3. CASE held[t] # NoEntry
    <3>1. /\ GrantOf(held[t]) \in Abstract!Grant /\ GrantOf(held[t]) \in Live
          /\ Live' = Live \ {GrantOf(held[t])}
      BY <1>2, <2>3, ReturnGrants, GrantFacts
    <3>2. Abstract!Void(GrantOf(held[t]))
      BY <2>1, <3>1 DEF Abstract!Void, Live, Done
    <3> QED
      BY <3>1, <3>2 DEF Abstract!Next
  <2> QED
    BY <2>2, <2>3
<1>3. ASSUME NEW t \in Threads, Authorize(t) PROVE Abstract!Next \/ Same
  <2>1. CASE \E c \in Calls, ok \in BOOLEAN : CheckDenies(t, c, ok) \/ CheckRaises(t, c, ok)
    BY <1>1, <2>1 DEF CheckDenies, CheckRaises, tableVars, outVars, threadVars, gateVars
  <2>2. CASE \E c \in Calls, ok \in BOOLEAN : CheckAllows(t, c, ok)
    BY <2>2, CheckGrants DEF Abstract!Next
  <2>3. CASE Issue(t)
    <3> DEFINE w == Window(IF Mediated THEN IssuedAt ELSE now)
               e == [held[t] EXCEPT !.from = w.from, !.until = w.until]
    <3>1. /\ held' = [held EXCEPT ![t] = e]
          /\ pc[t] = "issue" /\ UNCHANGED <<lists, effects, mode>>
      BY <2>3 DEF Issue, outVars, gateVars
    <3>2. held[t] \in Entry /\ held[t] # NoEntry
      BY <3>1, PlaceTypes DEF TypeInv, HeldTypes, Labels
    <3>3. GrantOf(e) = GrantOf(held[t]) /\ e.id = held[t].id
      BY <3>2 DEF GrantOf, Entry
    <3>4. e # NoEntry
      BY <3>2, <3>3, PlaceTypes
    <3> HIDE DEF e
    <3>5. held'[t] = e /\ \A u \in Threads \ {t} : held'[u] = held[u]
      BY <3>1 DEF TypeInv, TypeOK
    <3>6. \A g : \A u \in Threads : InHand(g, u)' <=> InHand(g, u)
      BY <3>2, <3>3, <3>4, <3>5 DEF InHand
    <3>7. \A g : OnFile(g)' <=> OnFile(g)
      BY <3>1 DEF OnFile
    <3> QED
      BY <3>1, <3>6, <3>7, SameGrants DEF Same, Done, GrantOf, Mediated
  <2>4. CASE IssueFails(t)
    BY <1>2, <2>4 DEF IssueFails, tableVars, outVars, gateVars
  <2>5. CASE AppendEntry(t)
    <3>1. UNCHANGED <<effects, mode>>
      BY <2>5 DEF AppendEntry, outVars, gateVars
    <3> QED
      BY <2>5, <3>1, AppendGrants DEF Same, Done, GrantOf, Mediated
  <2> QED
    BY <1>3, <2>1, <2>2, <2>3, <2>4, <2>5 DEF Authorize
<1>4. ASSUME NEW t \in Threads, Execute(t) PROVE Abstract!Next \/ Same
  <2>1. CASE (\E c \in Calls : Fetch(t, c)) \/ Test(t) \/ Unlink(t) \/ RemoteExecute(t)
             \/ Consume(t) \/ \E ok \in BOOLEAN : Verify(t, ok)
    BY <1>1, <2>1 DEF Fetch, Test, Unlink, RemoteExecute, Consume, Verify, tableVars, outVars, gateVars
  <2>2. CASE Pop(t)
    <3>1. UNCHANGED <<effects, mode>>
      BY <2>2 DEF Pop, outVars, gateVars
    <3> QED
      BY <2>2, <3>1, PopGrants DEF Same, Done, GrantOf, Mediated
  <2>3. CASE PopFails(t) \/ RemoteFails(t) \/ ConsumeFails(t) \/ ApplyFails(t)
             \/ \E ok \in BOOLEAN : VerifyFails(t, ok)
    BY <1>2, <2>3 DEF PopFails, RemoteFails, ConsumeFails, ApplyFails, VerifyFails,
       tableVars, outVars, gateVars
  <2>4. CASE Apply(t)
    BY <2>4, ApplyGrants DEF Abstract!Next
  <2> QED
    BY <1>4, <2>1, <2>2, <2>3, <2>4 DEF Execute
<1>5. CASE Tick \/ Revoke \/ UNCHANGED vars
  BY <1>1, <1>5 DEF Tick, Revoke, vars, gateVars, tableVars, outVars, threadVars
<1> QED
  BY <1>3, <1>4, <1>5 DEF Next

LEMMA GrantInit == Init => Abstract!Init
<1> SUFFICES ASSUME Init PROVE Abstract!Init
  OBVIOUS
<1>1. EntriesInLists = {} /\ EntriesInHand = {}
  BY DEF Init, EntriesInLists, EntriesInHand
<1>2. effects = {} /\ Mediated \in BOOLEAN
  BY DEF Init, Mediated
<1> QED
  BY <1>1, <1>2 DEF Abstract!Init

\* Whatever the threads do at once, an observer who sees only the grants and
\* the effects sees each grant made once, for one call, and ended once: void,
\* or spent on one effect with that very call, and no authority paying twice.
THEOREM BoundaryImplementsGrants == Spec => ImplementsSingleUseGrant
<1>1. Spec => [](TypeInv /\ PlaceInv /\ ExactInv /\ SpendInv)
  BY ExactInit, ExactStep, SpendInit, SpendStep, PlacesHold, AlwaysTyped, PTL DEF Spec
<1> QED
  BY <1>1, GrantInit, GrantStep, PTL DEF Spec, ImplementsSingleUseGrant, Abstract!Spec

-----------------------------------------------------------------------------
(***************************************************************************)
(* What the permits' windows add: in a mediated mode they end with the     *)
(* lease, so a permit in hand is refused at the effect only when the lease *)
(* is over.                                                                *)
(***************************************************************************)
Good(x, enforced, clock) == x.from <= clock /\ (enforced => x.until = LeaseEnd)

\* Where a thread's permit has its window.
Carry == {"append", "test", "unlink", "verify", "remote", "consume", "apply"}

WindowInv ==
  /\ \A l \in Ids : \A k \in DOMAIN lists[l] : Good(lists[l][k], Mediated, now)
  /\ \A t \in Threads : pc[t] \in Carry => Good(held[t], Mediated, now)

LEMMA WindowInit == Init => WindowInv
BY DEF Init, WindowInv, Carry

LEMMA TimeMoves ==
  ASSUME TypeInv, [Next]_vars
  PROVE  mode' = mode /\ Mediated' = Mediated /\ now \in Nat /\ now' \in Nat /\ now <= now'
<1>1. now \in Nat
  BY BoundsAssumption DEF TypeInv, TypeOK, Time
<1>2. CASE Tick
  BY <1>1, <1>2 DEF Tick, Mediated
<1>3. CASE Revoke \/ UNCHANGED vars
  BY <1>1, <1>3 DEF Revoke, vars, gateVars, Mediated
<1>4. ASSUME NEW t \in Threads, Authorize(t) PROVE UNCHANGED <<mode, now>>
  BY <1>4 DEF Authorize, CheckDenies, CheckRaises, CheckAllows, Issue, IssueFails,
              AppendEntry, gateVars
<1>5. ASSUME NEW t \in Threads, Execute(t) PROVE UNCHANGED <<mode, now>>
  BY <1>5 DEF Execute, Fetch, Pop, PopFails, Test, Unlink, Verify, VerifyFails, RemoteExecute,
              RemoteFails, Consume, ConsumeFails, Apply, ApplyFails, gateVars
<1> QED
  BY <1>1, <1>2, <1>3, <1>4, <1>5 DEF Next, Mediated

LEMMA GoodForLong ==
  ASSUME TypeInv, [Next]_vars, NEW x \in Entry, Good(x, Mediated, now)
  PROVE  Good(x, Mediated', now')
<1>1. x.from \in Nat
  BY DEF Entry
<1> QED
  BY <1>1, TimeMoves DEF Good

\* Minting and taking apart, a thread that carries a permit has carried it.
LEMMA CarrySame ==
  ASSUME TypeInv, [Next]_vars, \A t \in Threads : ~Issue(t) /\ ~Pop(t)
  PROVE  \A u \in Threads : pc'[u] \in Carry => pc[u] \in Carry /\ held'[u] = held[u]
<1> DEFINE Kept == \A u \in Threads : pc'[u] \in Carry => pc[u] \in Carry /\ held'[u] = held[u]
<1>1. ASSUME NEW t \in Threads, Return(t) PROVE Kept
  BY <1>1 DEF Return, Goto, Carry, TypeInv, TypeOK
<1>2. ASSUME NEW t \in Threads, Authorize(t) PROVE Kept
  <2>1. CASE \E c \in Calls, ok \in BOOLEAN : CheckDenies(t, c, ok) \/ CheckRaises(t, c, ok)
    BY <2>1 DEF CheckDenies, CheckRaises, threadVars
  <2>2. CASE \E c \in Calls, ok \in BOOLEAN : CheckAllows(t, c, ok)
    <3>1. pc'[t] = "issue" /\ \A u \in Threads \ {t} : pc'[u] = pc[u] /\ held'[u] = held[u]
      BY <2>2 DEF CheckAllows, Goto, TypeInv, TypeOK
    <3> QED
      BY <3>1 DEF Carry
  <2>3. CASE IssueFails(t) \/ AppendEntry(t)
    BY <1>1, <2>3 DEF IssueFails, AppendEntry
  <2> QED
    BY <1>2, <2>1, <2>2, <2>3 DEF Authorize
<1>3. ASSUME NEW t \in Threads, Execute(t) PROVE Kept
  <2>1. CASE \E c \in Calls : Fetch(t, c)
    BY <2>1 DEF Fetch, Goto, Carry, TypeInv, TypeOK
  <2>2. CASE PopFails(t) \/ RemoteFails(t) \/ ConsumeFails(t) \/ ApplyFails(t) \/ Apply(t)
             \/ \E ok \in BOOLEAN : VerifyFails(t, ok)
    BY <1>1, <2>2 DEF PopFails, RemoteFails, ConsumeFails, ApplyFails, Apply, VerifyFails
  <2>3. CASE Test(t) \/ Unlink(t) \/ RemoteExecute(t) \/ Consume(t) \/ \E ok \in BOOLEAN : Verify(t, ok)
    <3>1. held' = held /\ pc[t] \in Carry /\ \A u \in Threads \ {t} : pc'[u] = pc[u]
      BY <2>3 DEF Test, Unlink, RemoteExecute, Consume, Verify, Goto, Carry, TypeInv, TypeOK
    <3> QED
      BY <3>1
  <2> QED
    BY <1>3, <2>1, <2>2, <2>3 DEF Execute
<1>4. CASE Tick \/ Revoke \/ UNCHANGED vars
  BY <1>4 DEF Tick, Revoke, vars, threadVars
<1> QED
  BY <1>2, <1>3, <1>4 DEF Next

\* Only filing and taking change a list.
LEMMA ListsSame ==
  ASSUME [Next]_vars, \A t \in Threads : ~AppendEntry(t) /\ ~Pop(t)
  PROVE  lists' = lists
<1>1. ASSUME NEW t \in Threads, Authorize(t) PROVE lists' = lists
  BY <1>1 DEF Authorize, CheckDenies, CheckRaises, CheckAllows, Issue, IssueFails, tableVars
<1>2. ASSUME NEW t \in Threads, Execute(t) PROVE lists' = lists
  BY <1>2 DEF Execute, Fetch, PopFails, Test, Unlink, Verify, VerifyFails, RemoteExecute,
              RemoteFails, Consume, ConsumeFails, Apply, ApplyFails, tableVars
<1> QED
  BY <1>1, <1>2 DEF Next, Tick, Revoke, vars, tableVars

\* A permit is minted inside the lease, or good from now on.
LEMMA MintedIsGood ==
  ASSUME TypeInv, NEW t \in Threads, Issue(t)
  PROVE  Good(held'[t], Mediated', now') /\ \A u \in Threads \ {t} : pc'[u] = pc[u] /\ held'[u] = held[u]
<1> DEFINE start == IF Mediated THEN IssuedAt ELSE now
           e == [held[t] EXCEPT !.from = Window(start).from, !.until = Window(start).until]
<1>1. held' = [held EXCEPT ![t] = e] /\ PermitCanIssue /\ UNCHANGED <<mode, now>>
      /\ \A u \in Threads \ {t} : pc'[u] = pc[u]
  BY DEF Issue, Goto, gateVars, TypeInv, TypeOK
<1>2. held[t] \in Entry
  BY DEF Issue, TypeInv, HeldTypes, Labels
<1>3. e.from = start /\ e.until = start + TTL
  BY <1>2 DEF Entry, Window
<1>4. start <= now /\ (Mediated => start = IssuedAt)
  BY <1>1, BoundsAssumption DEF PermitCanIssue, LeaseCurrent, TypeInv, TypeOK, Time
<1> HIDE DEF e, start
<1>5. held'[t] = e /\ \A u \in Threads \ {t} : held'[u] = held[u]
  BY <1>1 DEF TypeInv, TypeOK
<1> QED
  BY <1>1, <1>3, <1>4, <1>5 DEF Good, Mediated, LeaseEnd

LEMMA WindowStep == TypeInv /\ WindowInv /\ [Next]_vars => WindowInv'
<1> SUFFICES ASSUME TypeInv, WindowInv, [Next]_vars PROVE WindowInv'
  OBVIOUS
<1>1. /\ \A l \in Ids : \A k \in DOMAIN lists[l] : Good(lists[l][k], Mediated', now')
      /\ \A t \in Threads : pc[t] \in Carry => Good(held[t], Mediated', now')
  BY GoodForLong, PlaceTypes DEF WindowInv, HeldTypes, TypeInv, Carry, Labels
<1>2. \A l \in Ids : \A k \in DOMAIN lists'[l] : Good(lists'[l][k], Mediated', now')
  <2>1. CASE \A t \in Threads : ~AppendEntry(t) /\ ~Pop(t)
    <3>1. lists' = lists
      BY <2>1, ListsSame
    <3> QED
      BY <1>1, <3>1
  <2>2. ASSUME NEW t \in Threads, AppendEntry(t)
        PROVE  \A l \in Ids : \A k \in DOMAIN lists'[l] : Good(lists'[l][k], Mediated', now')
    <3>1. pc[t] \in Carry
      BY <2>2 DEF AppendEntry, Carry
    <3> QED
      BY <1>1, <2>2, <3>1, FiledSlots
  <2>3. ASSUME NEW t \in Threads, Pop(t)
        PROVE  \A l \in Ids : \A k \in DOMAIN lists'[l] : Good(lists'[l][k], Mediated', now')
    BY <1>1, <2>3, TakenSlots
  <2> QED
    BY <2>1, <2>2, <2>3
<1>3. \A u \in Threads : pc'[u] \in Carry => Good(held'[u], Mediated', now')
  <2>1. CASE \A t \in Threads : ~Issue(t) /\ ~Pop(t)
    BY <1>1, <2>1, CarrySame
  <2>2. ASSUME NEW t \in Threads, Issue(t)
        PROVE  \A u \in Threads : pc'[u] \in Carry => Good(held'[u], Mediated', now')
    BY <1>1, <2>2, MintedIsGood
  <2>3. ASSUME NEW t \in Threads, Pop(t)
        PROVE  \A u \in Threads : pc'[u] \in Carry => Good(held'[u], Mediated', now')
    <3>1. \A u \in Threads \ {t} : pc'[u] = pc[u] /\ held'[u] = held[u]
      BY <2>3, TakenSlots DEF Pop, Goto, TypeInv, TypeOK
    <3>2. Good(held'[t], Mediated', now')
      BY <1>1, <2>3, TakenSlots
    <3> QED
      BY <1>1, <3>1, <3>2
  <2> QED
    BY <2>1, <2>2, <2>3
<1> QED
  BY <1>2, <1>3 DEF WindowInv

\* The permit of an execution that is about to record its effect is refused
\* there, in a mediated mode, only when the lease is over.
LEMMA RefusedMeansOver ==
  ASSUME TypeInv, PlaceInv, ExactInv, WindowInv, Mediated, NEW t \in Threads,
         pc[t] = "apply", ~PermitAccepts(t)
  PROVE  now >= LeaseEnd
<1>1. held[t].call = cur[t] /\ Good(held[t], Mediated, now)
  BY DEF ExactInv, AtWork, WindowInv, Carry
<1>2. \A e \in effects : e.id # held[t].id
  BY DEF PlaceInv, SortsDiffer
<1>3. held[t].from <= now /\ held[t].until = LeaseEnd
  BY <1>1 DEF Good
<1>4. ~(now < LeaseEnd)
  BY <1>1, <1>2, <1>3 DEF PermitAccepts, Digest
<1>5. now \in Nat /\ LeaseEnd \in Nat
  BY BoundsAssumption DEF TypeInv, TypeOK, Time, LeaseEnd
<1> QED
  BY <1>4, <1>5

\* A step that is neither a hand's work nor one of its failures leaves every
\* hand at work as it is.
LEMMA WorkStays ==
  ASSUME TypeInv, [Next]_vars,
         \A t \in Threads : ~(WorkStep(t) \/ RemoteFails(t) \/ ConsumeFails(t) \/ ApplyFails(t))
  PROVE  /\ Quiet
         /\ \A u \in Threads : pc[u] \in AtWork => SameHands(u)
<1> DEFINE Stay == \A u \in Threads : pc[u] \in AtWork => SameHands(u)
<1>1. Quiet
  BY QuietStep
<1>2. ASSUME NEW t \in Threads, pc[t] \notin AtWork, \A u \in Threads \ {t} : SameHands(u)
      PROVE  Stay
  BY <1>2
<1>3. ASSUME NEW t \in Threads, Return(t), pc[t] \notin AtWork PROVE Stay
  <2>1. \A u \in Threads \ {t} : SameHands(u)
    BY <1>3 DEF Return, Goto, SameHands, TypeInv, TypeOK
  <2> QED
    BY <1>2, <1>3, <2>1
<1>4. ASSUME NEW t \in Threads, Authorize(t) PROVE Stay
  <2>1. CASE \E c \in Calls, ok \in BOOLEAN : CheckDenies(t, c, ok) \/ CheckRaises(t, c, ok)
    BY <2>1 DEF CheckDenies, CheckRaises, threadVars, SameHands
  <2>2. CASE \E c \in Calls, ok \in BOOLEAN : CheckAllows(t, c, ok)
    <3>1. pc[t] \notin AtWork /\ \A u \in Threads \ {t} : SameHands(u)
      BY <2>2 DEF CheckAllows, Ask, Goto, SameHands, AtWork, TypeInv, TypeOK
    <3> QED
      BY <1>2, <3>1
  <2>3. CASE Issue(t)
    <3>1. pc[t] \notin AtWork /\ \A u \in Threads \ {t} : SameHands(u)
      BY <2>3 DEF Issue, Goto, SameHands, AtWork, TypeInv, TypeOK
    <3> QED
      BY <1>2, <3>1
  <2>4. CASE IssueFails(t) \/ AppendEntry(t)
    BY <1>3, <2>4 DEF IssueFails, AppendEntry, AtWork
  <2> QED
    BY <1>4, <2>1, <2>2, <2>3, <2>4 DEF Authorize
<1>5. ASSUME NEW t \in Threads, Execute(t) PROVE Stay
  <2>1. CASE \E c \in Calls : Fetch(t, c)
    <3>1. pc[t] \notin AtWork /\ \A u \in Threads \ {t} : SameHands(u)
      BY <2>1 DEF Fetch, Goto, SameHands, AtWork, TypeInv, TypeOK
    <3> QED
      BY <1>2, <3>1
  <2>2. CASE Pop(t)
    <3>1. pc[t] \notin AtWork /\ \A u \in Threads \ {t} : SameHands(u)
      BY <2>2 DEF Pop, Goto, SameHands, AtWork, TypeInv, TypeOK
    <3> QED
      BY <1>2, <3>1
  <2>3. CASE Test(t) \/ Unlink(t)
    <3>1. pc[t] \notin AtWork /\ \A u \in Threads \ {t} : SameHands(u)
      BY <2>3 DEF Test, Unlink, Goto, SameHands, AtWork, TypeInv, TypeOK
    <3> QED
      BY <1>2, <3>1
  <2>4. CASE PopFails(t) \/ \E ok \in BOOLEAN : VerifyFails(t, ok)
    BY <1>3, <2>4 DEF PopFails, VerifyFails, AtWork
  <2> QED
    BY <1>5, <2>1, <2>2, <2>3, <2>4 DEF Execute, WorkStep
<1>6. CASE Tick \/ Revoke \/ UNCHANGED vars
  <2>1. pc' = pc /\ cur' = cur /\ held' = held /\ stale' = stale
    BY <1>6 DEF Tick, Revoke, vars, threadVars
  <2>2. \A u \in Threads : SameHands(u)
    BY <2>1 DEF SameHands
  <2> QED
    BY <1>1, <2>2
<1> QED
  BY <1>1, <1>4, <1>5, <1>6 DEF Next

\* A failure empties the hand of the thread that fails and nothing else.
LEMMA FailureWork ==
  ASSUME TypeInv, NEW t \in Threads, RemoteFails(t) \/ ConsumeFails(t) \/ ApplyFails(t)
  PROVE  /\ mode' = mode /\ now' = now /\ spent' = spent /\ remote' = remote /\ effects' = effects
         /\ pc'[t] = "idle"
         /\ \A u \in Threads \ {t} : SameHands(u)
BY DEF RemoteFails, ConsumeFails, ApplyFails, Return, Goto, SameHands, TypeInv, TypeOK,
   gateVars, outVars

(***************************************************************************)
(* Authority is spent for an effect.                                       *)
(***************************************************************************)
PaidInv ==
  /\ ~Mediated => spent = {} /\ \A t \in Threads : pc[t] # "consume"
  /\ SpentForAnEffect

LEMMA PaidInit == Init => PaidInv
BY DEF Init, PaidInv, SpentForAnEffect

LEMMA PaidStep ==
  TypeInv /\ PlaceInv /\ ExactInv /\ WindowInv /\ PaidInv /\ [Next]_vars => PaidInv'
<1> SUFFICES ASSUME TypeInv, PlaceInv, ExactInv, WindowInv, PaidInv, [Next]_vars PROVE PaidInv'
  OBVIOUS
<1>0. /\ mode' = mode /\ Mediated' = Mediated
      /\ now >= LeaseEnd => now' >= LeaseEnd'
  <2>1. now \in Nat /\ now' \in Nat /\ now <= now' /\ LeaseEnd \in Nat /\ LeaseEnd' = LeaseEnd
    BY TimeMoves, BoundsAssumption DEF LeaseEnd
  <2> QED
    BY <2>1, TimeMoves
\* Hands at the effect stay there, or have recorded it, or the lease is over.
<1>1. ASSUME spent' = spent, effects \subseteq effects',
             \A t \in Threads : pc'[t] = "consume" => pc[t] = "consume" \/ Mediated,
             \A t \in Threads : pc[t] = "apply" =>
               \/ pc'[t] = "apply" /\ cur'[t] = cur[t]
               \/ \E e \in effects' : e.call = cur[t]
               \/ Mediated => now >= LeaseEnd
      PROVE  PaidInv'
  <2>1. ~Mediated' => spent' = {} /\ \A t \in Threads : pc'[t] # "consume"
    BY <1>0, <1>1 DEF PaidInv
  <2>2. ASSUME NEW a \in spent'
        PROVE  \/ \E e \in effects' : a \in Needs[e.call]
               \/ \E t \in Threads : pc'[t] = "apply" /\ a \in Needs[cur'[t]]
               \/ now' >= LeaseEnd'
    <3>1. Mediated /\ a \in spent
      BY <1>1, <2>2 DEF PaidInv
    <3>2. CASE \E e \in effects : a \in Needs[e.call]
      BY <1>1, <3>2
    <3>3. CASE \E t \in Threads : pc[t] = "apply" /\ a \in Needs[cur[t]]
      BY <1>0, <1>1, <3>1, <3>3
    <3>4. CASE now >= LeaseEnd
      BY <1>0, <3>4
    <3> QED
      BY <3>1, <3>2, <3>3, <3>4 DEF PaidInv, SpentForAnEffect
  <2> QED
    BY <2>1, <2>2 DEF PaidInv, SpentForAnEffect
<1>2. CASE \A t \in Threads : ~(WorkStep(t) \/ RemoteFails(t) \/ ConsumeFails(t) \/ ApplyFails(t))
  <2>1. spent' = spent /\ effects' = effects
    BY <1>2, WorkStays DEF Quiet
  <2>2. \A t \in Threads : pc'[t] = "consume" => pc[t] = "consume"
    BY <1>2, WorkStays DEF Quiet, AtWork, SameHands
  <2>3. \A t \in Threads : pc[t] = "apply" => pc'[t] = "apply" /\ cur'[t] = cur[t]
    BY <1>2, WorkStays DEF AtWork, SameHands
  <2> QED
    BY <1>1, <2>1, <2>2, <2>3
<1>3. ASSUME NEW t \in Threads, RemoteFails(t) \/ ConsumeFails(t) \/ ApplyFails(t) PROVE PaidInv'
  <2>1. pc[t] = "apply" => (Mediated => now >= LeaseEnd)
    BY <1>3, RefusedMeansOver DEF RemoteFails, ConsumeFails, ApplyFails
  <2> QED
    BY <1>1, <1>3, <2>1, FailureWork DEF SameHands
<1>4. ASSUME NEW t \in Threads, NEW ok \in BOOLEAN, Verify(t, ok) PROVE PaidInv'
  <2>1. pc'[t] = "consume" => Mediated
    BY <1>4 DEF Verify, Goto, AfterRemote, TypeInv, TypeOK
  <2>2. pc[t] = "verify"
    BY <1>4 DEF Verify
  <2> QED
    BY <1>1, <1>4, <2>1, <2>2, VerifyWork
<1>5. ASSUME NEW t \in Threads, RemoteExecute(t) PROVE PaidInv'
  <2>1. pc'[t] = "consume" => Mediated
    BY <1>5 DEF RemoteExecute, Goto, AfterRemote, TypeInv, TypeOK
  <2> QED
    BY <1>1, <1>5, <2>1, RemoteWork
<1>6. ASSUME NEW t \in Threads, Apply(t) PROVE PaidInv'
  <2>1. \A u \in Threads \ {t} : SameHands(u)
    BY <1>6 DEF Apply, Return, Goto, SameHands, TypeInv, TypeOK
  <2>2. EventOf(t).call = cur[t]
    BY DEF EventOf
  <2> QED
    BY <1>1, <1>6, <2>1, <2>2, ApplyWork DEF SameHands
<1>7. ASSUME NEW t \in Threads, Consume(t) PROVE PaidInv'
  <2>1. /\ effects' = effects /\ cur' = cur /\ spent' = spent \cup Needs[cur[t]]
        /\ pc[t] = "consume" /\ pc'[t] = "apply"
        /\ \A u \in Threads \ {t} : pc'[u] = pc[u]
    BY <1>7, ConsumeWork
  <2>2. Mediated
    BY <2>1 DEF PaidInv
  <2>3. ASSUME NEW a \in spent'
        PROVE  \/ \E e \in effects' : a \in Needs[e.call]
               \/ \E u \in Threads : pc'[u] = "apply" /\ a \in Needs[cur'[u]]
               \/ now' >= LeaseEnd'
    <3>1. CASE a \in Needs[cur[t]]
      BY <2>1, <3>1
    <3>2. CASE a \in spent
      <4>1. \A u \in Threads : pc[u] = "apply" => u # t
        BY <2>1
      <4> QED
        BY <1>0, <2>1, <3>2, <4>1 DEF PaidInv, SpentForAnEffect
    <3> QED
      BY <2>1, <2>3, <3>1, <3>2
  <2> QED
    BY <1>0, <2>2, <2>3 DEF PaidInv, SpentForAnEffect
<1> QED
  BY <1>2, <1>3, <1>4, <1>5, <1>6, <1>7 DEF WorkStep

\* No authority is burned: whatever was spent has its effect, is about to have
\* it, or the lease ended between the spending and the effect; no other check
\* can refuse the effect once its authority is gone.
THEOREM NothingIsBurned == Spec => []SpentForAnEffect
<1>1. PaidInv => SpentForAnEffect
  BY DEF PaidInv
<1> QED
  BY <1>1, ExactInit, ExactStep, WindowInit, WindowStep, PaidInit, PaidStep, PlacesHold,
     AlwaysTyped, PTL DEF Spec

(***************************************************************************)
(* The provider and the recorder agree.                                    *)
(***************************************************************************)
\* r is what Arcade confirmed of the execution thread t is about to complete.
Confirmed(r, t) ==
  /\ r.id = held[t].id /\ r.decided = held[t].call
  /\ r.call = cur[t] /\ r.stale = stale[t]
  /\ r.lapsed => now >= held[t].until

\* Past the request, or with no request to make.
Completing(t) == pc[t] \in {"consume", "apply"} /\ ExecutesRemotely(cur[t])

ProviderInv ==
  /\ \A t \in Threads : pc[t] = "remote" => ExecutesRemotely(cur[t])
  /\ \A t \in Threads : Completing(t) => \E r \in remote : Confirmed(r, t)
  /\ \A e \in effects : ExecutesRemotely(e.call) => e \in remote
  /\ Mediated => \A r \in remote :
       \/ r \in effects
       \/ \E t \in Threads : Completing(t) /\ Confirmed(r, t)
       \/ now >= LeaseEnd

LEMMA ProviderInit == Init => ProviderInv
BY DEF Init, ProviderInv, Completing

\* What was confirmed stays confirmed as the clock moves on.
LEMMA ConfirmedForLong ==
  ASSUME TypeInv, [Next]_vars, NEW t \in Threads, NEW r, Confirmed(r, t),
         pc[t] \in AtWork, cur'[t] = cur[t], held'[t] = held[t], stale'[t] = stale[t]
  PROVE  Confirmed(r, t)'
<1>1. held[t].until \in Nat
  BY DEF TypeInv, HeldTypes, AtWork, Labels, Entry
<1>2. r.lapsed => now' >= held[t].until
  BY <1>1, TimeMoves DEF Confirmed
<1> QED
  BY <1>2 DEF Confirmed

\* The effect recorded of a confirmed execution is what Arcade confirmed.
LEMMA EffectIsConfirmed ==
  ASSUME TypeInv, NEW t \in Threads, pc[t] = "apply", PermitAccepts(t),
         NEW r \in remote, Confirmed(r, t)
  PROVE  r = EventOf(t)
<1>1. held[t] \in Entry /\ now \in Nat
  BY DEF TypeInv, TypeOK, HeldTypes, Labels, Time
<1>2. held[t].from <= now /\ now < held[t].until
  BY DEF PermitAccepts
<1>3. ~(now < held[t].from \/ now >= held[t].until)
  BY <1>1, <1>2 DEF Entry
<1>4. r \in Event
  BY DEF TypeInv, TypeOK
<1>5. r.lapsed = FALSE
  BY <1>3, <1>4 DEF Confirmed, Event
<1>6. r = [id |-> r.id, decided |-> r.decided, call |-> r.call, stale |-> r.stale, lapsed |-> r.lapsed]
  BY <1>4 DEF Event
<1>7. EventOf(t) = [id |-> held[t].id, decided |-> held[t].call, call |-> cur[t],
                    stale |-> stale[t], lapsed |-> FALSE]
  BY <1>3 DEF EventOf
<1>8. r.id = held[t].id /\ r.decided = held[t].call /\ r.call = cur[t] /\ r.stale = stale[t]
  BY DEF Confirmed
<1> QED
  BY <1>5, <1>6, <1>7, <1>8

\* Arcade's confirmation, seen from the thread that waited for it.
LEMMA NowConfirmed ==
  ASSUME TypeInv, WindowInv, NEW t \in Threads, RemoteExecute(t), NEW r, r = EventOf(t)
  PROVE  r \in remote' /\ Confirmed(r, t)'
<1> DEFINE gone == now < held[t].from \/ now >= held[t].until
<1>1. held[t] \in Entry /\ now \in Nat /\ pc[t] = "remote"
  BY DEF RemoteExecute, TypeInv, TypeOK, HeldTypes, Labels, Time
<1>2. held[t].from <= now
  BY <1>1 DEF WindowInv, Carry, Good
<1>3. gone \in BOOLEAN /\ (gone => now >= held[t].until)
  BY <1>1, <1>2 DEF Entry
<1>4. now' = now /\ cur' = cur /\ held' = held /\ stale' = stale /\ remote' = remote \cup {r}
  BY DEF RemoteExecute, gateVars
<1>5. r = [id |-> held[t].id, decided |-> held[t].call, call |-> cur[t],
           stale |-> stale[t], lapsed |-> gone]
  BY DEF EventOf
<1> HIDE DEF gone
<1>6. r.lapsed => now >= held[t].until
  BY <1>3, <1>5
<1>7. r.id = held[t].id /\ r.decided = held[t].call /\ r.call = cur[t] /\ r.stale = stale[t]
  BY <1>5
<1> QED
  BY <1>4, <1>6, <1>7 DEF Confirmed

LEMMA ProviderStep ==
  TypeInv /\ PlaceInv /\ ExactInv /\ WindowInv /\ ProviderInv /\ [Next]_vars => ProviderInv'
<1> SUFFICES ASSUME TypeInv, PlaceInv, ExactInv, WindowInv, ProviderInv, [Next]_vars
             PROVE  ProviderInv'
  OBVIOUS
<1>0. /\ Mediated' = Mediated
      /\ \A c : ExecutesRemotely(c)' <=> ExecutesRemotely(c)
      /\ now >= LeaseEnd => now' >= LeaseEnd'
  <2>1. now \in Nat /\ now' \in Nat /\ now <= now' /\ LeaseEnd \in Nat /\ LeaseEnd' = LeaseEnd
    BY TimeMoves, BoundsAssumption DEF LeaseEnd
  <2> QED
    BY <2>1, TimeMoves DEF ExecutesRemotely
\* A thread at work that keeps its call and its permit keeps its confirmation.
<1>1. ASSUME NEW u \in Threads, pc[u] \in AtWork,
             cur'[u] = cur[u], held'[u] = held[u], stale'[u] = stale[u]
      PROVE  /\ ExecutesRemotely(cur[u])' <=> ExecutesRemotely(cur[u])
             /\ \A r : Confirmed(r, u) => Confirmed(r, u)'
  <2>1. ExecutesRemotely(cur[u])' <=> ExecutesRemotely(cur[u])
    BY <1>1, TimeMoves DEF ExecutesRemotely
  <2> QED
    BY <1>1, <2>1, ConfirmedForLong
\* Steps that add nothing to the record of Arcade or of the recorder.
<1>2. ASSUME remote' = remote, effects' = effects,
             \A u \in Threads : pc'[u] \in AtWork =>
               /\ pc[u] \in AtWork
               /\ cur'[u] = cur[u] /\ held'[u] = held[u] /\ stale'[u] = stale[u]
               /\ pc'[u] = "remote" => pc[u] = "remote"
               /\ pc'[u] # "remote" => pc[u] # "remote",
             \A u \in Threads : Completing(u) =>
               \/ pc'[u] \in {"consume", "apply"}
               \/ Mediated => now >= LeaseEnd
      PROVE  ProviderInv'
  <2>1. \A u \in Threads : pc'[u] = "remote" => ExecutesRemotely(cur[u])'
    BY <1>1, <1>2 DEF ProviderInv, AtWork
  <2>2. \A u \in Threads : Completing(u)' => \E r \in remote' : Confirmed(r, u)'
    BY <1>1, <1>2 DEF ProviderInv, AtWork, Completing
  <2>3. \A e \in effects' : ExecutesRemotely(e.call)' => e \in remote'
    BY <1>0, <1>2 DEF ProviderInv
  <2>4. ASSUME Mediated', NEW r \in remote'
        PROVE  \/ r \in effects'
               \/ \E u \in Threads : Completing(u)' /\ Confirmed(r, u)'
               \/ now' >= LeaseEnd'
    <3>1. CASE r \in effects \/ now >= LeaseEnd
      BY <1>0, <1>2, <3>1
    <3>2. ASSUME NEW u \in Threads, Completing(u), Confirmed(r, u)
          PROVE  (Completing(u)' /\ Confirmed(r, u)') \/ now >= LeaseEnd
      BY <1>0, <1>1, <1>2, <2>4, <3>2 DEF Completing, AtWork
    <3> QED
      BY <1>0, <1>2, <2>4, <3>1, <3>2 DEF ProviderInv
  <2> QED
    BY <2>1, <2>2, <2>3, <2>4 DEF ProviderInv
<1>3. CASE \A t \in Threads : ~(WorkStep(t) \/ RemoteFails(t) \/ ConsumeFails(t) \/ ApplyFails(t))
  <2>1. remote' = remote /\ effects' = effects
    BY <1>3, WorkStays DEF Quiet
  <2>2. \A u \in Threads : pc'[u] \in AtWork => SameHands(u)
    BY <1>3, WorkStays DEF Quiet
  <2>3. \A u \in Threads : Completing(u) => pc'[u] \in {"consume", "apply"}
    BY <1>3, WorkStays DEF Completing, AtWork, SameHands
  <2> QED
    BY <1>2, <2>1, <2>2, <2>3 DEF SameHands
<1>4. ASSUME NEW t \in Threads, RemoteFails(t) \/ ConsumeFails(t) \/ ApplyFails(t)
      PROVE  ProviderInv'
  <2>1. Completing(t) => (Mediated => now >= LeaseEnd)
    <3>1. CASE ApplyFails(t)
      BY <3>1, RefusedMeansOver DEF ApplyFails
    <3>2. CASE RemoteFails(t)
      BY <3>2 DEF RemoteFails, Completing
    <3>3. CASE ConsumeFails(t)
      <4>1. cur[t] \in Calls /\ Needs[cur[t]] # {}
        BY <3>3 DEF ConsumeFails, Unspent, TypeInv, HeldTypes
      <4>2. Kind[cur[t]] = "stateful"
        BY <4>1, NeedsAssumption
      <4> QED
        BY <4>2 DEF Completing, ExecutesRemotely, Mediated, MediatedModes
    <3> QED
      BY <1>4, <3>1, <3>2, <3>3
  <2>2. /\ remote' = remote /\ effects' = effects /\ pc'[t] = "idle"
        /\ \A u \in Threads \ {t} : SameHands(u)
    BY <1>4, FailureWork
  <2>3. \A u \in Threads : Completing(u) => u = t \/ pc'[u] \in {"consume", "apply"}
    BY <2>2 DEF Completing, SameHands
  <2>4. \A u \in Threads : pc'[u] \in AtWork => u # t /\ SameHands(u)
    BY <2>2 DEF AtWork
  <2> QED
    BY <1>2, <2>1, <2>2, <2>3, <2>4 DEF SameHands
<1>5. ASSUME NEW t \in Threads, Consume(t) PROVE ProviderInv'
  BY <1>2, <1>5, ConsumeWork DEF AtWork, Completing
<1>6. ASSUME NEW t \in Threads, NEW ok \in BOOLEAN, Verify(t, ok) PROVE ProviderInv'
  <2>1. /\ remote' = remote /\ effects' = effects /\ UNCHANGED <<cur, held, stale>>
        /\ pc[t] = "verify" /\ \A u \in Threads \ {t} : pc'[u] = pc[u]
    BY <1>6, VerifyWork DEF Verify
  <2>2. /\ pc'[t] = "remote" => ExecutesRemotely(cur[t])
        /\ pc'[t] \in {"consume", "apply"} => ~ExecutesRemotely(cur[t])
    BY <1>6 DEF Verify, Goto, AfterRemote, TypeInv, TypeOK
  <2>3. ExecutesRemotely(cur[t])' <=> ExecutesRemotely(cur[t])
    BY <2>1, TimeMoves DEF ExecutesRemotely
  <2>4. \A u \in Threads : pc'[u] = "remote" => ExecutesRemotely(cur[u])'
    BY <1>1, <2>1, <2>2, <2>3 DEF ProviderInv, AtWork
  <2>5. \A u \in Threads \ {t} : pc[u] \in AtWork =>
          (Completing(u)' <=> Completing(u)) /\ \A r : Confirmed(r, u) => Confirmed(r, u)'
    BY <1>1, <2>1 DEF Completing
  <2>6. ~Completing(t)' /\ ~Completing(t)
    BY <2>1, <2>2, <2>3 DEF Completing
  <2>7. \A u \in Threads : Completing(u)' => \E r \in remote' : Confirmed(r, u)'
    <3> SUFFICES ASSUME NEW u \in Threads, Completing(u)'
                 PROVE  \E r \in remote' : Confirmed(r, u)'
      OBVIOUS
    <3>1. u # t /\ pc[u] \in AtWork
      BY <2>1, <2>6 DEF Completing, AtWork
    <3> QED
      BY <2>1, <2>5, <3>1 DEF ProviderInv
  <2>8. \A u \in Threads : Completing(u) => u # t /\ pc[u] \in AtWork
    BY <2>6 DEF Completing, AtWork
  <2>9. Mediated' => \A r \in remote' :
           \/ r \in effects'
           \/ \E u \in Threads : Completing(u)' /\ Confirmed(r, u)'
           \/ now' >= LeaseEnd'
    BY <1>0, <2>1, <2>5, <2>8 DEF ProviderInv
  <2> QED
    BY <1>0, <2>1, <2>4, <2>7, <2>9 DEF ProviderInv
<1>7. ASSUME NEW t \in Threads, RemoteExecute(t) PROVE ProviderInv'
  <2>1. /\ effects' = effects /\ remote' = remote \cup {EventOf(t)}
        /\ UNCHANGED <<cur, held, stale>>
        /\ pc[t] = "remote" /\ pc'[t] \in {"consume", "apply"}
        /\ \A u \in Threads \ {t} : pc'[u] = pc[u]
    BY <1>7, RemoteWork DEF RemoteExecute, Goto, AfterRemote, TypeInv, TypeOK
  <2>2. ExecutesRemotely(cur[t])' /\ Completing(t)'
    BY <1>1, <2>1 DEF ProviderInv, AtWork, Completing
  <2>3. \A u \in Threads \ {t} : pc[u] \in AtWork =>
          (Completing(u)' <=> Completing(u)) /\ \A r : Confirmed(r, u) => Confirmed(r, u)'
    BY <1>1, <2>1 DEF Completing
  <2>4. \A r : r = EventOf(t) => r \in remote' /\ Confirmed(r, t)'
    BY <1>7, NowConfirmed
  <2>5. \A u \in Threads : pc'[u] = "remote" => ExecutesRemotely(cur[u])'
    BY <1>1, <2>1, <2>2 DEF ProviderInv, AtWork
  <2>6. \A u \in Threads : Completing(u)' => u = t \/ pc[u] \in AtWork
    BY <2>1 DEF Completing, AtWork
  <2>7. \A u \in Threads : Completing(u)' => \E r \in remote' : Confirmed(r, u)'
    BY <2>1, <2>3, <2>4, <2>6 DEF ProviderInv
  <2>8. \A u \in Threads : Completing(u) => u # t /\ pc[u] \in AtWork
    BY <2>1 DEF Completing, AtWork
  <2>9. Mediated' => \A r \in remote' :
           \/ r \in effects'
           \/ \E u \in Threads : Completing(u)' /\ Confirmed(r, u)'
           \/ now' >= LeaseEnd'
    BY <1>0, <2>1, <2>2, <2>3, <2>4, <2>8 DEF ProviderInv
  <2> QED
    BY <1>0, <2>1, <2>5, <2>7, <2>9 DEF ProviderInv
<1>8. ASSUME NEW t \in Threads, Apply(t) PROVE ProviderInv'
  <2>1. /\ remote' = remote /\ effects' = effects \cup {EventOf(t)}
        /\ pc[t] = "apply" /\ pc'[t] = "idle" /\ PermitAccepts(t)
        /\ \A u \in Threads \ {t} : SameHands(u)
    BY <1>8, ApplyWork DEF Apply, Return, Goto, SameHands, TypeInv, TypeOK
  <2>2. \A r \in remote : Confirmed(r, t) => r = EventOf(t)
    BY <2>1, EffectIsConfirmed
  <2>3. EventOf(t).call = cur[t]
    BY DEF EventOf
  <2>4. ExecutesRemotely(cur[t]) => EventOf(t) \in remote
    BY <2>1, <2>2 DEF ProviderInv, Completing
  <2>5. \A e \in effects' : ExecutesRemotely(e.call)' => e \in remote'
    BY <1>0, <2>1, <2>3, <2>4 DEF ProviderInv
  <2>6. \A u \in Threads \ {t} : pc[u] \in AtWork =>
          (Completing(u)' <=> Completing(u)) /\ \A r : Confirmed(r, u) => Confirmed(r, u)'
    BY <1>1, <2>1 DEF Completing, SameHands
  <2>7. \A u \in Threads : Completing(u)' => u # t /\ pc[u] \in AtWork
    BY <2>1 DEF Completing, AtWork, SameHands
  <2>8. \A u \in Threads : Completing(u)' => \E r \in remote' : Confirmed(r, u)'
    BY <2>1, <2>6, <2>7 DEF ProviderInv
  <2>9. \A u \in Threads : pc'[u] = "remote" => ExecutesRemotely(cur[u])'
    BY <1>1, <2>1 DEF ProviderInv, AtWork, SameHands
  <2>10. \A u \in Threads : Completing(u) => pc[u] \in AtWork
    BY DEF Completing, AtWork
  <2>11. Mediated' => \A r \in remote' :
           \/ r \in effects'
           \/ \E u \in Threads : Completing(u)' /\ Confirmed(r, u)'
           \/ now' >= LeaseEnd'
    BY <1>0, <2>1, <2>2, <2>6, <2>10 DEF ProviderInv
  <2> QED
    BY <2>5, <2>8, <2>9, <2>11 DEF ProviderInv
<1> QED
  BY <1>3, <1>4, <1>5, <1>6, <1>7, <1>8 DEF WorkStep

\* An effect of a tool Arcade executes was executed there with the same allow,
\* the same call and the same marks; and in a mediated mode what Arcade
\* confirmed becomes an effect unless the lease ends in between.
THEOREM ProviderAgrees == Spec => []ProviderAndRecorderAgree
<1>1. ProviderInv => ProviderAndRecorderAgree
  BY DEF ProviderInv, ProviderAndRecorderAgree, Completing, Confirmed
<1> QED
  BY <1>1, ExactInit, ExactStep, WindowInit, WindowStep, ProviderInit, ProviderStep, PlacesHold,
     AlwaysTyped, PTL DEF Spec

-----------------------------------------------------------------------------
(***************************************************************************)
(* The decision record: an allow that was acted on is not overruled.       *)
(***************************************************************************)
\* The record's decision with this index allows this call.
Allows(record, i, c) == i \in DOMAIN record /\ record[i] = [call |-> c, allowed |-> TRUE]

\* Every live permit and every effect is of an allow that is still on record.
RecordHolds ==
  /\ \A l \in Ids : \A k \in DOMAIN lists[l] : Allows(decisions, lists[l][k].id, lists[l][k].call)
  /\ \A t \in Threads : held[t] # NoEntry => Allows(decisions, held[t].id, held[t].call)
  /\ \A e \in effects : Allows(decisions, e.id, e.call)

\* The lease has begun when a permit is about to be minted under it; without a
\* lifetime none is.
MintInv ==
  /\ Mediated => \A t \in Threads : pc[t] = "issue" => IssuedAt <= now
  /\ TTL = 0 => /\ effects = {}
                /\ \A l \in Ids : lists[l] = <<>>
                /\ \A t \in Threads : pc[t] \notin Carry

\* The decision a single thread is minting a permit for is the last one.
LastInv == OneThread => \A t \in Threads : pc[t] = "issue" => held[t].id = Len(decisions)

\* Either nobody else can have decided in between, or minting cannot fail.
Recorded == OneThread \/ (TTL > 0 /\ (Mediated => now < LeaseEnd))

RecordInv == Recorded => RecordHolds

LEMMA RecordInit == Init => MintInv /\ LastInv /\ RecordInv
BY DEF Init, MintInv, LastInv, RecordInv, RecordHolds, Carry

\* A thread is about to mint a permit only after its check allowed the call.
LEMMA OnlyChecksReachIssue ==
  ASSUME TypeInv, [Next]_vars, NEW u \in Threads, pc[u] # "issue", pc'[u] = "issue"
  PROVE  \E c \in Calls, ok \in BOOLEAN : CheckAllows(u, c, ok)
<1>1. ASSUME NEW t \in Threads, Return(t) PROVE FALSE
  BY <1>1, ReturnQuiet DEF SameHands
<1>2. ASSUME NEW t \in Threads, Authorize(t) PROVE \E c \in Calls, ok \in BOOLEAN : CheckAllows(u, c, ok)
  <2>1. CASE \E c \in Calls, ok \in BOOLEAN : CheckDenies(t, c, ok) \/ CheckRaises(t, c, ok)
    BY <2>1 DEF CheckDenies, CheckRaises, threadVars
  <2>2. CASE \E c \in Calls, ok \in BOOLEAN : CheckAllows(t, c, ok)
    <3>1. \A v \in Threads \ {t} : pc'[v] = pc[v]
      BY <2>2 DEF CheckAllows, Goto, TypeInv, TypeOK
    <3> QED
      BY <2>2, <3>1
  <2>3. CASE Issue(t)
    <3>1. pc' = [pc EXCEPT ![t] = "append"]
      BY <2>3 DEF Issue, Goto
    <3> QED
      BY <3>1 DEF TypeInv, TypeOK
  <2>4. CASE IssueFails(t) \/ AppendEntry(t)
    BY <1>1, <2>4 DEF IssueFails, AppendEntry
  <2> QED
    BY <1>2, <2>1, <2>2, <2>3, <2>4 DEF Authorize
<1>3. ASSUME NEW t \in Threads, Execute(t) PROVE FALSE
  <2>1. CASE (\E c \in Calls : Fetch(t, c)) \/ Pop(t) \/ Test(t) \/ Unlink(t)
             \/ RemoteExecute(t) \/ Consume(t) \/ \E ok \in BOOLEAN : Verify(t, ok)
    <3>1. PICK label \in Labels \ {"issue"} : pc' = [pc EXCEPT ![t] = label]
      BY <2>1 DEF Fetch, Pop, Test, Unlink, RemoteExecute, Consume, Verify, AfterRemote, Goto, Labels
    <3> QED
      BY <3>1 DEF TypeInv, TypeOK
  <2>2. CASE PopFails(t) \/ RemoteFails(t) \/ ConsumeFails(t) \/ ApplyFails(t) \/ Apply(t)
             \/ \E ok \in BOOLEAN : VerifyFails(t, ok)
    BY <1>1, <2>2 DEF PopFails, RemoteFails, ConsumeFails, ApplyFails, Apply, VerifyFails
  <2> QED
    BY <1>3, <2>1, <2>2 DEF Execute
<1>4. CASE Tick \/ Revoke \/ UNCHANGED vars
  BY <1>4 DEF Tick, Revoke, vars, threadVars
<1> QED
  BY <1>2, <1>3, <1>4 DEF Next

LEMMA MintStep == TypeInv /\ MintInv /\ [Next]_vars => MintInv'
<1> SUFFICES ASSUME TypeInv, MintInv, [Next]_vars PROVE MintInv'
  OBVIOUS
<1>1. now \in Nat /\ now' \in Nat /\ now <= now' /\ Mediated' = Mediated /\ IssuedAt \in Nat
  BY TimeMoves, BoundsAssumption
<1>2. ASSUME Mediated, NEW u \in Threads, pc'[u] = "issue" PROVE IssuedAt <= now'
  <2>1. CASE pc[u] = "issue"
    BY <1>1, <1>2, <2>1 DEF MintInv
  <2>2. CASE pc[u] # "issue"
    <3>1. \E c \in Calls, ok \in BOOLEAN : CheckAllows(u, c, ok)
      BY <1>2, <2>2, OnlyChecksReachIssue
    <3>2. IssuedAt <= now
      BY <1>2, <3>1 DEF CheckAllows, LeaseCurrent
    <3> QED
      BY <1>1, <3>2
  <2> QED
    BY <2>1, <2>2
<1>3. ASSUME TTL = 0
      PROVE  /\ effects' = {}
             /\ \A l \in Ids : lists'[l] = <<>>
             /\ \A t \in Threads : pc'[t] \notin Carry
  <2>1. ASSUME NEW t \in Threads, Issue(t) PROVE FALSE
    <3>1. PermitCanIssue
      BY <2>1 DEF Issue
    <3> QED
      BY <1>1, <1>3, <3>1 DEF PermitCanIssue, LeaseCurrent, LeaseEnd
  <2>2. ASSUME NEW t \in Threads, Pop(t) PROVE FALSE
    BY <1>3, <2>2 DEF Pop, MintInv, TypeInv, HeldTypes
  <2>3. ASSUME NEW t \in Threads, AppendEntry(t) \/ Apply(t) PROVE FALSE
    BY <1>3, <2>3 DEF AppendEntry, Apply, MintInv, Carry
  <2>4. lists' = lists
    BY <2>2, <2>3, ListsSame
  <2>5. \A t \in Threads : pc'[t] \notin Carry
    BY <1>3, <2>1, <2>2, CarrySame DEF MintInv
  <2>6. effects' = effects
    <3>1. CASE \A t \in Threads : ~WorkStep(t)
      BY <3>1, QuietStep DEF Quiet
    <3>2. ASSUME NEW t \in Threads, WorkStep(t) PROVE effects' = effects
      BY <2>3, <3>2, VerifyWork, RemoteWork, ConsumeWork DEF WorkStep
    <3> QED
      BY <3>1, <3>2
  <2> QED
    BY <1>3, <2>4, <2>5, <2>6 DEF MintInv
<1> QED
  BY <1>1, <1>2, <1>3 DEF MintInv

\* A decision put on record leaves those before it as they are.
LEMMA RecordGrows ==
  ASSUME TypeInv, NEW c \in Calls, NEW b \in BOOLEAN, Record(c, b)
  PROVE  /\ Len(decisions') = Len(decisions) + 1
         /\ Len(decisions) + 1 \in DOMAIN decisions'
         /\ decisions'[Len(decisions) + 1] = [call |-> c, allowed |-> b]
         /\ \A i, d : Allows(decisions, i, d) => Allows(decisions', i, d)
<1>1. decisions \in Seq(Decision) /\ [call |-> c, allowed |-> b] \in Decision
  BY DEF TypeInv, TypeOK, Decision
<1>2. decisions' = Append(decisions, [call |-> c, allowed |-> b])
  BY DEF Record
<1>3. /\ Len(decisions) \in Nat /\ DOMAIN decisions = 1 .. Len(decisions)
      /\ Len(decisions') = Len(decisions) + 1
      /\ DOMAIN decisions' = 1 .. Len(decisions) + 1
      /\ \A i \in 1 .. Len(decisions) : decisions'[i] = decisions[i]
      /\ decisions'[Len(decisions) + 1] = [call |-> c, allowed |-> b]
  BY <1>1, <1>2, AppendProperties, LenProperties
<1>4. \A i \in DOMAIN decisions : i \in DOMAIN decisions' /\ decisions'[i] = decisions[i]
  BY <1>3
<1>5. \A i, d : Allows(decisions, i, d) => Allows(decisions', i, d)
  BY <1>4 DEF Allows
<1>6. Len(decisions) + 1 \in DOMAIN decisions'
  BY <1>3
<1> QED
  BY <1>3, <1>5, <1>6

\* A single thread reaches "issue" right after its decision went on record, and
\* leaves it with the next step it takes.
LEMMA LastStep == TypeInv /\ LastInv /\ [Next]_vars => LastInv'
<1> SUFFICES ASSUME TypeInv, LastInv, [Next]_vars, OneThread, NEW u \in Threads, pc'[u] = "issue"
             PROVE  held'[u].id = Len(decisions')
  BY DEF LastInv, OneThread
<1>1. CASE \E c \in Calls, ok \in BOOLEAN : CheckAllows(u, c, ok)
  <2>1. PICK c \in Calls, ok \in BOOLEAN : CheckAllows(u, c, ok)
    BY <1>1
  <2>2. held'[u].id = Len(decisions) + 1
    BY <2>1 DEF CheckAllows, TypeInv, TypeOK
  <2>3. Len(decisions') = Len(decisions) + 1
    BY <2>1, RecordGrows DEF CheckAllows
  <2> QED
    BY <2>2, <2>3
<1>2. CASE ~\E c \in Calls, ok \in BOOLEAN : CheckAllows(u, c, ok)
  <2>1. pc[u] = "issue"
    BY <1>2, OnlyChecksReachIssue
  <2>2. ASSUME Authorize(u) PROVE FALSE
    <3>1. pc'[u] \in {"idle", "append"}
      BY <1>2, <2>1, <2>2 DEF Authorize, CheckDenies, CheckRaises, Ask, Issue, IssueFails, AppendEntry,
         Return, Goto, TypeInv, TypeOK
    <3> QED
      BY <3>1
  <2>3. ~Execute(u)
    BY <2>1 DEF Execute, Fetch, Pop, PopFails, Test, Unlink, Verify, VerifyFails, RemoteExecute, RemoteFails,
       Consume, ConsumeFails, Apply, ApplyFails
  <2>4. Tick \/ Revoke \/ UNCHANGED vars
    BY <2>2, <2>3 DEF Next, OneThread
  <2>5. UNCHANGED <<held, decisions>>
    BY <2>4 DEF Tick, Revoke, vars, threadVars
  <2> QED
    BY <2>1, <2>5 DEF LastInv
<1> QED
  BY <1>1, <1>2

\* Steps that keep every allow and file, hold and record nothing new.
LEMMA RecordKept ==
  ASSUME RecordHolds, UNCHANGED <<lists, effects>>,
         \A i, d : Allows(decisions, i, d) => Allows(decisions', i, d),
         \A u \in Threads :
           \/ held'[u] = NoEntry
           \/ held[u] # NoEntry /\ held'[u].id = held[u].id /\ held'[u].call = held[u].call
           \/ held'[u] = held[u]
  PROVE  RecordHolds'
<1>1. \A l \in Ids : \A k \in DOMAIN lists'[l] : Allows(decisions', lists'[l][k].id, lists'[l][k].call)
  BY DEF RecordHolds
<1>2. \A u \in Threads : held'[u] # NoEntry => Allows(decisions', held'[u].id, held'[u].call)
  <2> SUFFICES ASSUME NEW u \in Threads, held'[u] # NoEntry
               PROVE  Allows(decisions', held'[u].id, held'[u].call)
    OBVIOUS
  <2>1. held[u] # NoEntry /\ held'[u].id = held[u].id /\ held'[u].call = held[u].call
    OBVIOUS
  <2>2. Allows(decisions', held[u].id, held[u].call)
    BY <2>1 DEF RecordHolds
  <2> QED
    BY <2>1, <2>2
<1>3. \A e \in effects' : Allows(decisions', e.id, e.call)
  BY DEF RecordHolds
<1> QED
  BY <1>1, <1>2, <1>3 DEF RecordHolds

LEMMA CheckAllowsRecord ==
  ASSUME TypeInv, RecordHolds,
         NEW t \in Threads, NEW c \in Calls, NEW ok \in BOOLEAN, CheckAllows(t, c, ok)
  PROVE  RecordHolds'
<1> DEFINE e == [id |-> Len(decisions) + 1, call |-> c, from |-> 0, until |-> 0]
<1>1. UNCHANGED <<lists, effects>> /\ held' = [held EXCEPT ![t] = e]
  BY DEF CheckAllows, tableVars, outVars
<1>2. e.id = Len(decisions) + 1 /\ e.call = c
  OBVIOUS
<1>3. /\ Allows(decisions', e.id, e.call)
      /\ \A i, d : Allows(decisions, i, d) => Allows(decisions', i, d)
  BY <1>2, RecordGrows DEF CheckAllows, Allows
<1> HIDE DEF e
<1>4. held'[t] = e /\ \A u \in Threads \ {t} : held'[u] = held[u]
  BY <1>1 DEF TypeInv, TypeOK
<1>5. \A u \in Threads : held'[u] # NoEntry => Allows(decisions', held'[u].id, held'[u].call)
  BY <1>3, <1>4 DEF RecordHolds
<1> QED
  BY <1>1, <1>3, <1>5 DEF RecordHolds

\* While minting cannot fail no decision is overruled.
LEMMA MintingSucceeds ==
  ASSUME TypeInv, MintInv, NEW t \in Threads, IssueFails(t), TTL > 0, Mediated => now < LeaseEnd
  PROVE  FALSE
BY DEF IssueFails, PermitCanIssue, LeaseCurrent, MintInv

\* A single thread that overrules the last decision touches the permit it was
\* minting and no other.
LEMMA IssueFailsRecord ==
  ASSUME TypeInv, PlaceInv, OneThread, LastInv, RecordHolds, NEW t \in Threads, IssueFails(t)
  PROVE  RecordHolds'
<1>1. /\ UNCHANGED <<lists, effects>>
      /\ \A u \in Threads : held'[u] = NoEntry
  BY DEF IssueFails, Return, Goto, OneThread, TypeInv, TypeOK, tableVars, outVars
<1>2. held[t].id = Len(decisions)
  BY DEF LastInv, IssueFails
<1>3. \A i, d : Allows(decisions, i, d) /\ i # Len(decisions) => Allows(decisions', i, d)
  <2>1. /\ DOMAIN decisions' = DOMAIN decisions
        /\ \A i \in DOMAIN decisions : i # Len(decisions) => decisions'[i] = decisions[i]
    BY DEF IssueFails, Overrule, TypeInv, TypeOK
  <2> QED
    BY <2>1 DEF Allows
<1>4. \A l \in Ids : \A k \in DOMAIN lists[l] : lists[l][k].id # Len(decisions)
  BY <1>2 DEF PlaceInv, SortsDiffer
<1>5. \A e \in effects : e.id # Len(decisions)
  BY <1>2 DEF PlaceInv, SortsDiffer
<1> QED
  BY <1>1, <1>3, <1>4, <1>5 DEF RecordHolds

LEMMA AuthorizeRecord ==
  ASSUME TypeInv, PlaceInv, MintInv, LastInv, Recorded, RecordHolds, NEW t \in Threads, Authorize(t)
  PROVE  RecordHolds'
<1>0. ASSUME decisions' = decisions PROVE \A i, d : Allows(decisions, i, d) => Allows(decisions', i, d)
  BY <1>0 DEF Allows
<1>1. CASE \E c \in Calls, ok \in BOOLEAN : CheckDenies(t, c, ok)
  <2>1. PICK c \in Calls : Record(c, FALSE)
    BY <1>1 DEF CheckDenies
  <2>2. UNCHANGED <<lists, effects, held>>
    BY <1>1 DEF CheckDenies, tableVars, outVars, threadVars
  <2> QED
    BY <2>1, <2>2, RecordGrows, RecordKept
<1>2. CASE \E c \in Calls, ok \in BOOLEAN : CheckRaises(t, c, ok)
  <2>1. UNCHANGED <<lists, effects, decisions, held>>
    BY <1>2 DEF CheckRaises, tableVars, outVars, threadVars
  <2> QED
    BY <1>0, <2>1, RecordKept
<1>3. CASE \E c \in Calls, ok \in BOOLEAN : CheckAllows(t, c, ok)
  BY <1>3, CheckAllowsRecord
<1>4. CASE Issue(t)
  <2> DEFINE w == Window(IF Mediated THEN IssuedAt ELSE now)
             e == [held[t] EXCEPT !.from = w.from, !.until = w.until]
  <2>1. /\ held' = [held EXCEPT ![t] = e] /\ pc[t] = "issue"
        /\ UNCHANGED <<lists, effects, decisions>>
    BY <1>4 DEF Issue, outVars
  <2>2. held[t] \in Entry /\ held[t] # NoEntry
    BY <2>1, PlaceTypes DEF TypeInv, HeldTypes, Labels
  <2>3. e.id = held[t].id /\ e.call = held[t].call
    BY <2>2 DEF Entry
  <2> HIDE DEF e
  <2>4. held'[t] = e /\ \A u \in Threads \ {t} : held'[u] = held[u]
    BY <2>1 DEF TypeInv, TypeOK
  <2> QED
    BY <1>0, <2>1, <2>2, <2>3, <2>4, RecordKept
<1>5. CASE IssueFails(t)
  BY <1>5, IssueFailsRecord, MintingSucceeds DEF Recorded
<1>6. CASE AppendEntry(t)
  <2>1. /\ held'[t] = NoEntry /\ \A u \in Threads \ {t} : held'[u] = held[u]
        /\ UNCHANGED <<effects, decisions>> /\ pc[t] = "append"
    BY <1>6 DEF AppendEntry, Return, Goto, TypeInv, TypeOK, outVars
  <2>2. held[t] # NoEntry
    BY <2>1, PlaceTypes DEF TypeInv, HeldTypes, Labels
  <2>3. \A l \in Ids : \A k \in DOMAIN lists'[l] : Allows(decisions, lists'[l][k].id, lists'[l][k].call)
    BY <1>6, <2>2, FiledSlots DEF RecordHolds
  <2>4. \A u \in Threads : held'[u] # NoEntry => Allows(decisions, held'[u].id, held'[u].call)
    BY <2>1 DEF RecordHolds
  <2>5. decisions' = decisions /\ effects' = effects
    BY <2>1
  <2>6. \A e \in effects : Allows(decisions, e.id, e.call)
    BY DEF RecordHolds
  <2> QED
    BY <2>3, <2>4, <2>5, <2>6 DEF RecordHolds
<1> QED
  BY <1>1, <1>2, <1>3, <1>4, <1>5, <1>6 DEF Authorize

LEMMA ExecuteRecord ==
  ASSUME TypeInv, PlaceInv, ExactInv, RecordHolds, NEW t \in Threads, Execute(t)
  PROVE  RecordHolds'
<1>0. decisions' = decisions /\ \A i, d : Allows(decisions, i, d) => Allows(decisions', i, d)
  <2>1. decisions' = decisions
    BY DEF Execute, Fetch, Pop, PopFails, Test, Unlink, Verify, VerifyFails, RemoteExecute, RemoteFails,
       Consume, ConsumeFails, Apply, ApplyFails
  <2> QED
    BY <2>1 DEF Allows
<1>1. CASE (\E c \in Calls : Fetch(t, c)) \/ Test(t) \/ Unlink(t) \/ RemoteExecute(t)
           \/ Consume(t) \/ \E ok \in BOOLEAN : Verify(t, ok)
  <2>1. UNCHANGED <<lists, effects, held>>
    BY <1>1 DEF Fetch, Test, Unlink, RemoteExecute, Consume, Verify, tableVars, outVars
  <2> QED
    BY <1>0, <2>1, RecordKept
<1>2. CASE Pop(t)
  <2>1. effects' = effects
    BY <1>2 DEF Pop, outVars
  <2>2. \A l \in Ids : \A k \in DOMAIN lists'[l] : Allows(decisions, lists'[l][k].id, lists'[l][k].call)
    BY <1>2, TakenSlots DEF RecordHolds
  <2>3. Allows(decisions, held'[t].id, held'[t].call) /\ \A u \in Threads \ {t} : held'[u] = held[u]
    BY <1>2, TakenSlots DEF RecordHolds
  <2>4. \A u \in Threads : held'[u] # NoEntry => Allows(decisions, held'[u].id, held'[u].call)
    BY <2>3 DEF RecordHolds
  <2>5. \A e \in effects : Allows(decisions, e.id, e.call)
    BY DEF RecordHolds
  <2> QED
    BY <1>0, <2>1, <2>2, <2>4, <2>5 DEF RecordHolds
<1>3. CASE PopFails(t) \/ RemoteFails(t) \/ ConsumeFails(t) \/ ApplyFails(t)
           \/ \E ok \in BOOLEAN : VerifyFails(t, ok)
  <2>1. Return(t) /\ UNCHANGED <<lists, effects>>
    BY <1>3 DEF PopFails, RemoteFails, ConsumeFails, ApplyFails, VerifyFails, tableVars, outVars
  <2>2. held'[t] = NoEntry /\ \A u \in Threads \ {t} : held'[u] = held[u]
    BY <2>1 DEF Return, TypeInv, TypeOK
  <2> QED
    BY <1>0, <2>1, <2>2, RecordKept
<1>4. CASE Apply(t)
  <2>1. /\ lists' = lists /\ effects' = effects \cup {EventOf(t)}
        /\ held'[t] = NoEntry /\ \A u \in Threads \ {t} : held'[u] = held[u]
    BY <1>4 DEF Apply, Return, TypeInv, TypeOK, tableVars
  <2>2. held[t] # NoEntry /\ held[t].call = cur[t]
    BY <1>4, PlaceTypes DEF Apply, TypeInv, HeldTypes, Labels, ExactInv, AtWork
  <2>3. Allows(decisions, EventOf(t).id, EventOf(t).call)
    BY <2>2 DEF RecordHolds, EventOf
  <2>4. \A e \in effects' : Allows(decisions, e.id, e.call)
    BY <2>1, <2>3 DEF RecordHolds
  <2>5. \A u \in Threads : held'[u] # NoEntry => Allows(decisions, held'[u].id, held'[u].call)
    BY <2>1 DEF RecordHolds
  <2>6. \A l \in Ids : \A k \in DOMAIN lists[l] : Allows(decisions, lists[l][k].id, lists[l][k].call)
    BY DEF RecordHolds
  <2> QED
    BY <1>0, <2>1, <2>4, <2>5, <2>6 DEF RecordHolds
<1> QED
  BY <1>1, <1>2, <1>3, <1>4 DEF Execute

LEMMA RecordStep ==
  TypeInv /\ PlaceInv /\ ExactInv /\ MintInv /\ LastInv /\ RecordInv /\ [Next]_vars => RecordInv'
<1> SUFFICES ASSUME TypeInv, PlaceInv, ExactInv, MintInv, LastInv, RecordInv, [Next]_vars, Recorded'
             PROVE  RecordHolds'
  BY DEF RecordInv
<1>1. Recorded
  <2>1. now \in Nat /\ now' \in Nat /\ now <= now' /\ Mediated' = Mediated /\ LeaseEnd \in Nat
    BY TimeMoves, BoundsAssumption DEF LeaseEnd
  <2> QED
    BY <2>1 DEF Recorded, OneThread, LeaseEnd
<1>2. RecordHolds
  BY <1>1 DEF RecordInv
<1>3. ASSUME NEW t \in Threads, Authorize(t) \/ Execute(t) PROVE RecordHolds'
  BY <1>1, <1>2, <1>3, AuthorizeRecord, ExecuteRecord
<1>4. CASE Tick \/ Revoke \/ UNCHANGED vars
  <2>1. UNCHANGED <<lists, held, effects, decisions>>
    BY <1>4 DEF Tick, Revoke, vars, tableVars, outVars, threadVars
  <2> QED
    BY <1>2, <2>1 DEF RecordHolds
<1> QED
  BY <1>3, <1>4 DEF Next

\* Each effect has its own allow, over the very call, on the record the
\* benchmark grades: the denial that overrules the last decision when no permit
\* can be minted never lands on a spent one, of any number of threads, while the
\* lease runs; and never at all of a single one.
THEOREM EffectsStayOnRecord == Spec => []EffectsAreOnRecord
<1>1. TypeInv /\ MintInv /\ RecordInv => EffectsAreOnRecord
  <2> SUFFICES ASSUME TypeInv, MintInv, RecordInv, OneThread \/ ~Mediated \/ now < LeaseEnd, NEW e \in effects
               PROVE  decisions[e.id] = [call |-> e.call, allowed |-> TRUE]
    BY DEF EffectsAreOnRecord
  <2>1. TTL # 0
    BY DEF MintInv
  <2>2. TTL > 0
    BY <2>1, BoundsAssumption
  <2>3. Recorded
    BY <2>2 DEF Recorded
  <2> QED
    BY <2>3 DEF RecordInv, RecordHolds, Allows
<1> QED
  BY <1>1, RecordInit, MintStep, LastStep, RecordStep, ExactInit, ExactStep, PlacesHold, AlwaysTyped,
     PTL DEF Spec

-----------------------------------------------------------------------------
(***************************************************************************)
(* The pending table: a list with a permit in it is one a digest maps to,  *)
(* as long as no two threads are in the boundary with one call.            *)
(***************************************************************************)
OnList == {"append", "pop", "test", "unlink"}

\* The thread's list is the one its digest maps to, and the key it is about to
\* remove is that of a list it has emptied.
Linked ==
  \A t \in Threads :
    /\ pc[t] \in OnList => pending[cur[t]] = ref[t]
    /\ pc[t] = "unlink" => lists[ref[t]] = <<>>

\* No two digests share a list, and a list a thread may be about to create has
\* a name no digest maps to.
ListsDiffer == \A c, d \in Calls : pending[c] = pending[d] => c = d \/ pending[c] = NoList
NamesAreFresh ==
  /\ \A c \in Calls : pending[c] <= Len(decisions)
  /\ \A t \in Threads : pc[t] = "issue" => \A c \in Calls : pending[c] # held[t].id

LinkInv == NoPermitStranded /\ Linked /\ ListsDiffer /\ NamesAreFresh

LEMMA LinkInit == Init => LinkInv
<1> SUFFICES ASSUME Init PROVE LinkInv
  OBVIOUS
<1>1. Len(decisions) = 0 /\ \A c \in Calls : pending[c] = 0
  BY DEF Init, NoList
<1>2. NoPermitStranded /\ Linked
  BY DEF Init, NoPermitStranded, Linked, OnList
<1> QED
  BY <1>1, <1>2 DEF Init, LinkInv, ListsDiffer, NamesAreFresh, NoList

\* A thread's step leaves every other thread where it is.
OthersSame(t) ==
  \A u \in Threads \ {t} :
    pc'[u] = pc[u] /\ cur'[u] = cur[u] /\ ref'[u] = ref[u] /\ held'[u] = held[u]

LEMMA StepsAreLocal ==
  ASSUME TypeInv, NEW t \in Threads, Authorize(t) \/ Execute(t)
  PROVE  OthersSame(t)
<1>1. ASSUME Return(t) PROVE OthersSame(t)
  BY <1>1 DEF Return, Goto, OthersSame, TypeInv, TypeOK
<1>2. ASSUME Authorize(t) PROVE OthersSame(t)
  <2>1. CASE \E c \in Calls, ok \in BOOLEAN : CheckDenies(t, c, ok) \/ CheckRaises(t, c, ok)
    BY <2>1 DEF CheckDenies, CheckRaises, OthersSame, threadVars
  <2>2. CASE \E c \in Calls, ok \in BOOLEAN : CheckAllows(t, c, ok)
    BY <2>2 DEF CheckAllows, Goto, OthersSame, TypeInv, TypeOK
  <2>3. CASE Issue(t)
    BY <2>3, MintedIsGood DEF Issue, OthersSame, TypeInv, TypeOK
  <2>4. CASE IssueFails(t) \/ AppendEntry(t)
    BY <1>1, <2>4 DEF IssueFails, AppendEntry
  <2> QED
    BY <1>2, <2>1, <2>2, <2>3, <2>4 DEF Authorize
<1>3. ASSUME Execute(t) PROVE OthersSame(t)
  <2>1. CASE \E c \in Calls : Fetch(t, c)
    BY <2>1 DEF Fetch, Goto, OthersSame, TypeInv, TypeOK
  <2>2. CASE Pop(t)
    BY <2>2, TakenSlots DEF Pop, Goto, OthersSame, TypeInv, TypeOK
  <2>3. CASE Test(t) \/ Unlink(t) \/ RemoteExecute(t) \/ Consume(t) \/ \E ok \in BOOLEAN : Verify(t, ok)
    BY <2>3 DEF Test, Unlink, RemoteExecute, Consume, Verify, Goto, OthersSame, TypeInv, TypeOK
  <2>4. CASE PopFails(t) \/ RemoteFails(t) \/ ConsumeFails(t) \/ ApplyFails(t) \/ Apply(t)
             \/ \E ok \in BOOLEAN : VerifyFails(t, ok)
    BY <1>1, <2>4 DEF PopFails, RemoteFails, ConsumeFails, ApplyFails, Apply, VerifyFails
  <2> QED
    BY <1>3, <2>1, <2>2, <2>3, <2>4 DEF Execute
<1> QED
  BY <1>2, <1>3

\* Nothing is taken off the record.
LEMMA RecordLength ==
  ASSUME TypeInv, [Next]_vars
  PROVE  Len(decisions) \in Nat /\ Len(decisions') \in Nat /\ Len(decisions) <= Len(decisions')
<1>1. Len(decisions) \in Nat
  BY PlaceTypes
<1> DEFINE Grows == Len(decisions') = Len(decisions) \/ Len(decisions') = Len(decisions) + 1
<1>2. ASSUME NEW t \in Threads, Authorize(t) PROVE Grows
  <2>1. CASE \E c \in Calls, ok \in BOOLEAN : CheckDenies(t, c, ok) \/ CheckAllows(t, c, ok)
    BY <2>1, RecordGrows DEF CheckDenies, CheckAllows
  <2>2. CASE (\E c \in Calls, ok \in BOOLEAN : CheckRaises(t, c, ok)) \/ Issue(t) \/ AppendEntry(t)
    BY <2>2 DEF CheckRaises, Issue, AppendEntry
  <2>3. CASE IssueFails(t)
    BY <2>3, OverruleKeepsLength DEF IssueFails
  <2> QED
    BY <1>2, <2>1, <2>2, <2>3 DEF Authorize
<1>3. ASSUME NEW t \in Threads, Execute(t) PROVE Grows
  BY <1>3 DEF Execute, Fetch, Pop, PopFails, Test, Unlink, Verify, VerifyFails, RemoteExecute, RemoteFails,
     Consume, ConsumeFails, Apply, ApplyFails
<1>4. ASSUME Tick \/ Revoke \/ UNCHANGED vars PROVE Grows
  BY <1>4 DEF Tick, Revoke, vars
<1>5. Grows
  BY <1>2, <1>3, <1>4 DEF Next
<1> QED
  BY <1>1, <1>5

\* The table stays, and the thread goes where it needs no list.
LEMMA TableKept ==
  ASSUME TypeInv, LinkInv, [Next]_vars, NEW t \in Threads, OthersSame(t),
         UNCHANGED <<pending, lists>>, pc'[t] \notin OnList,
         pc'[t] = "issue" => \A c \in Calls : pending[c] # held'[t].id
  PROVE  LinkInv'
<1>1. NoPermitStranded' /\ ListsDiffer'
  BY DEF LinkInv, NoPermitStranded, ListsDiffer
<1>2. Linked'
  BY DEF LinkInv, Linked, OthersSame, OnList
<1>3. \A c \in Calls : pending'[c] <= Len(decisions')
  <2> SUFFICES ASSUME NEW c \in Calls PROVE pending[c] <= Len(decisions')
    OBVIOUS
  <2>1. pending[c] <= Len(decisions) /\ pending[c] \in Nat
    BY BoundsAssumption DEF LinkInv, NamesAreFresh, TypeInv, TypeOK, Ids, NoList
  <2> QED
    BY <2>1, RecordLength
<1>4. \A u \in Threads : pc'[u] = "issue" => \A c \in Calls : pending'[c] # held'[u].id
  BY DEF LinkInv, NamesAreFresh, OthersSame
<1> QED
  BY <1>1, <1>2, <1>3, <1>4 DEF LinkInv, NamesAreFresh

\* Linking a list keeps every other digest's.
LEMMA IssueLinks ==
  ASSUME TypeInv, PlaceInv, LinkInv, Apart, [Next]_vars, NEW t \in Threads, Issue(t)
  PROVE  LinkInv'
<1> DEFINE list == IF pending[cur[t]] = NoList THEN held[t].id ELSE pending[cur[t]]
<1>1. /\ cur[t] \in Calls /\ lists' = lists /\ cur' = cur /\ decisions' = decisions
      /\ pending' = [pending EXCEPT ![cur[t]] = list]
      /\ ref'[t] = list /\ pc[t] = "issue" /\ pc'[t] = "append" /\ OthersSame(t)
  BY StepsAreLocal DEF Issue, Digest, Goto, Authorize, TypeInv, TypeOK, HeldTypes
<1>2. held[t] # NoEntry /\ held[t].id \in Ids /\ held[t].id <= Len(decisions)
  BY <1>1, PlaceTypes DEF TypeInv, HeldTypes, Labels, PlaceInv, IdsAreIssued, NoEntry, Entry, Ids
<1>3. /\ pending'[cur[t]] = list /\ \A c \in Calls \ {cur[t]} : pending'[c] = pending[c]
      /\ list \in Ids /\ list # NoList /\ list <= Len(decisions)
  BY <1>1, <1>2 DEF TypeInv, TypeOK, LinkInv, NamesAreFresh, Ids, NoList
<1>4. \A c \in Calls \ {cur[t]} : pending[c] # list
  BY <1>1 DEF LinkInv, ListsDiffer, NamesAreFresh
<1>5. pending[cur[t]] \in {list, NoList}
  OBVIOUS
<1>6. \A u \in Threads \ {t} : pc[u] = "issue" => held[u].id # list
  BY <1>1, <1>2 DEF PlaceInv, HandsDiffer, LinkInv, NamesAreFresh
<1> HIDE DEF list
<1>7. NoPermitStranded'
  <2>1. \A l \in Ids : l # NoList
    BY DEF Ids, NoList
  <2> QED
    BY <1>1, <1>3, <1>5, <2>1 DEF LinkInv, NoPermitStranded
<1>8. Linked'
  <2>1. ASSUME NEW u \in Threads \ {t}, pc[u] \in OnList PROVE pending'[cur[u]] = ref[u]
    <3>1. cur[u] \in Calls /\ cur[u] # cur[t]
      BY <1>1, <2>1, CallsAssumption DEF Apart, OnList, TypeInv, HeldTypes
    <3> QED
      BY <1>3, <2>1, <3>1 DEF LinkInv, Linked
  <2> QED
    BY <1>1, <1>3, <2>1 DEF LinkInv, Linked, OthersSame
<1>9. ListsDiffer'
  BY <1>1, <1>3, <1>4 DEF LinkInv, ListsDiffer
<1>10. NamesAreFresh'
  BY <1>1, <1>3, <1>6 DEF LinkInv, NamesAreFresh, OthersSame
<1> QED
  BY <1>7, <1>8, <1>9, <1>10 DEF LinkInv

\* Two threads on lists are on different ones.
LEMMA ListsAreApart ==
  ASSUME TypeInv, LinkInv, Apart, NEW t \in Threads, NEW u \in Threads \ {t},
         pc[t] \in OnList, pc[u] \in OnList
  PROVE  ref[u] # ref[t]
<1>1. cur[t] \in Calls /\ cur[u] \in Calls /\ cur[t] # cur[u] /\ ref[t] \in Ids
  BY CallsAssumption DEF Apart, OnList, TypeInv, HeldTypes
<1>2. pending[cur[t]] = ref[t] /\ pending[cur[u]] = ref[u] /\ ref[t] # NoList
  BY <1>1 DEF LinkInv, Linked, Ids, NoList
<1> QED
  BY <1>1, <1>2 DEF LinkInv, ListsDiffer

LEMMA AppendEntryLinks ==
  ASSUME TypeInv, LinkInv, Apart, NEW t \in Threads, AppendEntry(t)
  PROVE  LinkInv'
<1>1. /\ pending' = pending /\ decisions' = decisions /\ pc[t] = "append"
      /\ ref[t] \in Ids /\ cur[t] \in Calls
      /\ lists' = [lists EXCEPT ![ref[t]] = Append(@, held[t])]
      /\ pc'[t] = "idle" /\ OthersSame(t)
  BY StepsAreLocal DEF AppendEntry, Return, Goto, Authorize, TypeInv, TypeOK, HeldTypes, Labels
<1>2. \A l \in Ids : l # ref[t] => lists'[l] = lists[l]
  BY <1>1 DEF TypeInv, TypeOK
<1>3. NoPermitStranded'
  <2>1. pending[cur[t]] = ref[t]
    BY <1>1 DEF LinkInv, Linked, OnList
  <2> QED
    BY <1>1, <1>2, <2>1 DEF LinkInv, NoPermitStranded
<1>4. Linked'
  <2>1. ASSUME NEW u \in Threads \ {t}, pc[u] = "unlink" PROVE lists'[ref[u]] = <<>>
    <3>1. ref[u] # ref[t] /\ ref[u] \in Ids
      BY <1>1, <2>1, ListsAreApart DEF OnList, TypeInv, HeldTypes
    <3> QED
      BY <1>2, <2>1, <3>1 DEF LinkInv, Linked
  <2> QED
    BY <1>1, <2>1 DEF LinkInv, Linked, OthersSame, OnList
<1>5. ListsDiffer' /\ NamesAreFresh'
  BY <1>1 DEF LinkInv, ListsDiffer, NamesAreFresh, OthersSame
<1> QED
  BY <1>3, <1>4, <1>5 DEF LinkInv

LEMMA PopLinks ==
  ASSUME TypeInv, LinkInv, Apart, NEW t \in Threads, Pop(t)
  PROVE  LinkInv'
<1> DEFINE tail == Tail(lists[ref[t]])
<1>1. /\ pending' = pending /\ decisions' = decisions /\ cur' = cur /\ ref' = ref /\ pc[t] = "pop"
      /\ lists[ref[t]] # <<>> /\ lists' = [lists EXCEPT ![ref[t]] = tail]
      /\ pc'[t] = "test" /\ ref[t] \in Ids /\ OthersSame(t)
  BY StepsAreLocal DEF Pop, PoppedList, Goto, Execute, TypeInv, TypeOK, HeldTypes
<1> HIDE DEF tail
<1>2. lists'[ref[t]] = tail /\ \A l \in Ids : l # ref[t] => lists'[l] = lists[l]
  BY <1>1 DEF TypeInv, TypeOK
<1>3. NoPermitStranded'
  BY <1>1, <1>2 DEF LinkInv, NoPermitStranded
<1>4. Linked'
  <2>1. ASSUME NEW u \in Threads \ {t}, pc[u] = "unlink" PROVE lists'[ref[u]] = <<>>
    <3>1. ref[u] # ref[t] /\ ref[u] \in Ids
      BY <1>1, <2>1, ListsAreApart DEF OnList, TypeInv, HeldTypes
    <3> QED
      BY <1>2, <2>1, <3>1 DEF LinkInv, Linked
  <2>2. pending[cur[t]] = ref[t]
    BY <1>1 DEF LinkInv, Linked, OnList
  <2> QED
    BY <1>1, <2>1, <2>2 DEF LinkInv, Linked, OthersSame
<1>5. ListsDiffer' /\ NamesAreFresh'
  BY <1>1 DEF LinkInv, ListsDiffer, NamesAreFresh, OthersSame
<1> QED
  BY <1>3, <1>4, <1>5 DEF LinkInv

\* The key is about to be removed only when the list is found empty.
LEMMA TestLinks ==
  ASSUME TypeInv, LinkInv, NEW t \in Threads, Test(t)
  PROVE  LinkInv'
<1>1. /\ UNCHANGED <<pending, lists, decisions, cur, ref, held>> /\ pc[t] = "test"
      /\ pc'[t] = (IF lists[ref[t]] = <<>> THEN "unlink" ELSE "verify") /\ OthersSame(t)
  BY StepsAreLocal DEF Test, Unlinks, Goto, Execute, tableVars, TypeInv, TypeOK
<1>2. NoPermitStranded' /\ ListsDiffer' /\ NamesAreFresh'
  BY <1>1 DEF LinkInv, NoPermitStranded, ListsDiffer, NamesAreFresh, OthersSame
<1>3. Linked'
  BY <1>1 DEF LinkInv, Linked, OthersSame, OnList
<1> QED
  BY <1>2, <1>3 DEF LinkInv

LEMMA UnlinkLinks ==
  ASSUME TypeInv, LinkInv, Apart, NEW t \in Threads, Unlink(t)
  PROVE  LinkInv'
<1>1. /\ lists' = lists /\ decisions' = decisions /\ cur' = cur /\ ref' = ref
      /\ pc[t] = "unlink" /\ pc'[t] = "verify"
      /\ pending' = [pending EXCEPT ![cur[t]] = NoList]
      /\ cur[t] \in Calls /\ OthersSame(t)
  BY StepsAreLocal DEF Unlink, Digest, Goto, Execute, TypeInv, TypeOK, HeldTypes
<1>2. /\ pending'[cur[t]] = NoList /\ \A c \in Calls \ {cur[t]} : pending'[c] = pending[c]
      /\ pending[cur[t]] = ref[t] /\ lists[ref[t]] = <<>>
  BY <1>1 DEF LinkInv, Linked, OnList, TypeInv, TypeOK
<1>3. NoPermitStranded'
  BY <1>1, <1>2 DEF LinkInv, NoPermitStranded
<1>4. Linked'
  <2>1. ASSUME NEW u \in Threads \ {t}, pc[u] \in OnList PROVE pending'[cur[u]] = ref[u]
    <3>1. cur[u] \in Calls /\ cur[u] # cur[t]
      BY <1>1, <2>1, CallsAssumption DEF Apart, OnList, TypeInv, HeldTypes
    <3> QED
      BY <1>2, <2>1, <3>1 DEF LinkInv, Linked
  <2> QED
    BY <1>1, <2>1 DEF LinkInv, Linked, OthersSame, OnList
<1>5. ListsDiffer'
  BY <1>1, <1>2 DEF LinkInv, ListsDiffer
<1>6. NamesAreFresh'
  <2>1. \A u \in Threads : pc[u] = "issue" => held[u].id # NoList
    BY PlaceTypes DEF TypeInv, HeldTypes, Labels, Entry, Ids, NoList
  <2>2. NoList <= Len(decisions)
    BY PlaceTypes DEF NoList
  <2> QED
    BY <1>1, <1>2, <2>1, <2>2 DEF LinkInv, NamesAreFresh, OthersSame
<1> QED
  BY <1>3, <1>4, <1>5, <1>6 DEF LinkInv

LEMMA FetchLinks ==
  ASSUME TypeInv, LinkInv, NEW t \in Threads, NEW c \in Calls, Fetch(t, c)
  PROVE  LinkInv'
<1>1. /\ UNCHANGED <<pending, lists, decisions>>
      /\ pc'[t] = "pop" /\ cur'[t] = c /\ ref'[t] = pending[c] /\ OthersSame(t)
  BY StepsAreLocal DEF Fetch, Digest, Goto, Execute, tableVars, TypeInv, TypeOK
<1>2. NoPermitStranded' /\ ListsDiffer' /\ NamesAreFresh'
  BY <1>1 DEF LinkInv, NoPermitStranded, ListsDiffer, NamesAreFresh, OthersSame
<1>3. Linked'
  BY <1>1 DEF LinkInv, Linked, OthersSame
<1> QED
  BY <1>2, <1>3 DEF LinkInv

LEMMA LinkStep == TypeInv /\ PlaceInv /\ LinkInv /\ Apart /\ [Next]_vars => LinkInv'
<1> SUFFICES ASSUME TypeInv, PlaceInv, LinkInv, Apart, [Next]_vars PROVE LinkInv'
  OBVIOUS
<1>1. ASSUME NEW t \in Threads, Authorize(t) PROVE LinkInv'
  <2>0. OthersSame(t)
    BY <1>1, StepsAreLocal
  <2>1. CASE \E c \in Calls, ok \in BOOLEAN : CheckDenies(t, c, ok) \/ CheckRaises(t, c, ok)
    <3>1. UNCHANGED <<pending, lists>> /\ pc'[t] = "idle"
      BY <2>1 DEF CheckDenies, CheckRaises, Ask, tableVars, threadVars
    <3> QED
      BY <2>0, <3>1, TableKept DEF OnList
  <2>2. CASE \E c \in Calls, ok \in BOOLEAN : CheckAllows(t, c, ok)
    <3>1. UNCHANGED <<pending, lists>> /\ pc'[t] = "issue" /\ held'[t].id = Len(decisions) + 1
      BY <2>2 DEF CheckAllows, Goto, tableVars, TypeInv, TypeOK
    <3>2. \A c \in Calls : pending[c] # held'[t].id
      BY <3>1, PlaceTypes, BoundsAssumption DEF LinkInv, NamesAreFresh, TypeInv, TypeOK, Ids, NoList
    <3> QED
      BY <2>0, <3>1, <3>2, TableKept DEF OnList
  <2>3. CASE IssueFails(t)
    <3>1. UNCHANGED <<pending, lists>> /\ pc'[t] = "idle"
      BY <2>3 DEF IssueFails, Return, Goto, tableVars, TypeInv, TypeOK
    <3> QED
      BY <2>0, <3>1, TableKept DEF OnList
  <2> QED
    BY <1>1, <2>1, <2>2, <2>3, IssueLinks, AppendEntryLinks DEF Authorize
<1>2. ASSUME NEW t \in Threads, Execute(t) PROVE LinkInv'
  <2>0. OthersSame(t)
    BY <1>2, StepsAreLocal
  <2>1. CASE PopFails(t) \/ RemoteFails(t) \/ ConsumeFails(t) \/ ApplyFails(t) \/ Apply(t)
             \/ \E ok \in BOOLEAN : VerifyFails(t, ok)
    <3>1. UNCHANGED <<pending, lists>> /\ pc'[t] = "idle"
      BY <2>1 DEF PopFails, RemoteFails, ConsumeFails, ApplyFails, Apply, VerifyFails, Return,
         Goto, tableVars, TypeInv, TypeOK
    <3> QED
      BY <2>0, <3>1, TableKept DEF OnList
  <2>2. CASE RemoteExecute(t) \/ Consume(t) \/ \E ok \in BOOLEAN : Verify(t, ok)
    <3>1. UNCHANGED <<pending, lists>>
      BY <2>2 DEF RemoteExecute, Consume, Verify, tableVars
    <3>2. pc'[t] \in AtWork
      BY <2>2, RemoteWork, ConsumeWork, VerifyWork DEF AtWork
    <3> QED
      BY <2>0, <3>1, <3>2, TableKept DEF AtWork, OnList
  <2> QED
    BY <1>2, <2>1, <2>2, FetchLinks, PopLinks, TestLinks, UnlinkLinks DEF Execute
<1>3. CASE Tick \/ Revoke \/ UNCHANGED vars
  <2>1. UNCHANGED <<pending, lists, decisions, pc, cur, ref, held>>
    BY <1>3 DEF Tick, Revoke, vars, tableVars, threadVars
  <2> QED
    BY <2>1 DEF LinkInv, NoPermitStranded, Linked, ListsDiffer, NamesAreFresh
<1> QED
  BY <1>1, <1>2, <1>3 DEF Next

\* For any number of threads: as long as no two are in the boundary with one
\* call, no unspent decision is lost, and the key that is removed is always that
\* of an emptied list.
THEOREM NothingIsStranded == Spec /\ []Apart => []NoPermitStranded
<1>1. LinkInv => NoPermitStranded
  BY DEF LinkInv
<1> QED
  BY <1>1, LinkInit, LinkStep, PlacesHold, AlwaysTyped, PTL DEF Spec

\* A single thread is never in the boundary twice, so it strands nothing.
THEOREM NothingIsStrandedByOne ==
  ASSUME OneThread
  PROVE  Spec => []NoPermitStranded
<1>1. Apart
  BY DEF OneThread, Apart
<1> QED
  BY <1>1, NothingIsStranded, PTL
=============================================================================
