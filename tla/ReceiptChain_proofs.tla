------------------------- MODULE ReceiptChain_proofs -------------------------
(***************************************************************************)
(* Theorems about ReceiptChain for every set of threads and contents and   *)
(* chains of any length.                                                   *)
(***************************************************************************)
EXTENDS ReceiptChain, SequenceTheorems, TLAPS

\* The receipt that continues the chain committed to by d.
Continue(d, c) == [content |-> c, shape |-> TRUE, link |-> d, digest |-> Append(d, c)]

LEMMA PrefixIsDigest ==
  ASSUME NEW d \in Digests, NEW i \in 0 .. Len(d)
  PROVE  /\ SubSeq(d, 1, i) \in Digests
         /\ Len(SubSeq(d, 1, i)) = i
         /\ \A j \in 1 .. i : SubSeq(d, 1, i)[j] = d[j]
<1>1. Len(d) \in Nat /\ \A j \in 1 .. i : d[j] \in Contents
  BY ElementOfSeq, LenProperties DEF Digests
<1> QED
  BY <1>1, SubSeqProperties DEF Digests

LEMMA PrefixOfAppend ==
  ASSUME NEW d \in Digests, NEW c \in Contents, NEW i \in 0 .. Len(d)
  PROVE  SubSeq(Append(d, c), 1, i) = SubSeq(d, 1, i)
<1> DEFINE m == Append(d, c)
<1>1. /\ m \in Digests /\ Len(m) = Len(d) + 1 /\ Len(d) \in Nat
      /\ \A j \in 1 .. Len(d) : m[j] = d[j]
  BY AppendProperties, LenProperties DEF Digests
<1> HIDE DEF m
<1>2. i \in 0 .. Len(m)
  BY <1>1
<1>3. /\ SubSeq(m, 1, i) \in Digests
      /\ Len(SubSeq(m, 1, i)) = i
      /\ \A j \in 1 .. i : SubSeq(m, 1, i)[j] = m[j]
  BY <1>1, <1>2, PrefixIsDigest
<1>4. /\ SubSeq(d, 1, i) \in Digests
      /\ Len(SubSeq(d, 1, i)) = i
      /\ \A j \in 1 .. i : SubSeq(d, 1, i)[j] = d[j]
  BY PrefixIsDigest
<1>5. \A j \in 1 .. i : SubSeq(m, 1, i)[j] = SubSeq(d, 1, i)[j]
  BY <1>1, <1>3, <1>4
<1> QED
  BY <1>3, <1>4, <1>5, SeqEqual DEF Digests, m

LEMMA UnfoldType ==
  ASSUME NEW d \in Digests
  PROVE  /\ Unfold(d) \in Seq(Receipt)
         /\ Len(Unfold(d)) = Len(d)
         /\ DOMAIN Unfold(d) = 1 .. Len(d)
<1>1. Len(d) \in Nat
  BY LenProperties DEF Digests
<1>2. ASSUME NEW i \in 1 .. Len(d)
      PROVE  [content |-> d[i], shape |-> TRUE, link |-> SubSeq(d, 1, i - 1),
              digest |-> SubSeq(d, 1, i)] \in Receipt
  <2>1. d[i] \in Contents
    BY ElementOfSeq DEF Digests
  <2>2. SubSeq(d, 1, i - 1) \in Digests
    BY <1>1, PrefixIsDigest
  <2>3. SubSeq(d, 1, i) \in Digests /\ Len(SubSeq(d, 1, i)) = i
    BY <1>1, PrefixIsDigest
  <2>4. SubSeq(d, 1, i) # Genesis
    BY <2>3, EmptySeq DEF Genesis
  <2> QED
    BY <2>1, <2>2, <2>3, <2>4 DEF Receipt
<1>3. Unfold(d) \in [1 .. Len(d) -> Receipt]
  BY <1>2 DEF Unfold
<1>4. Unfold(d) \in Seq(Receipt)
  BY <1>1, <1>3, SeqDef
<1> QED
  BY <1>1, <1>3, <1>4, LenProperties

\* A chain unfolds one receipt at a time.
LEMMA UnfoldAppend ==
  ASSUME NEW d \in Digests, NEW c \in Contents
  PROVE  /\ Continue(d, c) \in Receipt
         /\ Append(d, c) \in Digests
         /\ Unfold(Append(d, c)) = Append(Unfold(d), Continue(d, c))
<1> DEFINE m == Append(d, c)
           u == Unfold(d)
           r == Continue(d, c)
<1>1. /\ m \in Digests /\ m # Genesis /\ Len(m) = Len(d) + 1 /\ Len(d) \in Nat
      /\ \A j \in 1 .. Len(d) : m[j] = d[j]
      /\ m[Len(d) + 1] = c
  BY AppendProperties, LenProperties DEF Digests, Genesis
<1>2. r \in Receipt
  BY <1>1 DEF Continue, Receipt
<1>3. u \in Seq(Receipt) /\ Len(u) = Len(d)
  BY UnfoldType
<1>4. Unfold(m) \in Seq(Receipt) /\ Len(Unfold(m)) = Len(d) + 1
  BY <1>1, UnfoldType
<1>5. /\ Append(u, r) \in Seq(Receipt) /\ Len(Append(u, r)) = Len(d) + 1
      /\ \A i \in 1 .. Len(d) : Append(u, r)[i] = u[i]
      /\ Append(u, r)[Len(d) + 1] = r
  <2> HIDE DEF u, r
  <2> QED
    BY <1>2, <1>3, AppendProperties
<1>6. ASSUME NEW i \in 1 .. Len(d) PROVE Unfold(m)[i] = u[i]
  <2>1. i \in 1 .. Len(m) /\ i \in 0 .. Len(d) /\ i - 1 \in 0 .. Len(d)
    BY <1>1
  <2>2. SubSeq(m, 1, i) = SubSeq(d, 1, i) /\ SubSeq(m, 1, i - 1) = SubSeq(d, 1, i - 1)
    BY <2>1, PrefixOfAppend
  <2>3. m[i] = d[i]
    BY <1>1
  <2> HIDE DEF m
  <2> QED
    BY <2>1, <2>2, <2>3 DEF Unfold
<1>7. Unfold(m)[Len(d) + 1] = r
  <2>1. SubSeq(m, 1, Len(d) + 1) = m
    BY <1>1, SubSeqFull DEF Digests
  <2>2. SubSeq(m, 1, Len(d)) = d
    <3>1. SubSeq(m, 1, Len(d)) = SubSeq(d, 1, Len(d))
      BY <1>1, PrefixOfAppend
    <3> QED
      BY <3>1, SubSeqFull DEF Digests
  <2>3. Unfold(m)[Len(d) + 1] = [content |-> c, shape |-> TRUE,
            link |-> SubSeq(m, 1, Len(d) + 1 - 1), digest |-> SubSeq(m, 1, Len(d) + 1)]
    <3> DEFINE k == Len(d) + 1
    <3>1. k \in 1 .. Len(m) /\ m[k] = c
      BY <1>1
    <3> HIDE DEF m, k
    <3>2. Unfold(m)[k] = [content |-> m[k], shape |-> TRUE,
                          link |-> SubSeq(m, 1, k - 1), digest |-> SubSeq(m, 1, k)]
      BY <3>1 DEF Unfold
    <3> QED
      BY <3>1, <3>2 DEF k
  <2>4. Len(d) + 1 - 1 = Len(d)
    BY <1>1
  <2> QED
    BY <2>1, <2>2, <2>3, <2>4 DEF Continue
<1>8. \A i \in 1 .. Len(d) + 1 : Unfold(m)[i] = Append(u, r)[i]
  <2> HIDE DEF m, u, r
  <2> QED
    BY <1>1, <1>5, <1>6, <1>7
<1>9. Unfold(m) = Append(u, r)
  <2> HIDE DEF m, u, r
  <2> QED
    BY <1>4, <1>5, <1>8, SeqEqual
<1> QED
  BY <1>1, <1>2, <1>9

\* The last receipt of a chain states the digest that names it.
LastDigest(es) ==
  IF es = <<>> THEN Genesis
  ELSE IF es[Len(es)] = Garbage THEN Junk ELSE es[Len(es)].digest

LEMMA LastOfUnfold ==
  ASSUME NEW d \in Digests
  PROVE  LastDigest(Unfold(d)) = d
<1> DEFINE u == Unfold(d)
<1>1. u \in Seq(Receipt) /\ Len(u) = Len(d) /\ Len(d) \in Nat
  BY UnfoldType, LenProperties DEF Digests
<1>2. CASE d = <<>>
  <2>1. u = <<>>
    <3> HIDE DEF u
    <3> QED
      BY <1>1, <1>2, EmptySeq
  <2> QED
    BY <1>2, <2>1 DEF LastDigest, Genesis
<1>3. CASE d # <<>>
  <2>1. Len(d) \in 1 .. Len(d) /\ Len(d) \in 1 .. Len(u)
    BY <1>1, <1>3, EmptySeq DEF Digests
  <2>2. u[Len(d)].digest = SubSeq(d, 1, Len(d))
    BY <2>1 DEF Unfold
  <2>3. SubSeq(d, 1, Len(d)) = d
    BY SubSeqFull DEF Digests
  <2>4. u # <<>> /\ u[Len(u)] \in Receipt
    <3> HIDE DEF u
    <3> QED
      BY <1>1, <2>1, EmptySeq, ElementOfSeq
  <2>5. u[Len(u)] # Garbage
    BY <2>4, LedgerAssumption
  <2> QED
    BY <1>1, <2>2, <2>3, <2>4, <2>5 DEF LastDigest
<1> QED
  BY <1>2, <1>3

\* A digest commits to one chain.
LEMMA UnfoldInjective ==
  ASSUME NEW d \in Digests, NEW e \in Digests, Unfold(d) = Unfold(e)
  PROVE  d = e
  BY LastOfUnfold

(***************************************************************************)
(* What the locals of _verify_structure say of the receipts read so far.   *)
(***************************************************************************)
Entries == Receipt \cup {Garbage}
Good(es) == {i \in DOMAIN es : es[i] # Garbage}
Clean(s) == s.closed /\ ~s.spliced /\ ~s.malformed

\* An event is not named, or named twice.
Repeats(es) ==
  \/ \E i \in Good(es) : EventId[es[i].content] = NoId
  \/ \E i, j \in Good(es) : i # j /\ EventId[es[i].content] = EventId[es[j].content]

Reads(es, s) ==
  /\ s.previous = LastDigest(es)
  /\ Clean(s) <=> s.previous \in Digests /\ es = Unfold(s.previous)
  /\ s.seen = {EventId[es[i].content] : i \in Good(es)}
  /\ s.duplicate <=> Repeats(es)

LEMMA FreshReads == Reads(<<>>, FreshScan)
<1>1. Genesis \in Digests /\ Len(Genesis) = 0
  BY EmptySeq DEF Genesis, Digests
<1>2. Unfold(Genesis) = <<>>
  BY <1>1, UnfoldType, EmptySeq
<1> QED
  BY <1>1, <1>2 DEF Reads, FreshScan, LastDigest, Clean, Good, Repeats

LEMMA Grown ==
  ASSUME NEW es \in Seq(Entries), NEW e \in Entries
  PROVE  LET k == Len(es) + 1
             more == Append(es, e)
         IN /\ more \in Seq(Entries)
            /\ k \notin DOMAIN es
            /\ more # <<>> /\ Len(more) = k
            /\ more[k] = e
            /\ \A i \in DOMAIN es : i # k /\ more[i] = es[i]
            /\ Good(more) = IF e = Garbage THEN Good(es) ELSE Good(es) \cup {k}
<1> DEFINE k == Len(es) + 1
           more == Append(es, e)
<1>1. /\ more \in Seq(Entries)
      /\ k \notin DOMAIN es
      /\ more # <<>> /\ Len(more) = k
      /\ DOMAIN more = DOMAIN es \cup {k}
      /\ more[k] = e
      /\ \A i \in DOMAIN es : i # k /\ more[i] = es[i]
  BY AppendProperties, LenProperties
<1> HIDE DEF k, more
<1>2. Good(more) = IF e = Garbage THEN Good(es) ELSE Good(es) \cup {k}
  BY <1>1 DEF Good
<1> QED
  BY <1>1, <1>2 DEF k, more

LEMMA GarbageReads ==
  ASSUME NEW es \in Seq(Entries), NEW s \in Scan, Reads(es, s)
  PROVE  /\ Reads(Append(es, Garbage), AfterGarbage(s))
         /\ AfterGarbage(s) \in Scan
<1> DEFINE k == Len(es) + 1
           more == Append(es, Garbage)
           n == AfterGarbage(s)
<1>1. /\ more # <<>> /\ Len(more) = k /\ more[k] = Garbage
      /\ \A i \in DOMAIN es : more[i] = es[i]
      /\ Good(more) = Good(es)
  BY Grown DEF Entries
<1>2. \A i \in Good(es) : i \in DOMAIN es
  BY DEF Good
<1>3. /\ n.previous = Junk /\ n.malformed
      /\ n.seen = s.seen /\ n.duplicate = s.duplicate
  BY DEF AfterGarbage, Scan
<1>4. n \in Scan
  BY DEF AfterGarbage, Scan
<1> HIDE DEF k, more, n
<1>5. n.previous = LastDigest(more)
  BY <1>1, <1>3 DEF LastDigest
<1>6. ~Clean(n) /\ n.previous \notin Digests
  BY <1>3, LedgerAssumption DEF Clean
<1>7. n.seen = {EventId[more[i].content] : i \in Good(more)}
  BY <1>1, <1>2, <1>3 DEF Reads
<1>8. Repeats(more) <=> Repeats(es)
  BY <1>1, <1>2 DEF Repeats
<1>9. n.duplicate <=> Repeats(more)
  BY <1>3, <1>8 DEF Reads
<1> QED
  BY <1>4, <1>5, <1>6, <1>7, <1>9 DEF Reads, more, n

LEMMA RecordOfReceipt ==
  ASSUME NEW r \in Receipt, NEW d \in Digests, r.shape, r.link = d, r.digest = Append(d, r.content)
  PROVE  r = Continue(d, r.content)
  BY DEF Receipt, Continue

LEMMA ReceiptReads ==
  ASSUME NEW es \in Seq(Entries), NEW s \in Scan, NEW r \in Receipt, Reads(es, s)
  PROVE  /\ Reads(Append(es, r), AfterReceipt(s, r))
         /\ AfterReceipt(s, r) \in Scan
<1> DEFINE k == Len(es) + 1
           more == Append(es, r)
           n == AfterReceipt(s, r)
           id == EventId[r.content]
<1>1. r \in Entries /\ r # Garbage
  BY LedgerAssumption DEF Entries
<1>2. /\ k \notin DOMAIN es
      /\ more # <<>> /\ Len(more) = k /\ more[k] = r
      /\ \A i \in DOMAIN es : i # k /\ more[i] = es[i]
      /\ Good(more) = Good(es) \cup {k}
  BY <1>1, Grown
<1>3. \A i \in Good(es) : i \in DOMAIN es /\ i # k /\ more[i] = es[i]
  BY <1>2 DEF Good
<1>4. /\ r.content \in Contents /\ r.digest \in Digests \cup {Junk} /\ r.digest # Genesis
      /\ r.link \in Digests \cup {Junk}
  BY LedgerAssumption, EmptySeq DEF Receipt, Genesis, Digests
<1>5. Clean(n) <=> Clean(s) /\ r.shape /\ r.link # Junk /\ r.digest # Junk /\ ~Splices(s, r)
  BY DEF Clean, AfterReceipt
<1>6. /\ n.previous = r.digest
      /\ n.seen = s.seen \cup {id}
      /\ n.duplicate <=> s.duplicate \/ id = NoId \/ id \in s.seen
  BY DEF AfterReceipt, Notes
<1>7. n \in Scan
  <2>1. s.seen \cup {id} \in SUBSET {EventId[x] : x \in Contents}
    BY <1>4 DEF Scan
  <2>2. s.malformed \in BOOLEAN
    BY DEF Scan
  <2>3. r.digest \in Digests \cup {Junk}
    BY <1>4
  <2> QED
    BY <2>1, <2>2, <2>3 DEF AfterReceipt, Notes, Scan
<1> HIDE DEF k, more, n, id
<1>8. n.previous = LastDigest(more)
  BY <1>1, <1>2, <1>6 DEF LastDigest
<1>9. ASSUME Clean(n) PROVE n.previous \in Digests /\ more = Unfold(n.previous)
  <2>1. s.previous \in Digests /\ es = Unfold(s.previous)
    BY <1>5, <1>9 DEF Reads
  <2>2. r.link = s.previous /\ r.digest = Append(s.previous, r.content) /\ r.shape
    BY <1>5, <1>9 DEF Splices, Hash
  <2>3. r = Continue(s.previous, r.content)
    BY <2>1, <2>2, RecordOfReceipt
  <2>4. /\ Append(s.previous, r.content) \in Digests
        /\ Unfold(Append(s.previous, r.content)) = Append(es, Continue(s.previous, r.content))
    BY <1>4, <2>1, UnfoldAppend
  <2> QED
    BY <1>6, <2>2, <2>3, <2>4 DEF more
<1>10. ASSUME n.previous \in Digests, more = Unfold(n.previous) PROVE Clean(n)
  <2>1. PICK d \in Digests, c \in Contents : r.digest = Append(d, c)
    <3> DEFINE d == r.digest
    <3>1. d \in Seq(Contents) /\ d # <<>>
      BY <1>4, <1>6, <1>10 DEF Digests, Genesis
    <3> HIDE DEF d
    <3>2. \E e \in Seq(Contents), c \in Contents : d = Append(e, c)
      BY <3>1, SequenceEmptyOrAppend
    <3> QED
      BY <3>2 DEF d, Digests
  <2>2. /\ Continue(d, c) \in Receipt
        /\ Append(es, r) = Append(Unfold(d), Continue(d, c))
    BY <1>6, <1>10, <2>1, UnfoldAppend DEF more
  <2>3. es = Unfold(d) /\ r = Continue(d, c)
    <3>1. Unfold(d) \in Seq(Entries)
      BY UnfoldType, SeqMonotonic DEF Entries
    <3>2. Continue(d, c) \in Entries
      BY <2>2 DEF Entries
    <3> QED
      BY <1>1, <2>2, <3>1, <3>2, AppendInjective
  <2>4. s.previous = d /\ Clean(s)
    BY <2>3, LastOfUnfold DEF Reads
  <2>5. r.shape /\ r.link = d /\ r.digest = Append(d, r.content)
    BY <2>3 DEF Continue
  <2>6. d # Junk /\ r.digest # Junk
    BY <1>6, <1>10, LedgerAssumption
  <2> QED
    BY <1>5, <2>4, <2>5, <2>6 DEF Splices, Hash
<1>11. n.seen = {EventId[more[i].content] : i \in Good(more)}
  <2>1. {EventId[more[i].content] : i \in Good(more)}
          = {EventId[es[i].content] : i \in Good(es)} \cup {EventId[r.content]}
    BY <1>2, <1>3
  <2> QED
    BY <1>6, <2>1 DEF Reads, id
<1>12. n.duplicate <=> Repeats(more)
  <2>1. id \in s.seen <=> \E i \in Good(es) : EventId[es[i].content] = id
    BY DEF Reads
  <2>2. (\E i \in Good(more) : EventId[more[i].content] = NoId)
          <=> (\E i \in Good(es) : EventId[es[i].content] = NoId) \/ id = NoId
    BY <1>2, <1>3 DEF id
  <2>3. (\E i, j \in Good(more) : i # j /\ EventId[more[i].content] = EventId[more[j].content])
          <=> \/ \E i, j \in Good(es) : i # j /\ EventId[es[i].content] = EventId[es[j].content]
              \/ \E i \in Good(es) : EventId[es[i].content] = id
    BY <1>2, <1>3 DEF id
  <2>4. s.duplicate <=> Repeats(es)
    BY DEF Reads
  <2>5. Repeats(more) <=> Repeats(es) \/ id = NoId \/ id \in s.seen
    BY <2>1, <2>2, <2>3 DEF Repeats
  <2> QED
    BY <1>6, <2>4, <2>5
<1> QED
  BY <1>7, <1>8, <1>9, <1>10, <1>11, <1>12 DEF Reads, more, n

(***************************************************************************)
(* A chain that reads clean and without repetition is a history unfolded.  *)
(***************************************************************************)
LEMMA CleanTells ==
  ASSUME NEW d \in Digests
  PROVE  Telling(d) <=> Unfold(d) # <<>> /\ ~Repeats(Unfold(d))
<1> DEFINE u == Unfold(d)
<1>1. u \in Seq(Receipt) /\ DOMAIN u = 1 .. Len(d) /\ Len(u) = Len(d)
  BY UnfoldType
<1>2. Len(d) \in Nat /\ DOMAIN d = 1 .. Len(d)
  BY LenProperties DEF Digests
<1>3. \A i \in 1 .. Len(d) : u[i].content = d[i]
  BY DEF Unfold
<1> HIDE DEF u
<1>4. d # Genesis <=> u # <<>>
  BY <1>1, EmptySeq DEF Genesis, Digests
<1>5. \A i \in 1 .. Len(d) : u[i] # Garbage
  BY <1>1, ElementOfSeq, LedgerAssumption
<1>6. Good(u) = DOMAIN d
  BY <1>1, <1>2, <1>5 DEF Good
<1>7. Repeats(u) <=> \/ \E i \in DOMAIN d : EventId[d[i]] = NoId
                     \/ \E i, j \in DOMAIN d : i # j /\ EventId[d[i]] = EventId[d[j]]
  BY <1>2, <1>3, <1>6 DEF Repeats
<1> QED
  BY <1>4, <1>7 DEF Telling, u

(***************************************************************************)
(* The inductive invariant.                                                *)
(***************************************************************************)
AllRead == \A t \in Threads : Reads(chain[t], scan[t])

Locked == \A t \in Threads :
  pc[t] \in {"scan", "known"} /\ EntersLocked(purpose[t]) => lock = t

\* What verify read under the lock is still so: provisioned chains stay, and
\* a consumer is alone.
Known == \A t \in Threads : pc[t] = "known" =>
  /\ Sound(t)
  /\ found[t].issued => Knows(t)
  /\ purpose[t] = "consume" /\ ~found[t].replayed => Terminal(t) \notin spent

Provisioned == \A d \in DOMAIN issued : d \in Digests /\ issued[d] = Unfold(d)

Imported ==
  /\ \A i \in DOMAIN imports : \E d \in spent : imports[i] = Unfold(d)
  /\ \A i, j \in DOMAIN imports : imports[i] = imports[j] => i = j

LedgerInv == TypeOK /\ AllRead /\ Locked /\ Known /\ Provisioned /\ Imported

\* What a sound chain is, from what the loop's locals say.
LEMMA SoundUnfolds ==
  ASSUME TypeOK, AllRead, NEW t \in Threads
  PROVE  Sound(t) <=> /\ Terminal(t) \in Digests
                      /\ Telling(Terminal(t))
                      /\ chain[t] = Unfold(Terminal(t))
<1>1. Reads(chain[t], scan[t]) /\ scan[t] \in Scan
  BY DEF AllRead, TypeOK
<1>2. Sound(t) <=> chain[t] # <<>> /\ Clean(scan[t]) /\ ~scan[t].duplicate
  BY DEF Sound, Clean
<1>3. Sound(t) <=> /\ Terminal(t) \in Digests
                   /\ chain[t] = Unfold(Terminal(t))
                   /\ chain[t] # <<>> /\ ~Repeats(chain[t])
  BY <1>1, <1>2 DEF Reads, Terminal
<1> QED
  BY <1>3, CleanTells

LEMMA SoundType ==
  ASSUME TypeOK, AllRead, NEW t \in Threads, Sound(t)
  PROVE  /\ Terminal(t) \in Digests \ {Genesis}
         /\ chain[t] = Unfold(Terminal(t))
         /\ chain[t] \in Seq(Receipt)
  BY SoundUnfolds, UnfoldType DEF Telling

LEMMA FreshIsScan == FreshScan \in Scan
<1>1. Genesis \in Digests
  BY EmptySeq DEF Genesis, Digests
<1> QED
  BY <1>1 DEF FreshScan, Scan

LEMMA LedgerInit == Init => LedgerInv
<1> SUFFICES ASSUME Init PROVE LedgerInv
  OBVIOUS
<1>1. DOMAIN issued = {} /\ DOMAIN imports = {}
  BY EmptySeq DEF Init
<1>2. TypeOK
  <2>1. \A S : <<>> \in Seq(S)
    BY EmptySeq
  <2> QED
    BY <1>1, <2>1, FreshIsScan DEF Init, TypeOK, Purposes, NotFound
<1>3. AllRead
  BY FreshReads DEF Init, AllRead
<1>4. Locked /\ Known
  BY DEF Init, Locked, Known
<1>5. Provisioned /\ Imported
  BY <1>1 DEF Provisioned, Imported
<1> QED
  BY <1>2, <1>3, <1>4, <1>5 DEF LedgerInv

\* A call that returns leaves the other threads' knowledge true, provided that
\* provisioned chains stay and only a consumer spends.
LEMMA ReturnKeeps ==
  ASSUME LedgerInv, NEW t \in Threads, Return(t),
         DOMAIN issued \subseteq DOMAIN issued', \A d \in DOMAIN issued : issued'[d] = issued[d],
         spent' = spent \/ (pc[t] = "known" /\ purpose[t] = "consume")
  PROVE  AllRead' /\ Locked' /\ Known'
<1>1. \A u \in Threads : u # t =>
        /\ pc'[u] = pc[u] /\ purpose'[u] = purpose[u] /\ chain'[u] = chain[u]
        /\ scan'[u] = scan[u] /\ found'[u] = found[u]
  BY DEF LedgerInv, TypeOK, Return, Goto
<1>2. pc'[t] = "idle" /\ chain'[t] = <<>> /\ scan'[t] = FreshScan
  BY DEF LedgerInv, TypeOK, Return, Goto
<1>3. AllRead'
  BY <1>1, <1>2, FreshReads DEF LedgerInv, AllRead
<1>4. Locked'
  <2> SUFFICES ASSUME NEW u \in Threads, pc'[u] \in {"scan", "known"}, EntersLocked(purpose'[u])
               PROVE  lock' = u
    BY DEF Locked, EntersLocked
  <2>1. u # t
    BY <1>2
  <2>2. lock = u
    BY <1>1, <2>1 DEF LedgerInv, Locked
  <2> QED
    BY <2>1, <2>2 DEF Return
<1>5. Known'
  <2> SUFFICES ASSUME NEW u \in Threads, pc'[u] = "known"
               PROVE  /\ Sound(u)'
                      /\ found'[u].issued => Knows(u)'
                      /\ purpose'[u] = "consume" /\ ~found'[u].replayed => Terminal(u)' \notin spent'
    BY DEF Known
  <2>1. u # t
    BY <1>2
  <2>2. Sound(u)
    BY <1>1, <2>1 DEF LedgerInv, Known
  <2>3. Sound(u)' /\ Terminal(u)' = Terminal(u)
    BY <1>1, <2>1, <2>2 DEF Sound, Terminal
  <2>4. ASSUME found'[u].issued PROVE Knows(u)'
    <3>1. Knows(u)
      BY <1>1, <2>1, <2>4 DEF LedgerInv, Known
    <3> QED
      BY <1>1, <2>1, <2>3, <3>1 DEF Knows
  <2>5. ASSUME purpose'[u] = "consume", ~found'[u].replayed PROVE Terminal(u)' \notin spent'
    <3>1. lock = u /\ Terminal(u) \notin spent
      BY <1>1, <2>1, <2>5 DEF LedgerInv, Known, Locked, EntersLocked
    <3>2. ~(pc[t] = "known" /\ purpose[t] = "consume")
      BY <2>1, <3>1 DEF LedgerInv, Locked, EntersLocked
    <3> QED
      BY <2>3, <3>1, <3>2
  <2> QED
    BY <2>3, <2>4, <2>5
<1> QED
  BY <1>3, <1>4, <1>5

\* The types of what a returning call resets.
LEMMA ReturnTypes ==
  ASSUME TypeOK, NEW t \in Threads, Return(t)
  PROVE  /\ lock' \in Threads \cup {NoThread}
         /\ pc' \in [Threads -> {"idle", "scan", "known"}]
         /\ purpose' \in [Threads -> Purposes]
         /\ chain' \in [Threads -> Seq(Receipt \cup {Garbage})]
         /\ scan' \in [Threads -> Scan]
         /\ found' \in [Threads -> [issued : BOOLEAN, replayed : BOOLEAN]]
<1>1. <<>> \in Seq(Receipt \cup {Garbage})
  BY EmptySeq
<1> QED
  BY <1>1, FreshIsScan DEF TypeOK, Return, Goto, Purposes, NotFound

LEMMA EnterKeeps ==
  ASSUME LedgerInv, NEW t \in Threads, NEW p \in Purposes, Enter(t, p)
  PROVE  LedgerInv'
<1>1. TypeOK'
  BY DEF LedgerInv, TypeOK, Enter, Goto, ledgerVars
<1>2. AllRead'
  BY DEF LedgerInv, AllRead, Enter
<1>3. Locked'
  <2> SUFFICES ASSUME NEW u \in Threads, pc'[u] \in {"scan", "known"}, EntersLocked(purpose'[u])
               PROVE  lock' = u
    BY DEF Locked, EntersLocked
  <2>1. CASE u = t
    BY <2>1 DEF LedgerInv, TypeOK, Enter
  <2>2. CASE u # t
    <3>1. lock = u
      BY <2>2 DEF LedgerInv, TypeOK, Locked, Enter, Goto
    <3> QED
      BY <3>1, LedgerAssumption DEF Enter
  <2> QED
    BY <2>1, <2>2
<1>4. Known'
  <2> SUFFICES ASSUME NEW u \in Threads, pc'[u] = "known"
               PROVE  /\ Sound(u)'
                      /\ found'[u].issued => Knows(u)'
                      /\ purpose'[u] = "consume" /\ ~found'[u].replayed => Terminal(u)' \notin spent'
    BY DEF Known
  <2>1. u # t /\ pc[u] = "known" /\ purpose'[u] = purpose[u]
    BY DEF LedgerInv, TypeOK, Enter, Goto
  <2>2. UNCHANGED <<chain, scan, found, issued, spent>>
    BY DEF Enter, ledgerVars
  <2> QED
    BY <2>1, <2>2 DEF LedgerInv, Known, Sound, Knows, Terminal
<1>5. Provisioned' /\ Imported'
  BY DEF LedgerInv, Provisioned, Imported, Enter, ledgerVars
<1> QED
  BY <1>1, <1>2, <1>3, <1>4, <1>5 DEF LedgerInv

LEMMA ReadKeeps ==
  ASSUME LedgerInv, NEW t \in Threads, NEW r \in Presentable, Read(t, r)
  PROVE  LedgerInv'
<1> DEFINE n == IF r = Garbage THEN AfterGarbage(scan[t]) ELSE AfterReceipt(scan[t], r)
<1>1. r \in Entries /\ chain[t] \in Seq(Entries) /\ scan[t] \in Scan
  BY LedgerAssumption DEF LedgerInv, TypeOK, Entries
<1>2. Reads(Append(chain[t], r), n) /\ n \in Scan
  BY <1>1, GarbageReads, ReceiptReads DEF LedgerInv, AllRead, Entries
<1>3. Append(chain[t], r) \in Seq(Receipt \cup {Garbage})
  BY <1>1, AppendProperties DEF Entries
<1> HIDE DEF n
<1>4. /\ chain' = [chain EXCEPT ![t] = Append(@, r)]
      /\ scan' = [scan EXCEPT ![t] = n]
      /\ UNCHANGED <<ledgerVars, lock, pc, purpose, found>>
      /\ pc[t] = "scan"
  BY DEF Read, n
<1>5. TypeOK'
  BY <1>2, <1>3, <1>4 DEF LedgerInv, TypeOK, ledgerVars
<1>6. AllRead'
  BY <1>2, <1>4 DEF LedgerInv, TypeOK, AllRead
<1>7. Locked'
  BY <1>4 DEF LedgerInv, Locked, EntersLocked
<1>8. Known'
  <2> SUFFICES ASSUME NEW u \in Threads, pc'[u] = "known"
               PROVE  /\ Sound(u)'
                      /\ found'[u].issued => Knows(u)'
                      /\ purpose'[u] = "consume" /\ ~found'[u].replayed => Terminal(u)' \notin spent'
    BY DEF Known
  <2>1. u # t /\ pc[u] = "known" /\ chain'[u] = chain[u] /\ scan'[u] = scan[u]
    BY <1>4 DEF LedgerInv, TypeOK
  <2>2. UNCHANGED <<purpose, found, issued, spent>>
    BY <1>4 DEF ledgerVars
  <2> QED
    BY <2>1, <2>2 DEF LedgerInv, Known, Sound, Knows, Terminal
<1>9. Provisioned' /\ Imported'
  BY <1>4 DEF LedgerInv, Provisioned, Imported, ledgerVars
<1> QED
  BY <1>5, <1>6, <1>7, <1>8, <1>9 DEF LedgerInv

LEMMA LookupKeeps ==
  ASSUME LedgerInv, NEW t \in Threads, Lookup(t)
  PROVE  LedgerInv'
<1> DEFINE k == Knows(t)
           y == Terminal(t) \in spent
           f == [issued |-> k, replayed |-> y]
<1>1. k \in BOOLEAN /\ y \in BOOLEAN
  BY DEF Knows
<1>2. found' = [found EXCEPT ![t] = f]
  BY DEF Lookup
<1>3. f \in [issued : BOOLEAN, replayed : BOOLEAN] /\ f.issued = k /\ f.replayed = y
  <2> HIDE DEF k, y
  <2> QED
    BY <1>1
<1>4. TypeOK'
  <2> HIDE DEF f
  <2>1. found' \in [Threads -> [issued : BOOLEAN, replayed : BOOLEAN]]
    BY <1>2, <1>3 DEF LedgerInv, TypeOK
  <2> QED
    BY <2>1 DEF LedgerInv, TypeOK, Lookup, Goto, ledgerVars
<1>5. AllRead' /\ Provisioned' /\ Imported'
  BY DEF LedgerInv, AllRead, Provisioned, Imported, Lookup, ledgerVars
<1>6. Locked'
  BY DEF LedgerInv, TypeOK, Locked, EntersLocked, Lookup, Goto
<1>7. Known'
  <2> SUFFICES ASSUME NEW u \in Threads, pc'[u] = "known"
               PROVE  /\ Sound(u)'
                      /\ found'[u].issued => Knows(u)'
                      /\ purpose'[u] = "consume" /\ ~found'[u].replayed => Terminal(u)' \notin spent'
    BY DEF Known
  <2>1. UNCHANGED <<purpose, chain, scan, issued, spent>>
    BY DEF Lookup, ledgerVars
  <2>2. CASE u = t
    <3>1. Sound(t)
      BY DEF Lookup
    <3>2. (found'[t].issued <=> Knows(t)) /\ (found'[t].replayed <=> Terminal(t) \in spent)
      <4>1. found'[t] = f
        <5> HIDE DEF f
        <5> QED
          BY <1>2 DEF LedgerInv, TypeOK
      <4>2. found'[t].issued = k /\ found'[t].replayed = y
        <5> HIDE DEF f, k, y
        <5> QED
          BY <1>3, <4>1
      <4> QED
        BY <4>2
    <3> QED
      BY <2>1, <2>2, <3>1, <3>2 DEF Sound, Knows, Terminal
  <2>3. CASE u # t
    <3>1. pc[u] = "known" /\ found'[u] = found[u]
      BY <2>3 DEF LedgerInv, TypeOK, Lookup, Goto
    <3> QED
      BY <2>1, <3>1 DEF LedgerInv, Known, Sound, Knows, Terminal
  <2> QED
    BY <2>2, <2>3
<1> QED
  BY <1>4, <1>5, <1>6, <1>7 DEF LedgerInv

LEMMA RejectKeeps ==
  ASSUME LedgerInv, NEW t \in Threads, Reject(t)
  PROVE  LedgerInv'
<1>1. AllRead' /\ Locked' /\ Known'
  BY ReturnKeeps DEF Reject
<1>2. TypeOK'
  BY ReturnTypes DEF Reject, LedgerInv, TypeOK
<1>3. Provisioned' /\ Imported'
  BY DEF LedgerInv, Provisioned, Imported, Reject
<1> QED
  BY <1>1, <1>2, <1>3 DEF LedgerInv

LEMMA AnswerKeeps ==
  ASSUME LedgerInv, NEW t \in Threads, Answer(t)
  PROVE  LedgerInv'
<1>1. AllRead' /\ Locked' /\ Known'
  BY ReturnKeeps DEF Answer, ledgerVars
<1>2. TypeOK'
  BY ReturnTypes DEF Answer, LedgerInv, TypeOK, ledgerVars
<1>3. Provisioned' /\ Imported'
  BY DEF LedgerInv, Provisioned, Imported, Answer, ledgerVars
<1> QED
  BY <1>1, <1>2, <1>3 DEF LedgerInv

LEMMA ProvisionKeeps ==
  ASSUME LedgerInv, NEW t \in Threads, Provision(t)
  PROVE  LedgerInv'
<1> DEFINE d == Terminal(t)
<1>1. d \in Digests \ {Genesis} /\ chain[t] = Unfold(d) /\ chain[t] \in Seq(Receipt)
  BY SoundType DEF LedgerInv, Provision
<1> HIDE DEF d
<1>2. /\ DOMAIN issued' = DOMAIN issued \cup {d}
      /\ \A x \in DOMAIN issued : issued'[x] = issued[x]
      /\ d \notin DOMAIN issued => issued'[d] = chain[t]
  BY DEF Provision, d
<1>3. AllRead' /\ Locked' /\ Known'
  BY <1>2, ReturnKeeps DEF Provision
<1>4. TypeOK'
  BY <1>1, <1>2, ReturnTypes DEF Provision, LedgerInv, TypeOK
<1>5. Provisioned'
  BY <1>1, <1>2 DEF LedgerInv, Provisioned
<1>6. Imported'
  BY DEF LedgerInv, Imported, Provision
<1> QED
  BY <1>3, <1>4, <1>5, <1>6 DEF LedgerInv

\* A chain whose terminal is unspent was not imported: a digest commits to one
\* chain.
LEMMA UnspentIsNotImported ==
  ASSUME LedgerInv, NEW t \in Threads, Sound(t), Terminal(t) \notin spent
  PROVE  \A i \in DOMAIN imports : imports[i] # chain[t]
<1> SUFFICES ASSUME NEW i \in DOMAIN imports, imports[i] = chain[t] PROVE FALSE
  OBVIOUS
<1>1. Terminal(t) \in Digests /\ chain[t] = Unfold(Terminal(t))
  BY SoundType DEF LedgerInv
<1>2. PICK e \in spent : imports[i] = Unfold(e)
  BY DEF LedgerInv, Imported
<1>3. e \in Digests
  BY <1>2 DEF LedgerInv, TypeOK
<1> QED
  BY <1>1, <1>2, <1>3, UnfoldInjective

LEMMA SpendKeeps ==
  ASSUME LedgerInv, NEW t \in Threads, Spend(t)
  PROVE  LedgerInv'
<1> DEFINE d == Terminal(t)
<1>1. Sound(t) /\ Knows(t) /\ d \notin spent
  BY DEF LedgerInv, Known, Spend, Valid
<1>2. d \in Digests \ {Genesis} /\ chain[t] = Unfold(d) /\ chain[t] \in Seq(Receipt) /\ d \in DOMAIN issued
  BY <1>1, SoundType DEF LedgerInv, Knows
<1> HIDE DEF d
<1>3. spent' = spent \cup {d} /\ issued' = issued /\ imports' = Append(imports, chain[t])
  BY DEF Spend, d
<1>4. AllRead' /\ Locked' /\ Known'
  BY ReturnKeeps DEF Spend
<1>5. imports \in Seq(Seq(Receipt))
  BY DEF LedgerInv, TypeOK
<1>6. /\ imports' \in Seq(Seq(Receipt)) /\ Len(imports') = Len(imports) + 1 /\ Len(imports) \in Nat
      /\ \A i \in 1 .. Len(imports) : imports'[i] = imports[i]
      /\ imports'[Len(imports) + 1] = chain[t]
      /\ DOMAIN imports = 1 .. Len(imports) /\ DOMAIN imports' = 1 .. Len(imports) + 1
  BY <1>2, <1>3, <1>5, AppendProperties, LenProperties
<1>7. TypeOK'
  BY <1>2, <1>3, <1>6, ReturnTypes DEF Spend, LedgerInv, TypeOK
<1>8. Provisioned'
  BY <1>3 DEF LedgerInv, Provisioned
<1>9. \A i \in DOMAIN imports : imports[i] # chain[t]
  BY <1>1, UnspentIsNotImported DEF d
<1>10. Imported'
  <2>1. \A i \in DOMAIN imports' : \E e \in spent' : imports'[i] = Unfold(e)
    BY <1>2, <1>3, <1>6 DEF LedgerInv, Imported
  <2>2. ASSUME NEW i \in DOMAIN imports', NEW j \in DOMAIN imports', imports'[i] = imports'[j]
        PROVE  i = j
    BY <1>6, <1>9, <2>2 DEF LedgerInv, Imported
  <2> QED
    BY <2>1, <2>2 DEF Imported
<1> QED
  BY <1>4, <1>7, <1>8, <1>10 DEF LedgerInv

THEOREM LedgerInvariant == Spec => []LedgerInv
<1>1. LedgerInv /\ [Next]_vars => LedgerInv'
  <2> SUFFICES ASSUME LedgerInv, [Next]_vars PROVE LedgerInv'
    OBVIOUS
  <2>1. CASE UNCHANGED vars
    BY <2>1 DEF vars, ledgerVars, LedgerInv, TypeOK, AllRead, Locked, EntersLocked, Known, Sound,
                Knows, Terminal, Provisioned, Imported
  <2>2. CASE Serve
    BY <2>2 DEF Serve, LedgerInv, TypeOK, AllRead, Locked, EntersLocked, Known, Sound,
                Knows, Terminal, Provisioned, Imported
  <2>3. ASSUME NEW t \in Threads, Step(t) PROVE LedgerInv'
    BY <2>3, EnterKeeps, ReadKeeps, RejectKeeps, ProvisionKeeps, LookupKeeps, SpendKeeps,
       AnswerKeeps DEF Step
  <2> QED
    BY <2>1, <2>2, <2>3 DEF Next
<1> QED
  BY <1>1, LedgerInit, PTL DEF Spec

\* Every variable keeps its type.
THEOREM TypeCorrect == Spec => []TypeOK
<1>1. LedgerInv => TypeOK
  BY DEF LedgerInv
<1> QED
  BY <1>1, LedgerInvariant, PTL

\* The loop passes a chain exactly when its terminal digest tells a history and
\* the chain is that history unfolded (state.py _verify_structure).
THEOREM SoundnessIsUnfolding == Spec => []SoundIsUnfolded
<1>1. LedgerInv => SoundIsUnfolded
  BY SoundUnfolds DEF LedgerInv, SoundIsUnfolded
<1> QED
  BY <1>1, LedgerInvariant, PTL

\* The constructor never finds two chains under one terminal: the error it
\* guards with cannot be provoked by sound seeds (state.py __init__).
TerminalsAreUnique ==
  \A t \in Threads : pc[t] = "scan" /\ Sound(t) /\ Terminal(t) \in DOMAIN issued =>
    issued[Terminal(t)] = chain[t]

\* Sound seeds never collide on a terminal (state.py __init__).
THEOREM SeedsAreUnique == Spec => []TerminalsAreUnique
<1>1. LedgerInv => TerminalsAreUnique
  BY SoundType DEF LedgerInv, TerminalsAreUnique, Provisioned
<1> QED
  BY <1>1, LedgerInvariant, PTL

\* Whatever was imported was provisioned, receipt for receipt, and was imported
\* once, however many threads presented it.
ImportedOnce ==
  /\ \A i \in DOMAIN imports : \E d \in DOMAIN issued : issued[d] = imports[i]
  /\ \A i, j \in DOMAIN imports : imports[i] = imports[j] => i = j

\* Every import was provisioned and happened once (state.py consume).
THEOREM ImportsAreOnce == Spec => []ImportedOnce
<1>1. LedgerInv => ImportedOnce
  <2> SUFFICES ASSUME LedgerInv PROVE ImportedOnce
    OBVIOUS
  <2>1. ASSUME NEW i \in DOMAIN imports PROVE \E d \in DOMAIN issued : issued[d] = imports[i]
    <3>1. PICK d \in spent : imports[i] = Unfold(d)
      BY DEF LedgerInv, Imported
    <3>2. d \in DOMAIN issued /\ issued[d] = Unfold(d)
      BY DEF LedgerInv, TypeOK, Provisioned
    <3> QED
      BY <3>1, <3>2
  <2> QED
    BY <2>1 DEF LedgerInv, Imported, ImportedOnce
<1> QED
  BY <1>1, LedgerInvariant, PTL

(***************************************************************************)
(* The ledger implements AuthorityStore.  The linearization points are the *)
(* two lookups under the lock for a verdict and the addition to _spent for *)
(* a consumption.                                                          *)
(***************************************************************************)
\* Seeds are laid in while the ledger is being built, and it serves, and so
\* imports, only when that is over.
Staged ==
  /\ stage = "building" => imports = <<>>
  /\ \A t \in Threads : pc[t] # "idle" =>
       stage = IF purpose[t] = "seed" THEN "building" ELSE "serving"

\* A step of one thread leaves the others where they are.
Others(t) == \A u \in Threads \ {t} :
  /\ pc'[u] = pc[u] /\ purpose'[u] = purpose[u]
  /\ chain'[u] = chain[u] /\ found'[u] = found[u]

LEMMA ReturnIsLocal ==
  ASSUME TypeOK, NEW t \in Threads, Return(t)
  PROVE  Others(t) /\ pc'[t] = "idle"
  BY DEF TypeOK, Others, Return, Goto

LEMMA StepsAreLocal ==
  ASSUME TypeOK, NEW t \in Threads, Step(t)
  PROVE  Others(t)
<1>1. CASE \E p \in Purposes : Enter(t, p)
  BY <1>1 DEF TypeOK, Others, Enter, Goto
<1>2. CASE \E r \in Presentable : Read(t, r)
  BY <1>2 DEF TypeOK, Others, Read
<1>3. CASE Lookup(t)
  BY <1>3 DEF TypeOK, Others, Lookup, Goto
<1> QED
  BY <1>1, <1>2, <1>3, ReturnIsLocal DEF Step, Reject, Provision, Spend, Answer

LEMMA StagedInvariant == Spec => []Staged
<1>1. Init => Staged
  BY DEF Init, Staged
<1>2. LedgerInv /\ Staged /\ [Next]_vars => Staged'
  <2> SUFFICES ASSUME LedgerInv, Staged, [Next]_vars PROVE Staged'
    OBVIOUS
  <2>1. CASE UNCHANGED vars
    BY <2>1 DEF vars, ledgerVars, Staged
  <2>2. CASE Serve
    \* Whoever seeds holds the lock.
    <3>1. \A u \in Threads : pc[u] = "idle"
      BY <2>2, LedgerAssumption DEF Serve, Staged, LedgerInv, TypeOK, Locked, EntersLocked
    <3> QED
      BY <2>2, <3>1 DEF Serve, Staged
  <2>3. ASSUME NEW t \in Threads, Step(t) PROVE Staged'
    <3>1. Others(t)
      BY <2>3, StepsAreLocal DEF LedgerInv
    <3>2. CASE \E p \in Purposes : Enter(t, p)
      <4>1. PICK p \in Purposes : Enter(t, p)
        BY <3>2
      <4>2. /\ stage = IF p = "seed" THEN "building" ELSE "serving"
            /\ purpose'[t] = p /\ stage' = stage /\ imports' = imports
        BY <4>1 DEF Enter, ledgerVars, LedgerInv, TypeOK
      <4> QED
        BY <3>1, <4>2 DEF Staged, Others
    <3>3. CASE (\E r \in Presentable : Read(t, r)) \/ Lookup(t)
      <4>1. stage' = stage /\ imports' = imports /\ purpose' = purpose /\ pc[t] # "idle"
        BY <3>3 DEF Read, Lookup, ledgerVars
      <4> QED
        BY <3>1, <4>1 DEF Staged, Others
    <3>4. CASE Answer(t)
      <4>1. stage' = stage /\ imports' = imports /\ pc'[t] = "idle"
        BY <3>4, ReturnIsLocal DEF Answer, ledgerVars, LedgerInv
      <4> QED
        BY <3>1, <4>1 DEF Staged, Others
    <3>5. CASE Spend(t)
      <4>1. stage' = stage /\ stage = "serving" /\ pc'[t] = "idle"
        BY <3>5, ReturnIsLocal DEF Spend, LedgerInv, Staged
      <4> QED
        BY <3>1, <4>1 DEF Staged, Others
    <3>6. CASE Reject(t) \/ Provision(t)
      <4>1. /\ imports' = imports /\ pc'[t] = "idle" /\ pc[t] = "scan"
            /\ stage' = stage \/ (stage' = "refused" /\ purpose[t] = "seed")
        BY <3>6, ReturnIsLocal DEF Reject, Provision, LedgerInv
      <4>2. purpose[t] = "seed" => \A u \in Threads \ {t} : pc[u] = "idle"
        BY <4>1 DEF Staged, LedgerInv, TypeOK, Locked, EntersLocked
      <4> QED
        BY <3>1, <4>1, <4>2 DEF Staged, Others
    <3> QED
      BY <2>3, <3>2, <3>3, <3>4, <3>5, <3>6 DEF Step
  <2> QED
    BY <2>1, <2>2, <2>3 DEF Next
<1> QED
  BY <1>1, <1>2, LedgerInvariant, PTL DEF Spec

\* What an observer of the store sees of the ledger.
Held == {{issued[d]} : d \in DOMAIN issued}
Taken == [i \in DOMAIN imports |-> {imports[i]}]
Told(t) ==
  IF pc[t] = "known" /\ purpose[t] # "consume" /\ Valid(t)
  THEN {[holding |-> {chain[t]}, fresh |-> purpose[t] = "authorize"]}
  ELSE {}
Words == [t \in Threads |-> Told(t)]

LEMMA NothingTaken ==
  ASSUME imports = <<>>
  PROVE  Taken = <<>>
<1>1. DOMAIN <<>> = {}
  BY EmptySeq
<1> QED
  BY <1>1 DEF Taken

LEMMA OthersKeepTheirWord ==
  ASSUME NEW t \in Threads, Others(t)
  PROVE  Words' = [Words EXCEPT ![t] = Told(t)']
<1>1. ASSUME NEW u \in Threads \ {t} PROVE Told(u)' = Told(u)
  BY DEF Others, Told, Valid
<1> QED
  BY <1>1 DEF Words

LEMMA SpentIsImported ==
  ASSUME NEW x
  PROVE  x \in Store!Spent <=> \E i \in DOMAIN imports : imports[i] = x
  BY DEF Store!Spent

\* A chain known and unspent is a holding of which nothing was taken.
LEMMA KnownIsHeld ==
  ASSUME LedgerInv, NEW t \in Threads, Sound(t), Knows(t)
  PROVE  /\ {chain[t]} \in Held
         /\ Terminal(t) \notin spent => {chain[t]} \cap Store!Spent = {}
<1>1. {chain[t]} \in Held
  BY DEF Knows, Held
<1>2. Terminal(t) \notin spent => chain[t] \notin Store!Spent
  BY UnspentIsNotImported, SpentIsImported
<1> QED
  BY <1>1, <1>2

LEMMA TakenGrows ==
  ASSUME LedgerInv, NEW x \in Seq(Receipt), imports' = Append(imports, x)
  PROVE  Taken' = Append(Taken, {x})
<1> DEFINE n == Len(imports)
           S == SUBSET Seq(Receipt)
<1>1. imports \in Seq(Seq(Receipt)) /\ n \in Nat /\ DOMAIN imports = 1 .. n
  BY LenProperties DEF LedgerInv, TypeOK
<1>2. /\ DOMAIN imports' = 1 .. n + 1
      /\ \A i \in 1 .. n : imports'[i] = imports[i]
      /\ imports'[n + 1] = x
  <2>1. Append(imports, x) \in Seq(Seq(Receipt)) /\ Len(Append(imports, x)) = n + 1
    BY <1>1, AppendProperties
  <2> QED
    BY <1>1, <2>1, AppendProperties, LenProperties
<1>3. \A i \in 1 .. n : imports[i] \in Seq(Receipt)
  BY <1>1, ElementOfSeq
<1> HIDE DEF n
<1>4. Taken \in [1 .. n -> S] /\ {x} \in S
  BY <1>1, <1>3 DEF Taken
<1>5. Taken \in Seq(S) /\ Len(Taken) = n
  <2>1. Taken \in Seq(S)
    BY <1>1, <1>4, SeqDef
  <2> QED
    BY <1>1, <1>4, <2>1, LenProperties
<1>6. /\ Append(Taken, {x}) \in Seq(S) /\ Len(Append(Taken, {x})) = n + 1
      /\ \A i \in 1 .. n : Append(Taken, {x})[i] = Taken[i]
      /\ Append(Taken, {x})[n + 1] = {x}
  BY <1>4, <1>5, AppendProperties
<1>7. Append(Taken, {x}) = [i \in 1 .. n + 1 |-> Append(Taken, {x})[i]]
  BY <1>1, <1>6, LenProperties
<1>8. \A i \in 1 .. n + 1 : Append(Taken, {x})[i] = {imports'[i]}
  BY <1>1, <1>2, <1>6 DEF Taken
<1>9. Taken' = [i \in 1 .. n + 1 |-> {imports'[i]}]
  BY <1>2 DEF Taken
<1> QED
  BY <1>7, <1>8, <1>9

\* A verdict formed: nothing, or the store's word on the chain, and for an
\* authorization while it was unspent.
LEMMA LookupStep ==
  ASSUME LedgerInv, NEW t \in Threads, Lookup(t)
  PROVE  [Store!Next]_(Store!storeVars)
<1>1. /\ Words' = [Words EXCEPT ![t] = Told(t)']
      /\ Words[t] = {} /\ Words \in [Threads -> {Told(u) : u \in Threads}]
  BY StepsAreLocal, OthersKeepTheirWord DEF LedgerInv, Step, Lookup, Words, Told
<1>2. UNCHANGED <<imports, issued, purpose, chain>> /\ Sound(t)
  BY DEF Lookup, ledgerVars
<1>3. found'[t].issued = Knows(t) /\ found'[t].replayed = (Terminal(t) \in spent)
  BY DEF Lookup, LedgerInv, TypeOK
<1>4. CASE Told(t)' = {}
  <2>1. Words' = Words
    BY <1>1, <1>4
  <2> QED
    BY <1>2, <2>1 DEF Store!storeVars, Words, Told
<1>5. CASE Told(t)' # {}
  <2>1. /\ Valid(t)'
        /\ Told(t)' = {[holding |-> {chain[t]}, fresh |-> purpose[t] = "authorize"]}
    BY <1>2, <1>5 DEF Told
  <2>2. Knows(t) /\ (purpose[t] = "authorize" => Terminal(t) \notin spent)
    BY <1>2, <1>3, <2>1 DEF Valid
  <2>3. {chain[t]} \in Held /\ (purpose[t] = "authorize" => {chain[t]} \cap Store!Spent = {})
    BY <1>2, <2>2, KnownIsHeld
  <2>4. CASE purpose[t] = "authorize"
    <3>1. Words' = [Words EXCEPT ![t] = {[holding |-> {chain[t]}, fresh |-> TRUE]}]
      BY <1>1, <2>1, <2>4
    <3>2. Store!Vouch(t, {chain[t]})
      BY <1>1, <1>2, <2>3, <2>4, <3>1 DEF Store!Vouch, Store!Tell, Words, Told, Held
    <3> QED
      BY <2>3, <3>2 DEF Store!Next, Held
  <2>5. CASE purpose[t] # "authorize"
    <3>1. Words' = [Words EXCEPT ![t] = {[holding |-> {chain[t]}, fresh |-> FALSE]}]
      BY <1>1, <2>1, <2>5
    <3>2. Store!Recognise(t, {chain[t]})
      BY <1>1, <1>2, <2>3, <3>1 DEF Store!Recognise, Store!Tell, Words, Told, Held
    <3> QED
      BY <2>3, <3>2 DEF Store!Next, Held
  <2> QED
    BY <2>4, <2>5
<1> QED
  BY <1>4, <1>5

LEMMA StoreStep ==
  ASSUME LedgerInv, Staged, [Next]_vars
  PROVE  [Store!Next]_(Store!storeVars)
<1>1. CASE UNCHANGED vars \/ Serve
  BY <1>1 DEF vars, ledgerVars, Serve, Store!storeVars, Valid
<1>2. ASSUME NEW t \in Threads, Step(t)
      PROVE  [Store!Next]_(Store!storeVars)
  <2>1. Words' = [Words EXCEPT ![t] = Told(t)'] /\ Words[t] = Told(t)
    BY <1>2, StepsAreLocal, OthersKeepTheirWord DEF LedgerInv, Words
  <2>2. CASE \/ \E p \in Purposes : Enter(t, p)
             \/ \E r \in Presentable : Read(t, r)
             \/ Reject(t)
    <3>1. Told(t) = {} /\ Told(t)' = {} /\ imports' = imports /\ issued' = issued
      BY <2>2, ReturnIsLocal DEF Enter, Read, Reject, Goto, ledgerVars, LedgerInv, TypeOK, Told
    <3>2. Words' = Words
      BY <2>1, <3>1 DEF Words
    <3> QED
      BY <3>1, <3>2 DEF Store!storeVars, Words, Told
  <2>3. CASE Provision(t)
    <3>1. Told(t) = {} /\ Told(t)' = {} /\ imports' = imports
      BY <2>3, ReturnIsLocal DEF Provision, LedgerInv, Told
    <3>2. Words' = Words
      BY <2>1, <3>1 DEF Words
    <3>3. imports = <<>> /\ Taken = <<>>
      <4>1. imports = <<>>
        BY <2>3 DEF Provision, Staged
      <4> QED
        BY <4>1, NothingTaken
    <3>4. \A d \in DOMAIN issued : d \in DOMAIN issued' /\ issued'[d] = issued[d]
      BY <2>3 DEF Provision
    <3>5. Held \subseteq Held'
      BY <3>4 DEF Held
    <3>6. Store!Provision
      BY <3>1, <3>2, <3>3, <3>5 DEF Store!Provision, Words, Told, Held, Taken
    <3> QED
      BY <3>6 DEF Store!Next
  <2>4. CASE Lookup(t)
    BY <2>4, LookupStep
  <2>5. CASE Spend(t)
    <3>1. Told(t) = {} /\ Told(t)' = {} /\ issued' = issued
      BY <2>5, ReturnIsLocal DEF Spend, LedgerInv, Told
    <3>2. Words' = Words
      BY <2>1, <3>1 DEF Words
    <3>3. Sound(t) /\ Knows(t) /\ Terminal(t) \notin spent
      BY <2>5 DEF LedgerInv, Known, Spend, Valid
    <3>4. {chain[t]} \in Held /\ {chain[t]} \cap Store!Spent = {}
      BY <3>3, KnownIsHeld
    <3>5. Taken' = Append(Taken, {chain[t]})
      BY <2>5, <3>3, SoundType, TakenGrows DEF Spend, LedgerInv
    <3>6. PICK h \in Held : h = {chain[t]}
      BY <3>4
    <3>7. Store!Consume(h)
      BY <3>1, <3>2, <3>4, <3>5, <3>6 DEF Store!Consume, Words, Told, Held, Taken
    <3> QED
      BY <3>6, <3>7 DEF Store!Next, Held
  <2>6. CASE Answer(t)
    <3>1. Told(t)' = {} /\ imports' = imports /\ issued' = issued
      BY <2>6, ReturnIsLocal DEF Answer, ledgerVars, LedgerInv, Told
    <3>2. Words' = [Words EXCEPT ![t] = {}]
      BY <2>1, <3>1
    <3>3. Store!Leave(t)
      BY <3>1, <3>2 DEF Store!Leave, Words, Told
    <3> QED
      BY <3>3 DEF Store!Next
  <2> QED
    BY <1>2, <2>2, <2>3, <2>4, <2>5, <2>6 DEF Step
<1> QED
  BY <1>1, <1>2 DEF Next

\* However many threads seed the ledger and present whatever receipts, callers
\* see a store whose holdings are the provisioned chains: one is imported once,
\* and vouched for only while it is not (state.py verify, consume).
THEOREM LedgerImplementsStore == Spec => ImplementsAuthorityStore
<1>1. Init => Store!Init
  <2>1. ASSUME Init PROVE Taken = <<>>
    BY <2>1, NothingTaken DEF Init
  <2> QED
    BY <2>1 DEF Init, Store!Init, Taken
<1> QED
  BY <1>1, StoreStep, LedgerInvariant, StagedInvariant, PTL
     DEF Spec, ImplementsAuthorityStore, Store!Spec
=============================================================================
