----------------------------- MODULE ReceiptChain -----------------------------
(***************************************************************************)
(* The receipt ledger of agentgym/state.py.  A replay import presents a    *)
(* chain of receipts, each carrying the digest of its own body and a link  *)
(* to the digest before it.  The constructor provisions the trusted        *)
(* chains; afterwards a chain is valid when it is well formed, was         *)
(* provisioned, and its last digest has not been consumed.                 *)
(*                                                                         *)
(* A digest is a hash of a body that contains the preceding digest, so a   *)
(* digest is represented by the sequence of contents it commits to: the    *)
(* hash of a link and a content is the link with the content appended, and *)
(* "genesis" is the empty sequence.  Injectivity of the hash is all that   *)
(* is assumed of it.                                                       *)
(***************************************************************************)
EXTENDS Naturals, Sequences

CONSTANTS
  Threads,      \* concurrent callers of one ledger
  NoThread,     \* nobody holds the lock
  Contents,     \* what a receipt says apart from its link and its digest
  EventId,      \* [Contents -> ids]: the event the content is about
  NoId,         \* an event id that is missing, empty or not a text
  Junk,         \* a link or digest field that is no digest
  Garbage,      \* a receipt that is not a mapping
  Presentable,  \* the receipts callers present
  MaxReceipts   \* bound: receipts in one presentation

Digests == Seq(Contents)
Genesis == <<>>
\* shape: exactly the known fields, the schema, a known kind, a payload hash.
Receipt == [content : Contents, shape : BOOLEAN, link : Digests \cup {Junk},
            digest : (Digests \ {Genesis}) \cup {Junk}]

ASSUME LedgerAssumption ==
  /\ NoThread \notin Threads
  /\ Junk \notin Digests
  /\ Garbage \notin Receipt
  /\ Presentable \subseteq Receipt \cup {Garbage}
  /\ MaxReceipts \in Nat

Purposes == {"seed", "authorize", "consume", "oracle"}

VARIABLES
  stage,    \* the constructor is running, has returned or has raised
  issued,   \* ReceiptLedger._issued: terminal digest -> provisioned chain
  spent,    \* ReceiptLedger._spent: terminal digests
  lock,     \* the thread inside the ledger's lock
  imports,  \* history: the chains consumed, in order
  pc,       \* what each thread does next
  purpose,  \* why it reads a chain
  chain,    \* the receipts it has read
  scan,     \* the locals of _verify_structure
  found     \* what verify read under the lock

ledgerVars == <<stage, issued, spent, imports>>
vars == <<ledgerVars, lock, pc, purpose, chain, scan, found>>

Scan == [previous : Digests \cup {Junk}, seen : SUBSET {EventId[x] : x \in Contents},
         spliced : BOOLEAN, duplicate : BOOLEAN, closed : BOOLEAN, malformed : BOOLEAN]
FreshScan == [previous |-> Genesis, seen |-> {}, spliced |-> FALSE,
              duplicate |-> FALSE, closed |-> TRUE, malformed |-> FALSE]
NotFound == [issued |-> FALSE, replayed |-> FALSE]
-----------------------------------------------------------------------------
Hash(link, content) == IF link = Junk THEN Junk ELSE Append(link, content)

\* The receipt does not continue the chain, or its digest is not that of its body.
Splices(s, r) == r.link # s.previous \/ r.digest # Hash(r.link, r.content)

\* Mutant: an event seen only just before is a duplicate, not any earlier one.
NotesLast(s, id) == {id}
\* The ids a later receipt must not repeat.
Notes(s, id) == s.seen \cup {id}

AfterGarbage(s) ==
  [s EXCEPT !.malformed = TRUE, !.closed = FALSE, !.spliced = TRUE, !.previous = Junk]

AfterReceipt(s, r) ==
  LET id == EventId[r.content]
  IN [previous  |-> r.digest,
      seen      |-> Notes(s, id),
      spliced   |-> s.spliced \/ Splices(s, r),
      duplicate |-> s.duplicate \/ id = NoId \/ id \in s.seen,
      closed    |-> s.closed /\ r.shape /\ r.link # Junk /\ r.digest # Junk,
      malformed |-> s.malformed]

\* _verify_structure's verdict, and its terminal digest.
Sound(t) ==
  LET s == scan[t]
  IN chain[t] # <<>> /\ s.closed /\ ~s.spliced /\ ~s.duplicate /\ ~s.malformed
Terminal(t) == scan[t].previous

\* Mutant: the beginning of a provisioned chain is enough.
KnowsPrefix(t) ==
  \E d \in DOMAIN issued : \E n \in 1 .. Len(d) : SubSeq(issued[d], 1, n) = chain[t]
\* The chain is, receipt for receipt, the one provisioned under its terminal.
Knows(t) == Terminal(t) \in DOMAIN issued /\ issued[Terminal(t)] = chain[t]

Valid(t) == found[t].issued /\ (purpose[t] # "oracle" => ~found[t].replayed)
-----------------------------------------------------------------------------
Init ==
  /\ stage = "building"
  /\ issued = <<>>
  /\ spent = {}
  /\ imports = <<>>
  /\ lock = NoThread
  /\ pc = [t \in Threads |-> "idle"]
  /\ purpose = [t \in Threads |-> "seed"]
  /\ chain = [t \in Threads |-> <<>>]
  /\ scan = [t \in Threads |-> FreshScan]
  /\ found = [t \in Threads |-> NotFound]

Goto(t, label) == pc' = [pc EXCEPT ![t] = label]

\* Mutant: consume verifies and spends under the lock, but not under one lock.
EntersUnlocked(p) == p = "seed"
\* The constructor has the ledger to itself and consume holds the lock from its
\* first statement; verify takes it only for the two lookups.
EntersLocked(p) == p \in {"seed", "consume"}

Enter(t, p) ==
  /\ pc[t] = "idle"
  /\ stage = IF p = "seed" THEN "building" ELSE "serving"
  /\ EntersLocked(p) => lock = NoThread
  /\ lock' = IF EntersLocked(p) THEN t ELSE lock
  /\ purpose' = [purpose EXCEPT ![t] = p]
  /\ Goto(t, "scan")
  /\ UNCHANGED <<ledgerVars, chain, scan, found>>

Read(t, r) ==
  /\ pc[t] = "scan"
  /\ Len(chain[t]) < MaxReceipts
  /\ chain' = [chain EXCEPT ![t] = Append(@, r)]
  /\ scan' = [scan EXCEPT ![t] = IF r = Garbage THEN AfterGarbage(@) ELSE AfterReceipt(@, r)]
  /\ UNCHANGED <<ledgerVars, lock, pc, purpose, found>>

Return(t) ==
  /\ Goto(t, "idle")
  /\ lock' = IF lock = t THEN NoThread ELSE lock
  /\ purpose' = [purpose EXCEPT ![t] = "seed"]
  /\ chain' = [chain EXCEPT ![t] = <<>>]
  /\ scan' = [scan EXCEPT ![t] = FreshScan]
  /\ found' = [found EXCEPT ![t] = NotFound]

\* The structure is refused before any lookup; the constructor raises.
Reject(t) ==
  /\ pc[t] = "scan" /\ ~Sound(t)
  /\ stage' = IF purpose[t] = "seed" THEN "refused" ELSE stage
  /\ Return(t)
  /\ UNCHANGED <<issued, spent, imports>>

\* setdefault, and the constructor raises if the terminal names another chain.
Provision(t) ==
  /\ pc[t] = "scan" /\ Sound(t) /\ purpose[t] = "seed"
  /\ issued' = [d \in DOMAIN issued \cup {Terminal(t)} |->
                  IF d \in DOMAIN issued THEN issued[d] ELSE chain[t]]
  /\ stage' = IF issued'[Terminal(t)] = chain[t] THEN stage ELSE "refused"
  /\ Return(t)
  /\ UNCHANGED <<spent, imports>>

\* The constructor returns.
Serve ==
  /\ stage = "building" /\ lock = NoThread
  /\ stage' = "serving"
  /\ UNCHANGED <<issued, spent, imports, lock, pc, purpose, chain, scan, found>>

Lookup(t) ==
  /\ pc[t] = "scan" /\ Sound(t) /\ purpose[t] # "seed"
  /\ lock \in {NoThread, t}
  /\ found' = [found EXCEPT ![t] = [issued |-> Knows(t), replayed |-> Terminal(t) \in spent]]
  /\ Goto(t, "known")
  /\ UNCHANGED <<ledgerVars, lock, purpose, chain, scan>>

Spend(t) ==
  /\ pc[t] = "known" /\ purpose[t] = "consume" /\ Valid(t)
  /\ spent' = spent \cup {Terminal(t)}
  /\ imports' = Append(imports, chain[t])
  /\ Return(t)
  /\ UNCHANGED <<stage, issued>>

\* A verdict is returned and nothing is spent.
Answer(t) ==
  /\ pc[t] = "known"
  /\ purpose[t] # "consume" \/ ~Valid(t)
  /\ Return(t)
  /\ UNCHANGED ledgerVars

Step(t) ==
  \/ \E p \in Purposes : Enter(t, p)
  \/ \E r \in Presentable : Read(t, r)
  \/ Reject(t) \/ Provision(t) \/ Lookup(t) \/ Spend(t) \/ Answer(t)

Next == Serve \/ \E t \in Threads : Step(t)

Spec == Init /\ [][Next]_vars
-----------------------------------------------------------------------------
(***************************************************************************)
(* Properties                                                              *)
(***************************************************************************)
TypeOK ==
  /\ stage \in {"building", "serving", "refused"}
  /\ DOMAIN issued \subseteq Digests \ {Genesis}
  /\ \A d \in DOMAIN issued : issued[d] \in Seq(Receipt)
  /\ spent \subseteq DOMAIN issued
  /\ lock \in Threads \cup {NoThread}
  /\ imports \in Seq(Seq(Receipt))
  /\ pc \in [Threads -> {"idle", "scan", "known"}]
  /\ purpose \in [Threads -> Purposes]
  /\ chain \in [Threads -> Seq(Receipt \cup {Garbage})]
  /\ scan \in [Threads -> Scan]
  /\ found \in [Threads -> [issued : BOOLEAN, replayed : BOOLEAN]]

\* The one chain a digest commits to.
Unfold(d) ==
  [i \in 1 .. Len(d) |->
     [content |-> d[i], shape |-> TRUE, link |-> SubSeq(d, 1, i - 1), digest |-> SubSeq(d, 1, i)]]

\* A chain that tells a history: every event named, and none named twice.
Telling(d) ==
  /\ d # Genesis
  /\ \A i \in DOMAIN d : EventId[d[i]] # NoId
  /\ \A i, j \in DOMAIN d : EventId[d[i]] = EventId[d[j]] => i = j

\* A chain passes exactly when its last digest tells a history and the chain is
\* that history unfolded: no receipt can be altered, dropped, repeated, spliced
\* in or reordered behind a terminal digest (state.py _verify_structure).
SoundIsUnfolded ==
  \A t \in Threads : pc[t] = "scan" =>
    (Sound(t) <=> /\ Terminal(t) \in Digests
                  /\ Telling(Terminal(t))
                  /\ chain[t] = Unfold(Terminal(t)))

\* The ledger implements AuthorityStore.  Each provisioned chain is a holding,
\* the lookups under the lock give a verifier the store's word, and the addition
\* to _spent consumes the chain (state.py verify, consume): no chain is imported
\* that was not provisioned receipt for receipt, none is imported twice however
\* many threads present it, and provisioning is over before the first import.
Store == INSTANCE AuthorityStore WITH
  Callers <- Threads,
  holdings <- {{issued[d]} : d \in DOMAIN issued},
  consumed <- [i \in DOMAIN imports |-> {imports[i]}],
  word <- [t \in Threads |->
    IF pc[t] = "known" /\ purpose[t] # "consume" /\ Valid(t)
    THEN {[holding |-> {chain[t]}, fresh |-> purpose[t] = "authorize"]}
    ELSE {}]
ImplementsAuthorityStore == Store!Spec
=============================================================================
