----------------------------- MODULE AuthorityStore -----------------------------
(***************************************************************************)
(* What a store of single-use evidence promises its callers, without       *)
(* saying how.  The evidence comes in holdings: all of a holding is        *)
(* consumed in one step, or none of it.  A caller is given the store's     *)
(* word on a whole holding: that it is still fresh, which it was when the  *)
(* word was given, or only that it is genuine, whatever became of it.      *)
(* Words go stale, consumptions do not: nothing is consumed twice.         *)
(***************************************************************************)
EXTENDS Sequences

CONSTANT Callers

VARIABLES
  holdings,  \* the sets of evidence that are presented and consumed as one
  consumed,  \* the holdings consumed, in order
  word       \* what each caller was told and has not yet acted on, at most one

storeVars == <<holdings, consumed, word>>

Spent == UNION {consumed[i] : i \in DOMAIN consumed}

Init == consumed = <<>> /\ word = [c \in Callers |-> {}]

\* Trusted evidence is laid in, and only before any is consumed.
Provision ==
  /\ consumed = <<>>
  /\ holdings \subseteq holdings'
  /\ UNCHANGED <<consumed, word>>

Tell(c, h, fresh) ==
  /\ word[c] = {} /\ h \in holdings
  /\ word' = [word EXCEPT ![c] = {[holding |-> h, fresh |-> fresh]}]
  /\ UNCHANGED <<holdings, consumed>>

Vouch(c, h) == h \cap Spent = {} /\ Tell(c, h, TRUE)

Recognise(c, h) == Tell(c, h, FALSE)

Leave(c) ==
  /\ word' = [word EXCEPT ![c] = {}]
  /\ UNCHANGED <<holdings, consumed>>

Consume(h) ==
  /\ h \in holdings
  /\ h \cap Spent = {}
  /\ consumed' = Append(consumed, h)
  /\ UNCHANGED <<holdings, word>>

Next ==
  \/ Provision
  \/ \E h \in holdings : Consume(h)
  \/ \E c \in Callers : Leave(c) \/ \E h \in holdings : Vouch(c, h) \/ Recognise(c, h)

Spec == Init /\ [][Next]_storeVars
=============================================================================
