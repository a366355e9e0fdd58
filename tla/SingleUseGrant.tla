---------------------------- MODULE SingleUseGrant ----------------------------
(***************************************************************************)
(* What an execution boundary promises, without saying how: an effect      *)
(* spends one grant made earlier for exactly that call, a grant is spent   *)
(* or voided at most once, and, where the mode enforces it, no two effects *)
(* are paid for with the same single-use authority.                        *)
(***************************************************************************)
CONSTANTS Calls, Authorities, Needs, Ids

VARIABLES
  enforced,  \* the mode spends authority
  live,      \* grants neither spent nor voided
  done       \* grants spent on an effect

grantVars == <<enforced, live, done>>

Grant == [id : Ids, call : Calls]

Init == enforced \in BOOLEAN /\ live = {} /\ done = {}

Issue(g) ==
  /\ \A h \in live \cup done : h.id # g.id
  /\ live' = live \cup {g}
  /\ UNCHANGED <<enforced, done>>

Void(g) ==
  /\ g \in live
  /\ live' = live \ {g}
  /\ UNCHANGED <<enforced, done>>

Effect(g) ==
  /\ g \in live
  /\ enforced => \A h \in done : Needs[h.call] \cap Needs[g.call] = {}
  /\ live' = live \ {g}
  /\ done' = done \cup {g}
  /\ UNCHANGED enforced

Next == \E g \in Grant : Issue(g) \/ Void(g) \/ Effect(g)

Spec == Init /\ [][Next]_grantVars
=============================================================================
