----------------------------- MODULE MCBranchJoin -----------------------------
(***************************************************************************)
(* A registry with two grants of the joining tenant and one of another.    *)
(***************************************************************************)
EXTENDS BranchJoin, TLC

CONSTANTS t1, t2, a, b, other, left, right, north, harbor, d1, d2

MCGrant == [c \in {a, b, other} |->
  CASE c = a -> [branch |-> left, tenant |-> north, digest |-> d1]
    [] c = b -> [branch |-> right, tenant |-> north, digest |-> d2]
    [] c = other -> [branch |-> left, tenant |-> harbor, digest |-> d1]]
\* The genuine presentation; events that differ from a grant in the request, the
\* branch or the tenant; another tenant's grant and a malformed event.
MCRacePool == {[capability |-> a, branch |-> left, tenant |-> north, digest |-> d1],
               [capability |-> b, branch |-> right, tenant |-> north, digest |-> d2],
               [capability |-> b, branch |-> right, tenant |-> north, digest |-> d1],
               [capability |-> a, branch |-> right, tenant |-> north, digest |-> d1],
               [capability |-> a, branch |-> left, tenant |-> harbor, digest |-> d1],
               [capability |-> other, branch |-> left, tenant |-> north, digest |-> d1],
               Garbage}
Symmetry == Permutations(Threads)
=============================================================================
