----------------------------- MODULE MCReceiptChain -----------------------------
(* Two contents, about one event each.                                     *)
EXTENDS ReceiptChain, TLC

CONSTANTS t1, t2, a, b, e1, e2

MCEventId == [x \in {a, b} |-> IF x = a THEN e1 ELSE e2]

\* The receipt that ends the chain a digest commits to.
Last(d) == [content |-> d[Len(d)], shape |-> TRUE,
            link |-> SubSeq(d, 1, Len(d) - 1), digest |-> d]

\* A receipt, one that continues it, one that then repeats the first event, a
\* forgery that states the digest before it, one with a field too many, and no
\* receipt at all.
MCPool ==
  {Last(<<a>>), Last(<<a, b>>), Last(<<a, b, a>>),
   [content |-> b, shape |-> TRUE, link |-> <<a>>, digest |-> <<a>>],
   [content |-> b, shape |-> FALSE, link |-> <<a>>, digest |-> <<a, b>>], Garbage}

Symmetry == Permutations(Threads)
=============================================================================
