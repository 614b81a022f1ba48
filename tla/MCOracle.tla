------------------------------ MODULE MCOracle ------------------------------
(* Oracle for TLC: two queries that differ in a literal and one of its own.  *)
EXTENDS Oracle, TLC

CONSTANTS q1, q2, q3, f1, f2, timeout, asan, plain

MCQueries == {q1, q2, q3}
MCForms == {f1, f2}
MCForm == (q1 :> f1) @@ (q2 :> f1) @@ (q3 :> f2)

\* q1 is once answered and once refused with the same stderr.
MCCaptures ==
  {[query |-> q, stderr |-> plain, kind |-> "OK"] : q \in {q1, q2}}
    \cup {[query |-> q1, stderr |-> plain, kind |-> "ERROR"],
          [query |-> q2, stderr |-> timeout, kind |-> "HANG"],
          [query |-> q3, stderr |-> asan, kind |-> "MEMSAFETY"],
          [query |-> q3, stderr |-> plain, kind |-> "UNILATERAL"]}

Symmetry == Permutations(Workers)
=============================================================================
