------------------------------- MODULE Sums --------------------------------
(***************************************************************************)
(* The sum of a function over a finite set, defined as the size of a set:  *)
(* unit number i of element x is the pair <<x, i>>.  Defined this way,     *)
(* without recursion, its laws have proofs (SumsProofs).                   *)
(***************************************************************************)
EXTENDS Integers, FiniteSets

UnitsOf(f, S) == UNION {{x} \X (1..f[x]) : x \in S}

SumOver(f, S) == Cardinality(UnitsOf(f, S))

\* Of integers: an element whose value is not positive has no units.
SumInt(f, S) == SumOver(f, S) - SumOver([x \in S |-> -f[x]], S)

============================================================================
