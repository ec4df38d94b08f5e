------------------------------ MODULE UnitSums ------------------------------
(***************************************************************************)
(* Sums of natural numbers over a finite set, as the size of a set of      *)
(* units: an amount of 3 held by x is the three units <<x,1>>, <<x,2>>,    *)
(* <<x,3>>.  The SUM(...) of the sweep in db/invariants.py and the         *)
(* sum(allocations.values()) of split_budget are stated with it.  Written  *)
(* this way rather than as a fold because moving budget is then moving     *)
(* units, and the library's theorems on finite sets apply (module          *)
(* OperatorProofs).                                                        *)
(***************************************************************************)
EXTENDS Naturals, FiniteSets

\* The units that f assigns to the members of S.
Units(S, f) == UNION {{x} \X (1 .. f[x]) : x \in S}

\* The sum of f[x] for x in S.
SumOver(S, f) == Cardinality(Units(S, f))
=============================================================================
