------------------------------- MODULE Totals -------------------------------
(***************************************************************************)
(* Sums of amounts.  The total of a function into the naturals is the      *)
(* number of its units: without recursion, facts about totals follow from  *)
(* facts about the cardinality of sets, which can be proved.               *)
(***************************************************************************)
EXTENDS Integers, FiniteSets

Units(f) == UNION {{x} \X (1 .. f[x]) : x \in DOMAIN f}
Total(f) == Cardinality(Units(f))
=============================================================================
