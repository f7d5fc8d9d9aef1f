------------------------------- MODULE Totals -------------------------------
(***************************************************************************)
(* Sums of amounts over a finite set of rows, as SQL's sum() computes them *)
(* in Ledger.audit.  An amount n is represented by n unit coins, so that a *)
(* sum is the cardinality of a set: adding, removing and merging rows are  *)
(* then set operations, whose effect on the sum is proved in               *)
(* TotalsTheorems from the facts about cardinality alone.                  *)
(***************************************************************************)
EXTENDS Naturals, FiniteSets

(* The unit coins of the rows in S, row s holding w[s] of them. *)
Coins(S, w) == UNION {{s} \X (1 .. w[s]) : s \in S}

(* The sum of w[s] over s in S. *)
Total(S, w) == Cardinality(Coins(S, w))
=============================================================================
