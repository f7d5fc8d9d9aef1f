------------------------------ MODULE MCLedger ------------------------------
(***************************************************************************)
(* Ledger on a small instance: three accounts, so that a root with two     *)
(* delegates, a chain of three and unrelated roots all occur, two holds,   *)
(* of which the smaller funding has room for one, and 2^3 - 1 for 2^63 - 1,*)
(* so that two breaches carry into spent_high.                             *)
(***************************************************************************)
EXTENDS LedgerAuthority, TLC

CONSTANTS a1, a2, a3, h1, h2, r

Symmetry == Permutations({a1, a2, a3}) \cup Permutations({h1, h2})
=============================================================================
