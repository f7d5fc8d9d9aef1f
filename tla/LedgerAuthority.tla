-------------------------- MODULE LedgerAuthority ---------------------------
(***************************************************************************)
(* The reservation kernel implements SpendingAuthority: the columns it     *)
(* keeps decide what the attempts alone would decide.                      *)
(***************************************************************************)
EXTENDS Ledger

Phase(state) ==
  CASE state = "RESERVED"                    -> "held"
    [] state \in {"DISPATCHED", "UNRESOLVED"} -> "issued"
    [] state = "SETTLED"                     -> "charged"
    [] state = "RELEASED"                    -> "freed"

ScopeOf(row)   == [funded |-> row.funded, parent |-> row.parent]
AttemptOf(row) == [account |-> row.account, bound |-> row.bound, phase |-> Phase(row.state), charge |-> row.actual]

Scopes   == [a \in DOMAIN accounts |-> ScopeOf(accounts[a])]
Attempts == [h \in DOMAIN holds |-> AttemptOf(holds[h])]

Authority == INSTANCE SpendingAuthority WITH scopes <- Scopes, attempts <- Attempts

(* Whatever the order of the calls, the guards on the stored columns, kept  *)
(* up to date one transaction at a time, admit nothing that the sums over   *)
(* all attempts beneath a scope, or a breach recorded anywhere beneath it,  *)
(* would forbid.                                                            *)
ImplementsAuthority == Authority!AuthoritySpec
=============================================================================
