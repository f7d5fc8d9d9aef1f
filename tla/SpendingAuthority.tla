------------------------- MODULE SpendingAuthority --------------------------
(***************************************************************************)
(* What the reservation kernel promises, without its columns: an attempt   *)
(* is held, then issued to the outside, then charged; or it is freed.  The *)
(* commitment of a scope is what the attempts beneath it add up to, each   *)
(* at its bound until it is charged and at its charge from then on.        *)
(*                                                                         *)
(* An attempt starts only where it fits the funding of every scope above   *)
(* it, and nothing is started or issued beneath a scope once an attempt    *)
(* there was charged more than its bound.  What was issued is freed only   *)
(* by an acquittal.  There is no reserved, spent or status column here,    *)
(* no lifecycle and no expiry: these may forbid a step, never add one.     *)
(***************************************************************************)
EXTENDS Integers, Totals, Delegation

CONSTANTS AccountIds, HoldIds, Fundings, Bounds, Charges

VARIABLES
  scopes,   \* account -> funded, parent
  attempts  \* attempt -> account, bound, phase, charge

authorityVars == <<scopes, attempts>>

Under(a) == {h \in DOMAIN attempts : a \in Chain(scopes, attempts[h].account)}

Committed ==
  [h \in DOMAIN attempts |-> CASE attempts[h].phase \in {"held", "issued"} -> attempts[h].bound
                               [] attempts[h].phase = "charged"            -> attempts[h].charge
                               [] attempts[h].phase = "freed"              -> 0]

Commitment(a) == Total(Under(a), Committed)

Overcharged(h) == attempts[h].phase = "charged" /\ attempts[h].charge > attempts[h].bound

Stopped(a) == \E s \in Chain(scopes, a), h \in DOMAIN attempts : h \in Under(s) /\ Overcharged(h)

Delegate(a, funded, parent) ==
  /\ a \notin DOMAIN scopes
  /\ parent # None => /\ parent \in DOMAIN scopes
                      /\ funded <= scopes[parent].funded
                      /\ ~ Stopped(parent)
  /\ scopes' = [b \in DOMAIN scopes \cup {a} |->
                  IF b = a THEN [funded |-> funded, parent |-> parent] ELSE scopes[b]]
  /\ UNCHANGED attempts

Hold(h, a, bound) ==
  /\ h \notin DOMAIN attempts
  /\ a \in DOMAIN scopes
  /\ ~ Stopped(a)
  /\ \A s \in Chain(scopes, a) : Commitment(s) + bound <= scopes[s].funded
  /\ attempts' = [g \in DOMAIN attempts \cup {h} |->
                    IF g = h THEN [account |-> a, bound |-> bound, phase |-> "held", charge |-> None]
                             ELSE attempts[g]]
  /\ UNCHANGED scopes

Issue(h) ==
  /\ h \in DOMAIN attempts /\ attempts[h].phase = "held"
  /\ ~ Stopped(attempts[h].account)
  /\ attempts' = [attempts EXCEPT ![h].phase = "issued"]
  /\ UNCHANGED scopes

Charge(h, amount) ==
  /\ h \in DOMAIN attempts /\ attempts[h].phase = "issued"
  /\ attempts' = [attempts EXCEPT ![h] = [account |-> @.account, bound |-> @.bound,
                                            phase |-> "charged", charge |-> amount]]
  /\ UNCHANGED scopes

(* Nobody used them: any number of held attempts at once. *)
Free(H) ==
  /\ \A h \in H : attempts[h].phase = "held"
  /\ attempts' = [h \in DOMAIN attempts |->
                    IF h \in H THEN [attempts[h] EXCEPT !.phase = "freed"] ELSE attempts[h]]
  /\ UNCHANGED scopes

(* Evidence that nothing was charged. *)
Acquit(h) ==
  /\ h \in DOMAIN attempts /\ attempts[h].phase = "issued"
  /\ attempts' = [attempts EXCEPT ![h].phase = "freed"]
  /\ UNCHANGED scopes

AuthorityInit == scopes = [a \in {} |-> {}] /\ attempts = [h \in {} |-> {}]

AuthorityNext ==
  \/ \E a \in AccountIds, f \in Fundings, p \in AccountIds \cup {None} : Delegate(a, f, p)
  \/ \E h \in HoldIds, a \in AccountIds, b \in Bounds : Hold(h, a, b)
  \/ \E h \in HoldIds : Issue(h) \/ Acquit(h) \/ (\E c \in Charges : Charge(h, c))
  \/ \E H \in SUBSET DOMAIN attempts : Free(H)

AuthoritySpec == AuthorityInit /\ [][AuthorityNext]_authorityVars
=============================================================================
