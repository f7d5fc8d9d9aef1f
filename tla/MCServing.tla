----------------------------- MODULE MCServing ------------------------------
(***************************************************************************)
(* What must come to an end in the server, each on a small instance: the   *)
(* connections that were admitted, and the actions of one case that clients*)
(* repeat.  They share nothing: one of them is chosen at the start, and the*)
(* variables of the other stay.                                            *)
(*                                                                         *)
(* Three connections come for two places, from agents with one place each, *)
(* so that both limits are met while a mutation waits for another.  The    *)
(* case's two requests compete for the consultation and the budget.        *)
(***************************************************************************)
EXTENDS Admission, MCSemantic

CONSTANTS c1, c2, c3, agentA, agentB

VARIABLE part

servingVars == <<admissionVars, semanticVars, part>>

ServingInit == AdmissionInit /\ SemanticInit /\ part \in {"admission", "semantic"}

(* Connections are only told apart by their names: they come in order.     *)
InOrder ==
  /\ conns'[c2].step # "away" => conns[c1].step # "away"
  /\ conns'[c3].step # "away" => conns[c2].step # "away"

ServingNext ==
  /\ \/ part = "admission" /\ AdmissionNext /\ InOrder /\ UNCHANGED semanticVars
     \/ part = "semantic" /\ MCNext /\ UNCHANGED admissionVars
  /\ UNCHANGED part

(* In the part that was not chosen nothing has begun that has to go on. *)
ServingSpec == ServingInit /\ [][ServingNext]_servingVars /\ AdmissionFairness /\ SemanticFairness
=============================================================================
