----------------------------- MODULE MCSemantic -----------------------------
(***************************************************************************)
(* SemanticTasks on a small instance: two cases of one agent, worked on by *)
(* two threads.  Of all that a client may ask for, the first two requests  *)
(* are those that compete for the consultation and the budget, and the     *)
(* third follows them in the first case.                                   *)
(***************************************************************************)
EXTENDS SemanticTasks

CONSTANTS
  one, two, a, b,
  Decidable  \* what the holds that the operator may decide pay for

Asked ==
  {<<a, one, "consult">>, <<a, one, "infer">>, <<a, one, "finalize">>,
   <<b, one, "abstain">>, <<b, two, "consult">>, <<b, two, "finalize">>}

MCReceives == \E w \in Workers, q \in {x \in Asked : x[2] \in CASES} : Receive(w, q[1], q[2], q[3])

(* The operator decides one hold: it finds that the execution was charged  *)
(* in full, that it was charged nothing, or that it never took place.      *)
MCDecides ==
  /\ reconciled = {}
  /\ \E h \in {g \in DOMAIN holds : g[2] \in Decidable} :
       OperatorSettle(h, holds[h].bound) \/ OperatorSettle(h, 0) \/ OperatorNoCharge(h)

MCNext == MCReceives \/ Works \/ Cancels \/ MCDecides \/ Suspend \/ Crash

MCSpec == SemanticInit /\ [][MCNext]_semanticVars

(* The threads of the server are alike. *)
Alike == Permutations(Workers)
=============================================================================
