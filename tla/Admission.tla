----------------------------- MODULE Admission ------------------------------
(***************************************************************************)
(* The admission of connections in aecp/server.py.  One thread accepts and *)
(* gives every connection that it admits a thread of its own, and answers  *)
(* the others itself.  A thread identifies its principal, counts an agent's*)
(* request against that agent's limit, reads the body, takes the mutation  *)
(* lock unless the route is one that runs concurrently, and runs the route,*)
(* which returns or raises.  On its way out it returns what it counted.    *)
(*                                                                         *)
(* Each counter is written under admission_lock, one action each time.     *)
(* A connection carries one request; a thread may fail to start.           *)
(***************************************************************************)
EXTENDS Integers, FiniteSets

CONSTANTS
  Connections,
  Agents,
  Nobody,
  LIMIT,       \* max_connections, 32 by default
  AGENT_LIMIT  \* max_agent_requests, 4 by default

ASSUME AdmissionAssumption ==
  /\ IsFiniteSet(Connections)
  /\ Nobody \notin Agents \cup Connections
  /\ LIMIT \in Nat \ {0} /\ AGENT_LIMIT \in 1 .. LIMIT

VARIABLES
  conns,      \* connection -> how far it is, whose it is, whether its route is a mutation
  admission,  \* the counters of connections
  agents,     \* the counters of each agent's requests
  holder      \* of mutation_lock

admissionVars == <<conns, admission, agents, holder>>

(* With the accepting thread; with a thread of its own; over.               *)
Accepting == {"refused", "admitted"}
Served    == {"started", "reading", "waiting", "routing", "leaving", "ending"}
Over      == {"dismissed", "unstarted", "closed"}
Steps     == {"away"} \cup Accepting \cup Served \cup Over

Counters == [active |-> 0, peak |-> 0, admitted |-> 0, rejected |-> 0, completed |-> 0]

In(steps) == {c \in Connections : conns[c].step \in steps}

Larger(m, n) == IF m < n THEN n ELSE m

Goes(c, step) == conns' = [conns EXCEPT ![c].step = step]

-----------------------------------------------------------------------------
(* The accepting thread *)

Admitted(counters) ==
  [counters EXCEPT !.active = @ + 1, !.admitted = @ + 1, !.peak = Larger(@, counters.active + 1)]

Rejected(counters) == [counters EXCEPT !.rejected = @ + 1]

Room(counters, limit) == counters.active < limit

Accept(c, agent, mutation) ==
  /\ conns[c].step = "away" /\ In(Accepting) = {}
  /\ conns' = [conns EXCEPT ![c] =
       [step |-> IF Room(admission, LIMIT) THEN "admitted" ELSE "refused",
        agent |-> agent, mutation |-> mutation, counted |-> FALSE]]
  /\ admission' = IF Room(admission, LIMIT) THEN Admitted(admission) ELSE Rejected(admission)
  /\ UNCHANGED <<agents, holder>>

(* The 503, as far as the client takes it. *)
TurnAway(c) ==
  /\ conns[c].step = "refused"
  /\ Goes(c, "dismissed")
  /\ UNCHANGED <<admission, agents, holder>>

Start(c) ==
  /\ conns[c].step = "admitted"
  /\ Goes(c, "started")
  /\ UNCHANGED <<admission, agents, holder>>

(* super().process_request raises.  Mutant: the place is not given back. *)
NotStartedKept(c) ==
  /\ conns[c].step = "admitted"
  /\ Goes(c, "unstarted")
  /\ UNCHANGED <<admission, agents, holder>>

NotStarted(c) ==
  /\ conns[c].step = "admitted"
  /\ Goes(c, "unstarted")
  /\ admission' = [admission EXCEPT !.active = @ - 1]
  /\ UNCHANGED <<agents, holder>>

-----------------------------------------------------------------------------
(* A thread *)

(* _origin, _principal and admit_agent.  A wrong origin or token is refused *)
(* before anything is counted, and so is a request above the agent's limit. *)
Identify(c) ==
  LET agent == conns[c].agent IN
  /\ conns[c].step = "started"
  /\ \/ Goes(c, "leaving") /\ UNCHANGED agents
     \/ agent = Nobody /\ Goes(c, "reading") /\ UNCHANGED agents
     \/ /\ agent # Nobody /\ Room(agents[agent], AGENT_LIMIT)
        /\ conns'  = [conns EXCEPT ![c].step = "reading", ![c].counted = TRUE]
        /\ agents' = [agents EXCEPT ![agent] = Admitted(@)]
     \/ /\ agent # Nobody /\ ~ Room(agents[agent], AGENT_LIMIT)
        /\ Goes(c, "leaving")
        /\ agents' = [agents EXCEPT ![agent] = Rejected(@)]
  /\ UNCHANGED <<admission, holder>>

(* The body arrives, within its time, or it is refused. *)
ReadBody(c) ==
  /\ conns[c].step = "reading"
  /\ Goes(c, IF conns[c].mutation THEN "waiting" ELSE "routing") \/ Goes(c, "leaving")
  /\ UNCHANGED <<admission, agents, holder>>

TakeLock(c) ==
  /\ conns[c].step = "waiting" /\ holder = Nobody
  /\ holder' = c
  /\ Goes(c, "routing")
  /\ UNCHANGED <<admission, agents>>

(* _route returns, or raises what it may.  Mutant: the lock is not released *)
(* when it raises.                                                          *)
RouteKeepingLock(c) ==
  /\ conns[c].step = "routing"
  /\ Goes(c, "leaving")
  /\ holder' = (IF holder = c THEN Nobody ELSE holder) \/ UNCHANGED holder
  /\ UNCHANGED <<admission, agents>>

Route(c) ==
  /\ conns[c].step = "routing"
  /\ Goes(c, "leaving")
  /\ holder' = IF holder = c THEN Nobody ELSE holder
  /\ UNCHANGED <<admission, agents>>

(* The answer is sent, or is not taken; then finish_agent: a request above  *)
(* its agent's limit was not counted.                                       *)
FinishAgent(c) ==
  /\ conns[c].step = "leaving"
  /\ conns'  = [conns EXCEPT ![c].step = "ending", ![c].counted = FALSE]
  /\ agents' = IF conns[c].counted
                 THEN [agents EXCEPT ![conns[c].agent].active = @ - 1, ![conns[c].agent].completed = @ + 1]
                 ELSE agents
  /\ UNCHANGED <<admission, holder>>

End(c) ==
  /\ conns[c].step = "ending"
  /\ Goes(c, "closed")
  /\ admission' = [admission EXCEPT !.active = @ - 1, !.completed = @ + 1]
  /\ UNCHANGED <<agents, holder>>

-----------------------------------------------------------------------------
AcceptingThread(c) == TurnAway(c) \/ Start(c) \/ NotStarted(c)

Thread(c) == Identify(c) \/ ReadBody(c) \/ TakeLock(c) \/ Route(c) \/ FinishAgent(c) \/ End(c)

Arrival == \E c \in Connections, a \in Agents \cup {Nobody}, m \in BOOLEAN : Accept(c, a, m)

AdmissionInit ==
  /\ conns     = [c \in Connections |-> [step |-> "away", agent |-> Nobody, mutation |-> FALSE, counted |-> FALSE]]
  /\ admission = Counters
  /\ agents    = [a \in Agents |-> Counters]
  /\ holder    = Nobody

AdmissionNext == Arrival \/ \E c \in Connections : AcceptingThread(c) \/ Thread(c)

AdmissionSpec == AdmissionInit /\ [][AdmissionNext]_admissionVars

(* Threads are scheduled, and a route ends.  Nothing is assumed of the      *)
(* order in which the mutation lock is granted, nor do clients have to come.*)
AdmissionFairness ==
  \A c \in Connections : WF_admissionVars(AcceptingThread(c)) /\ WF_admissionVars(Thread(c))

-----------------------------------------------------------------------------
AdmissionTypeOK ==
  LET Record == [active : Nat, peak : Nat, admitted : Nat, rejected : Nat, completed : Nat]
  IN /\ conns \in [Connections -> [step : Steps, agent : Agents \cup {Nobody},
                                   mutation : BOOLEAN, counted : BOOLEAN]]
     /\ admission \in Record /\ agents \in [Agents -> Record]
     /\ holder \in Connections \cup {Nobody}

(* There are never more threads than the limit, nor more requests of one    *)
(* agent past its identification than that agent's limit, whichever of them *)
(* wait for the mutation lock, whose holder is the one mutation that runs.  *)
LimitsHold ==
  /\ Cardinality(In(Served)) <= LIMIT
  /\ \A a \in Agents :
       Cardinality({c \in In({"reading", "waiting", "routing"}) : conns[c].agent = a}) <= AGENT_LIMIT
  /\ {c \in In({"routing"}) : conns[c].mutation} = {holder} \ {Nobody}

(* Whatever the paths that threads leave by, the counters are those of the  *)
(* connections there are: nothing is counted twice or never given back, so  *)
(* that the limits, which are compared with counters, hold for connections. *)
(* The type invariant is part of it, for an active counter below zero is a  *)
(* place that was given back twice.                                         *)
Counted(a) == {c \in Connections : conns[c].counted /\ conns[c].agent = a}

CountersMatch ==
  /\ AdmissionTypeOK
  /\ admission.active = Cardinality(In(Served \cup {"admitted"}))
  /\ admission.completed = Cardinality(In({"closed"}))
  /\ admission.rejected = Cardinality(In({"refused", "dismissed"}))
  /\ admission.admitted = admission.active + admission.completed + Cardinality(In({"unstarted"}))
  /\ \A a \in Agents : /\ agents[a].active = Cardinality(Counted(a))
                       /\ agents[a].admitted = agents[a].active + agents[a].completed
  /\ LimitsHold

(* Every place that was taken is given back: each connection that was       *)
(* admitted is over in the end, on every path, so that a saturated gateway  *)
(* admits again once the connections it has are served.                     *)
SlotsComeBack == \A c \in Connections : conns[c].step = "admitted" ~> conns[c].step \in Over
=============================================================================
