------------------------------ MODULE LiveTasks ------------------------------
(***************************************************************************)
(* The chat endpoint and the registry of live tasks, aecp/live.py, with the*)
(* resource requests of the gateway that are scored by the same registry.  *)
(* Chats and cheap requests run concurrently, one thread each.  A chat does*)
(* not begin with the sweeps, and looks for the expiry it must repeat among*)
(* the holds, not among the requests.  When execute has returned a settled *)
(* request with a result, its thread scores it in a transaction of its own.*)
(*                                                                         *)
(* Chats go through NimAdapter, which is put in place when the process      *)
(* starts, by its environment: whether there is one, for which model, and   *)
(* where, which the quote of a chat names.  A chat without its adapter is   *)
(* refused before any table is looked at.  The resource requests go through *)
(* SimulatedAdapter, always there and with constant quotes.                 *)
(*                                                                         *)
(* A task is known by the request that is made for it.  What the score says*)
(* is a function of the result and of the registered truth, which never    *)
(* change; only whether there is one is kept.  A second registration with  *)
(* other values, a conflict, changes nothing and is left out; so are the   *)
(* requests for tasks without a policy, which are denied, and the chats for*)
(* payments, which the policy denies.                                      *)
(***************************************************************************)
EXTENDS Gateway

CONSTANTS
  ChatIds,   \* the ids of chats, "<agent>/chat/<idempotency key>"
  NativeIds, \* the ids of the resource requests
  Tasks,     \* the requests that are made, one for each task
  Chats      \* those that are chats

ASSUME LiveAssumption ==
  /\ ChatIds \subseteq HoldIds /\ NativeIds \subseteq HoldIds \ ChatIds
  /\ Tasks \subseteq Requests \ (Premium \cup Payments) /\ Chats \subseteq Tasks

VARIABLES
  configured,\* the chats whose model the adapter of this process has
  serving,   \* the request that a thread answers, until it is scored
  policies,  \* task_policy: the tasks that have an operation
  cases,     \* live_tasks: the tasks that have a truth
  outcomes   \* live_outcomes: the requests that have a score

liveTables == <<policies, cases, outcomes>>
liveVars   == <<gatewayVars, configured, serving, liveTables>>

-----------------------------------------------------------------------------
(* LiveTasks.register, its two transactions for a task. *)
RegisterPolicy(task) ==
  /\ policies' = policies \cup {task}
  /\ UNCHANGED <<gatewayVars, configured, serving, cases, outcomes>>

RegisterCase(task) ==
  /\ task \in policies
  /\ cases' = cases \cup {task}
  /\ UNCHANGED <<gatewayVars, configured, serving, policies, outcomes>>

(* A POST of a chat, or of a resource request.  A chat that no adapter has  *)
(* the model of is refused here, also when it is a repeat.                  *)
ArriveChat(w, id, agent, request) ==
  /\ workers[w].pc = "idle"
  /\ request \in configured
  /\ id \in DOMAIN holds \/ clock + TTL <= Horizon
  /\ workers' = [workers EXCEPT ![w] =
       [Idle EXCEPT !.pc = "lookup", !.id = id, !.agent = agent, !.request = request, !.now = clock,
                    !.quote = quotes[request]]]
  /\ UNCHANGED <<marketVars, quotes, controlTables, outside, clock, restarts>>

ArriveLive(w, id, agent, request) ==
  /\ serving[w] = None
  /\ request \in policies
  /\ request \in Chats <=> id \in ChatIds
  /\ IF id \in ChatIds THEN ArriveChat(w, id, agent, request) ELSE Arrive(w, id, agent, request)
  /\ serving' = [serving EXCEPT ![w] = id]
  /\ UNCHANGED <<configured, liveTables>>

(* Mutant: a chat looks for its expiry where the other requests do. *)
ExpiryOfRequest(c) == ExpiryFor(c)

ExpiryOfHold(c) == IF c.id \in DOMAIN holds THEN holds[c.id].expires_at ELSE c.now + TTL

LookupChat(w) ==
  LET c == workers[w] IN
  /\ c.pc = "lookup"
  /\ workers' = [workers EXCEPT ![w].pc = "authorize", ![w].expires = ExpiryOfHold(c)]
  /\ UNCHANGED <<marketVars, quotes, controlTables, outside, clock, restarts>>

Prelude(w) ==
  /\ \/ SweepStep(w)
     \/ serving[w] \in ChatIds /\ LookupChat(w)
     \/ serving[w] \notin ChatIds /\ Lookup(w)
  /\ UNCHANGED <<configured, serving, liveTables>>

(* prepare and execute; an exception ends the route. *)
Serve(w) ==
  /\ WorkerStep(w)
  /\ serving' = IF workers'[w].pc = "idle" /\ workers'[w].answer # "returned"
                THEN [serving EXCEPT ![w] = None] ELSE serving
  /\ UNCHANGED <<clock, restarts, configured, liveTables>>

(* execute has returned.  The request is read once more before evaluate     *)
(* opens its transaction, but what makes it one to score is final: the      *)
(* state SETTLED and the stored result.                                     *)
Settled(id) == holds[id].state = "SETTLED" /\ id \in DOMAIN receipts

Evaluate(w) ==
  LET id == serving[w] IN
  /\ id # None /\ workers[w].pc = "idle"
  /\ outcomes' = IF Settled(id) /\ requests[id].request \in cases THEN outcomes \cup {id} ELSE outcomes
  /\ serving' = [serving EXCEPT ![w] = None]
  /\ UNCHANGED <<gatewayVars, configured, policies, cases>>

(* The process stops, also before it scores a request, and starts with the  *)
(* same adapter, another one or none.                                       *)
StopLive ==
  /\ restarts < MaxRestarts
  /\ workers' = [w \in Workers |-> Idle]
  /\ configured' \in SUBSET Chats
  /\ quotes' \in [Requests -> Bounds] /\ \A r \in Requests \ Chats : quotes'[r] = quotes[r]
  /\ serving' = [w \in Workers |-> None]
  /\ restarts' = restarts + 1
  /\ UNCHANGED <<marketVars, controlTables, outside, clock, liveTables>>

-----------------------------------------------------------------------------
LiveThread(w)   == Prelude(w) \/ Serve(w) \/ Evaluate(w)
LivePosting(id) == \E w \in Workers, a \in Agents, r \in Tasks : ArriveLive(w, id, a, r)
Registration    == \E task \in Tasks : RegisterPolicy(task) \/ RegisterCase(task)

(* What the gateway does otherwise; approvals and suspensions, which only   *)
(* refuse more, are left to Gateway.                                        *)
Elsewhere ==
  /\ OtherRequest \/ Provision \/ Inspection \/ Abandonment \/ Tick
  /\ UNCHANGED <<configured, serving, liveTables>>

LiveNext ==
  \/ (\E w \in Workers : LiveThread(w)) \/ (\E id \in ChatIds \cup NativeIds : LivePosting(id))
  \/ Registration \/ Elsewhere \/ StopLive

LiveInit ==
  /\ GatewayInit
  /\ configured \in SUBSET Chats
  /\ serving  = [w \in Workers |-> None]
  /\ policies = {} /\ cases = {} /\ outcomes = {}

(* Threads run on, and a client repeats its request as it is under its      *)
(* idempotency key.  The server makes a thread for every connection; here   *)
(* others may take all of Workers, so that only a client that is strongly   *)
(* fair is sure to get one.  Nothing brings an adapter back.                *)
Repeat(id) ==
  /\ id \in DOMAIN holds
  /\ \E w \in Workers : ArriveLive(w, id, holds[id].account, holds[id].request)

LiveFairness ==
  /\ \A w \in Workers : WF_liveVars(LiveThread(w))
  /\ \A id \in ChatIds \cup NativeIds : SF_liveVars(Repeat(id))

-----------------------------------------------------------------------------
(* What a stop cut short is done by a repeat, as long as the adapter that   *)
(* the request was made with is in place: a chat whose hold was reserved is *)
(* recorded, wherever the process stopped (a repeat of a resource request   *)
(* conflicts with its own hold for ever); and a request with a stored       *)
(* receipt, of a task that has a truth, is scored, also when the process    *)
(* stopped between settling and scoring, or the truth was registered after  *)
(* the answer came, unless its hold was given back as known not to be       *)
(* charged.  Of a chat whose adapter is gone, or has another model or quote,*)
(* nothing is promised: its repeats are refused before the receipt is seen. *)
Unrecorded(id) == id \in DOMAIN holds /\ id \notin DOMAIN requests

Unscored(id) == /\ id \in DOMAIN receipts /\ requests[id].request \in cases
                /\ id \notin outcomes /\ holds[id].state # "RELEASED"

Unfinished(id) == (id \in ChatIds /\ Unrecorded(id)) \/ Unscored(id)

Accepted(id) ==
  LET request == holds[id].request IN
  request \in Chats => request \in configured /\ quotes[request] = holds[id].bound

AnswersAreScored ==
  \A id \in ChatIds \cup NativeIds : Unfinished(id) ~> ~ Unfinished(id) \/ ~ Accepted(id)
=============================================================================
