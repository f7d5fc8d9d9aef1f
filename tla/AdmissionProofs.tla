-------------------------- MODULE AdmissionProofs ---------------------------
(***************************************************************************)
(* Theorems about Admission for every number of connections and agents and *)
(* every pair of limits.                                                   *)
(*                                                                         *)
(* A step moves one connection, so each counter has to follow what that one*)
(* connection adds to the set it counts and takes from it.  This is all the*)
(* counters need; that the limits hold for connections rests besides on    *)
(* which connections are counted where (Routed), and that one mutation runs*)
(* at a time on who may hold the lock (Locked).                            *)
(***************************************************************************)
EXTENDS Admission, FiniteSetTheorems, TLAPS

ConnRow ==
  [step : Steps, agent : Agents \cup {Nobody}, mutation : BOOLEAN, counted : BOOLEAN]

CounterRow == [active : Nat, peak : Nat, admitted : Nat, rejected : Nat, completed : Nat]

(* Between its identification and its end, and only there, a request is     *)
(* counted for its agent; and only a mutation waits for the lock.           *)
Routed(r) ==
  /\ r.counted => r.agent # Nobody /\ r.step \in {"reading", "waiting", "routing", "leaving"}
  /\ r.step \in {"reading", "waiting", "routing"} /\ r.agent # Nobody => r.counted
  /\ r.step = "waiting" => r.mutation

Placed   == Served \cup {"admitted"}
Answered == {"refused", "dismissed"}

Mutates(r) == r.step = "routing" /\ r.mutation

(* The mutation that runs, if one does, holds the lock. *)
Locked == \A c \in Connections : Mutates(conns[c]) <=> holder = c

CountersFollow ==
  /\ admission.active = Cardinality(In(Placed))
  /\ admission.completed = Cardinality(In({"closed"}))
  /\ admission.rejected = Cardinality(In(Answered))
  /\ admission.admitted = admission.active + admission.completed + Cardinality(In({"unstarted"}))
  /\ admission.active <= LIMIT

AgentsFollow ==
  \A a \in Agents : /\ agents[a].active = Cardinality(Counted(a))
                    /\ agents[a].admitted = agents[a].active + agents[a].completed
                    /\ agents[a].active <= AGENT_LIMIT

AInv ==
  /\ AdmissionTypeOK /\ Locked /\ CountersFollow /\ AgentsFollow
  /\ \A c \in Connections : Routed(conns[c])

-----------------------------------------------------------------------------
(* Counting *)

(* What one element adds to a count. *)
Adds(x, S) == IF x \in S THEN 1 ELSE 0

(* Two finite sets that differ in one element at most. *)
LEMMA CountMoves ==
  ASSUME NEW P, NEW Q, NEW c, IsFiniteSet(P), P \ {c} = Q \ {c}
  PROVE  /\ Cardinality(P) \in Nat /\ Cardinality(Q) \in Nat /\ IsFiniteSet(Q)
         /\ Cardinality(Q) = (Cardinality(P) - Adds(c, P)) + Adds(c, Q)
<1> DEFINE R == P \ {c}
<1>1. IsFiniteSet(R) /\ c \notin R
  BY FS_Subset
<1>2. P \ {c} = R /\ Q \ {c} = R
  OBVIOUS
<1> HIDE DEF R
<1>3. Cardinality(R) \in Nat
  BY <1>1, FS_CardinalityType
<1>4. IsFiniteSet(R \cup {c}) /\ Cardinality(R \cup {c}) = Cardinality(R) + 1
  BY <1>1, FS_AddElement
<1>5. ASSUME NEW T, T \ {c} = R
      PROVE  IsFiniteSet(T) /\ Cardinality(T) = Cardinality(R) + Adds(c, T)
  <2>1. CASE c \in T
    <3>1. T = R \cup {c}
      BY <1>5, <2>1
    <3>2. QED
      BY <1>4, <2>1, <3>1 DEF Adds
  <2>2. CASE c \notin T
    <3>1. T = R
      BY <1>5, <2>2
    <3>2. QED
      BY <1>1, <1>3, <2>2, <3>1 DEF Adds
  <2>3. QED
    BY <2>1, <2>2
<1>6. /\ Cardinality(P) = Cardinality(R) + Adds(c, P)
      /\ Cardinality(Q) = Cardinality(R) + Adds(c, Q) /\ IsFiniteSet(Q)
  BY <1>2, <1>5
<1>7. QED
  BY <1>3, <1>6 DEF Adds

(* A step of one connection changes the counts by what that connection is.  *)
LEMMA OneConnection ==
  ASSUME AdmissionTypeOK, NEW c \in Connections, NEW r \in ConnRow, conns' = [conns EXCEPT ![c] = r]
  PROVE  /\ \A steps : /\ Cardinality(In(steps)) \in Nat /\ Cardinality(In(steps)') \in Nat
                       /\ Cardinality(In(steps)') =
                            (Cardinality(In(steps)) - Adds(conns[c].step, steps)) + Adds(r.step, steps)
         /\ \A a \in Agents :
              /\ Cardinality(Counted(a)) \in Nat /\ Cardinality(Counted(a)') \in Nat
              /\ Cardinality(Counted(a)') =
                   (Cardinality(Counted(a)) - (IF conns[c].counted /\ conns[c].agent = a THEN 1 ELSE 0))
                     + (IF r.counted /\ r.agent = a THEN 1 ELSE 0)
<1>1. conns'[c] = r /\ \A d \in Connections \ {c} : conns'[d] = conns[d]
  BY DEF AdmissionTypeOK
<1>2. ASSUME NEW steps
      PROVE  /\ Cardinality(In(steps)) \in Nat /\ Cardinality(In(steps)') \in Nat
             /\ Cardinality(In(steps)') =
                  (Cardinality(In(steps)) - Adds(conns[c].step, steps)) + Adds(r.step, steps)
  <2> DEFINE P == In(steps)
             Q == {d \in Connections : conns'[d].step \in steps}
  <2>1. IsFiniteSet(P) /\ P \ {c} = Q \ {c}
    BY <1>1, AdmissionAssumption, FS_Subset DEF In
  <2>2. (c \in P <=> conns[c].step \in steps) /\ (c \in Q <=> r.step \in steps)
    BY <1>1 DEF In
  <2>3. In(steps)' = Q
    BY DEF In
  <2> HIDE DEF P, Q
  <2>4. /\ Cardinality(P) \in Nat /\ Cardinality(Q) \in Nat
        /\ Cardinality(Q) = (Cardinality(P) - Adds(c, P)) + Adds(c, Q)
    BY <2>1, CountMoves
  <2>5. Adds(c, P) = Adds(conns[c].step, steps) /\ Adds(c, Q) = Adds(r.step, steps)
    BY <2>2 DEF Adds
  <2>6. QED
    BY <2>3, <2>4, <2>5 DEF P
<1>3. ASSUME NEW a \in Agents
      PROVE  /\ Cardinality(Counted(a)) \in Nat /\ Cardinality(Counted(a)') \in Nat
             /\ Cardinality(Counted(a)') =
                  (Cardinality(Counted(a)) - (IF conns[c].counted /\ conns[c].agent = a THEN 1 ELSE 0))
                    + (IF r.counted /\ r.agent = a THEN 1 ELSE 0)
  <2> DEFINE P == Counted(a)
             Q == {d \in Connections : conns'[d].counted /\ conns'[d].agent = a}
  <2>1. IsFiniteSet(P) /\ P \ {c} = Q \ {c}
    BY <1>1, AdmissionAssumption, FS_Subset DEF Counted
  <2>2. (c \in P <=> conns[c].counted /\ conns[c].agent = a) /\ (c \in Q <=> r.counted /\ r.agent = a)
    BY <1>1 DEF Counted
  <2>3. Counted(a)' = Q
    BY DEF Counted
  <2> HIDE DEF P, Q
  <2>4. /\ Cardinality(P) \in Nat /\ Cardinality(Q) \in Nat
        /\ Cardinality(Q) = (Cardinality(P) - Adds(c, P)) + Adds(c, Q)
    BY <2>1, CountMoves
  <2>5. QED
    BY <2>2, <2>3, <2>4 DEF P, Adds
<1>4. QED
  BY <1>2, <1>3

LEMMA AddsIs ==
  ASSUME NEW x, NEW S
  PROVE  Adds(x, S) \in Int /\ (x \in S => Adds(x, S) = 1) /\ (x \notin S => Adds(x, S) = 0)
BY DEF Adds

(* Whoever was admitted has a place, is over, or never got a thread. *)
LEMMA AddsAdmitted ==
  ASSUME NEW x
  PROVE  Adds(x, Placed \cup {"closed", "unstarted"})
           = Adds(x, Placed) + Adds(x, {"closed"}) + Adds(x, {"unstarted"})
<1>1. "closed" \notin Placed /\ "unstarted" \notin Placed
  BY DEF Placed, Served
<1> DEFINE all == Placed \cup {"closed", "unstarted"}
<1>2. x \in all <=> x \in Placed \/ x \in {"closed"} \/ x \in {"unstarted"}
  OBVIOUS
<1>3. x \in Placed => x \notin {"closed"} /\ x \notin {"unstarted"}
  BY <1>1
<1>4. x \in {"closed"} => x \notin {"unstarted"}
  OBVIOUS
<1> HIDE DEF all
<1>5. Adds(x, all) = Adds(x, Placed) + Adds(x, {"closed"}) + Adds(x, {"unstarted"})
  <2>1. CASE x \in Placed
    <3>1. Adds(x, all) = 1 /\ Adds(x, Placed) = 1 /\ Adds(x, {"closed"}) = 0 /\ Adds(x, {"unstarted"}) = 0
      BY <1>2, <1>3, <2>1, AddsIs
    <3>2. QED
      BY <3>1
  <2>2. CASE x \notin Placed /\ x \in {"closed"}
    <3>1. Adds(x, all) = 1 /\ Adds(x, Placed) = 0 /\ Adds(x, {"closed"}) = 1 /\ Adds(x, {"unstarted"}) = 0
      BY <1>2, <1>4, <2>2, AddsIs
    <3>2. QED
      BY <3>1
  <2>3. CASE x \notin Placed /\ x \notin {"closed"} /\ x \in {"unstarted"}
    <3>1. Adds(x, all) = 1 /\ Adds(x, Placed) = 0 /\ Adds(x, {"closed"}) = 0 /\ Adds(x, {"unstarted"}) = 1
      BY <1>2, <2>3, AddsIs
    <3>2. QED
      BY <3>1
  <2>4. CASE x \notin Placed /\ x \notin {"closed"} /\ x \notin {"unstarted"}
    <3>1. Adds(x, all) = 0 /\ Adds(x, Placed) = 0 /\ Adds(x, {"closed"}) = 0 /\ Adds(x, {"unstarted"}) = 0
      BY <1>2, <2>4, AddsIs
    <3>2. QED
      BY <3>1
  <2>5. QED
    BY <2>1, <2>2, <2>3, <2>4
<1>6. QED
  BY <1>5 DEF all

LEMMA SumsMove ==
  ASSUME NEW a \in Int, NEW b \in Int, NEW k \in Int, NEW p \in Int, NEW q \in Int, NEW n \in Int,
         NEW u \in Int, NEW v \in Int, NEW m \in Int
  PROVE  ((a + b + k) - (p + q + n)) + (u + v + m) = ((a - p) + u) + ((b - q) + v) + ((k - n) + m)
OBVIOUS

(* A step of one connection that accounts for it keeps the invariant. *)
LEMMA AccountedStep ==
  ASSUME AInv, NEW c \in Connections, NEW r \in ConnRow, conns' = [conns EXCEPT ![c] = r], Routed(r),
         admission' \in CounterRow, agents' \in [Agents -> CounterRow], holder' \in Connections \cup {Nobody},
         admission'.active    = (admission.active - Adds(conns[c].step, Placed)) + Adds(r.step, Placed),
         admission'.completed = (admission.completed - Adds(conns[c].step, {"closed"})) + Adds(r.step, {"closed"}),
         admission'.rejected  = (admission.rejected - Adds(conns[c].step, Answered)) + Adds(r.step, Answered),
         admission'.admitted  = (admission.admitted - Adds(conns[c].step, Placed \cup {"closed", "unstarted"}))
                                  + Adds(r.step, Placed \cup {"closed", "unstarted"}),
         admission'.active <= LIMIT,
         \A a \in Agents :
           /\ agents'[a].active = (agents[a].active - (IF conns[c].counted /\ conns[c].agent = a THEN 1 ELSE 0))
                                    + (IF r.counted /\ r.agent = a THEN 1 ELSE 0)
           /\ agents'[a].admitted = agents'[a].active + agents'[a].completed
           /\ agents'[a].active <= AGENT_LIMIT,
         Mutates(r) <=> holder' = c,
         \A d \in Connections \ {c} : holder' = d <=> holder = d
  PROVE  AInv'
<1>0. AdmissionTypeOK /\ conns \in [Connections -> ConnRow] /\ admission \in CounterRow
  BY DEF AInv, AdmissionTypeOK, ConnRow, CounterRow
<1>1. AdmissionTypeOK'
  <2>1. conns' \in [Connections -> ConnRow]
    BY <1>0
  <2>2. QED
    BY <2>1 DEF AdmissionTypeOK, ConnRow, CounterRow
<1>2. conns'[c] = r /\ \A d \in Connections \ {c} : conns'[d] = conns[d]
  BY <1>0
<1>3. \A d \in Connections : Routed(conns'[d])
  BY <1>2 DEF AInv
<1>4. Locked'
  <2>1. \A d \in Connections : Mutates(conns[d]) <=> holder = d
    BY DEF AInv, Locked
  <2>2. \A d \in Connections : Mutates(conns'[d]) <=> holder' = d
    BY <1>2, <2>1 DEF Mutates
  <2>3. QED
    BY <2>2 DEF Locked, Mutates
<1>5. CountersFollow'
  <2>1. \A steps : /\ Cardinality(In(steps)) \in Nat /\ Cardinality(In(steps)') \in Nat
                   /\ Cardinality(In(steps)') =
                        (Cardinality(In(steps)) - Adds(conns[c].step, steps)) + Adds(r.step, steps)
    BY <1>0, OneConnection
  <2>2. /\ Cardinality(In(Placed)') = (Cardinality(In(Placed)) - Adds(conns[c].step, Placed)) + Adds(r.step, Placed)
        /\ Cardinality(In({"closed"})') =
             (Cardinality(In({"closed"})) - Adds(conns[c].step, {"closed"})) + Adds(r.step, {"closed"})
        /\ Cardinality(In(Answered)') =
             (Cardinality(In(Answered)) - Adds(conns[c].step, Answered)) + Adds(r.step, Answered)
        /\ Cardinality(In({"unstarted"})') =
             (Cardinality(In({"unstarted"})) - Adds(conns[c].step, {"unstarted"})) + Adds(r.step, {"unstarted"})
        /\ Cardinality(In({"unstarted"})) \in Nat
    BY <2>1
  <2>3. \A step : Adds(step, Placed \cup {"closed", "unstarted"}) =
                    Adds(step, Placed) + Adds(step, {"closed"}) + Adds(step, {"unstarted"})
    BY AddsAdmitted
  <2>4. \A step, S : Adds(step, S) \in Int
    BY AddsIs
  <2>5. /\ admission.active = Cardinality(In(Placed))
        /\ admission.completed = Cardinality(In({"closed"}))
        /\ admission.rejected = Cardinality(In(Answered))
        /\ admission.admitted = admission.active + admission.completed + Cardinality(In({"unstarted"}))
    BY DEF AInv, CountersFollow
  <2>6. /\ admission'.active = Cardinality(In(Placed)')
        /\ admission'.completed = Cardinality(In({"closed"})')
        /\ admission'.rejected = Cardinality(In(Answered)')
    BY <2>2, <2>5
  <2>7. admission'.admitted = admission'.active + admission'.completed + Cardinality(In({"unstarted"})')
    <3> DEFINE p == Adds(conns[c].step, Placed)
               q == Adds(conns[c].step, {"closed"})
               n == Adds(conns[c].step, {"unstarted"})
               p2 == Adds(r.step, Placed)
               q2 == Adds(r.step, {"closed"})
               n2 == Adds(r.step, {"unstarted"})
               k == Cardinality(In({"unstarted"}))
               k2 == Cardinality(In({"unstarted"})')
    <3>0. /\ Adds(conns[c].step, Placed \cup {"closed", "unstarted"}) = p + q + n
          /\ Adds(r.step, Placed \cup {"closed", "unstarted"}) = p2 + q2 + n2
      BY <2>3
    <3>1. /\ admission'.active = (admission.active - p) + p2
          /\ admission'.completed = (admission.completed - q) + q2
          /\ k2 = (k - n) + n2 /\ k \in Int
          /\ admission'.admitted = (admission.admitted - (p + q + n)) + (p2 + q2 + n2)
          /\ admission.admitted = admission.active + admission.completed + k
      BY <2>2, <2>5, <3>0
    <3>2. p \in Int /\ q \in Int /\ n \in Int /\ p2 \in Int /\ q2 \in Int /\ n2 \in Int
      BY <2>4
    <3>3. admission.active \in Int /\ admission.completed \in Int
      BY <1>0 DEF CounterRow
    <3> HIDE DEF p, q, n, p2, q2, n2, k, k2
    <3>4. admission'.admitted = admission'.active + admission'.completed + k2
      BY <3>1, <3>2, <3>3, SumsMove
    <3>5. QED
      BY <3>4 DEF k2
  <2>8. QED
    BY <2>6, <2>7 DEF CountersFollow
<1>6. AgentsFollow'
  <2>1. SUFFICES ASSUME NEW a \in Agents
                 PROVE  /\ agents'[a].active = Cardinality(Counted(a)')
                        /\ agents'[a].admitted = agents'[a].active + agents'[a].completed
                        /\ agents'[a].active <= AGENT_LIMIT
    BY DEF AgentsFollow
  <2>2. agents[a].active = Cardinality(Counted(a))
    BY DEF AInv, AgentsFollow
  <2>3. Cardinality(Counted(a)') =
          (Cardinality(Counted(a)) - (IF conns[c].counted /\ conns[c].agent = a THEN 1 ELSE 0))
            + (IF r.counted /\ r.agent = a THEN 1 ELSE 0)
    BY <1>0, OneConnection
  <2>4. QED
    BY <2>2, <2>3
<1>7. QED
  BY <1>1, <1>3, <1>4, <1>5, <1>6 DEF AInv

-----------------------------------------------------------------------------
(* The steps *)

LEMMA ConnFacts ==
  ASSUME AInv, NEW c \in Connections
  PROVE  /\ conns[c] \in ConnRow /\ Routed(conns[c]) /\ conns \in [Connections -> ConnRow]
         /\ admission \in CounterRow /\ agents \in [Agents -> CounterRow]
         /\ holder \in Connections \cup {Nobody} /\ Nobody \notin Connections \cup Agents
         /\ \A d \in Connections : Mutates(conns[d]) <=> holder = d
         /\ admission.active <= LIMIT
         /\ \A a \in Agents : /\ agents[a].admitted = agents[a].active + agents[a].completed
                              /\ agents[a].active <= AGENT_LIMIT
<1>1. conns \in [Connections -> ConnRow]
  BY DEF AInv, AdmissionTypeOK, ConnRow
<1>2. admission \in CounterRow /\ agents \in [Agents -> CounterRow] /\ holder \in Connections \cup {Nobody}
  BY DEF AInv, AdmissionTypeOK, CounterRow
<1>3. \A d \in Connections : Mutates(conns[d]) <=> holder = d
  BY DEF AInv, Locked
<1>4. admission.active <= LIMIT
  BY DEF AInv, CountersFollow
<1>5. \A a \in Agents : /\ agents[a].admitted = agents[a].active + agents[a].completed
                        /\ agents[a].active <= AGENT_LIMIT
  BY DEF AInv, AgentsFollow
<1>6. Routed(conns[c])
  BY DEF AInv
<1>7. QED
  BY <1>1, <1>2, <1>3, <1>4, <1>5, <1>6, AdmissionAssumption

(* A step that counts nothing, as far as the lock lets it. *)
LEMMA SilentStep ==
  ASSUME AInv, NEW c \in Connections, NEW step \in Steps,
         Goes(c, step), Routed([conns[c] EXCEPT !.step = step]), UNCHANGED <<admission, agents>>,
         Adds(conns[c].step, Placed) = Adds(step, Placed), Adds(conns[c].step, {"closed"}) = Adds(step, {"closed"}),
         Adds(conns[c].step, Answered) = Adds(step, Answered),
         Adds(conns[c].step, {"unstarted"}) = Adds(step, {"unstarted"}),
         holder' \in Connections \cup {Nobody},
         (step = "routing" /\ conns[c].mutation) <=> holder' = c,
         \A d \in Connections \ {c} : holder' = d <=> holder = d
  PROVE  AInv'
<1> DEFINE r == [conns[c] EXCEPT !.step = step]
<1>1. conns[c] \in ConnRow /\ admission \in CounterRow /\ agents \in [Agents -> CounterRow]
  BY ConnFacts
<1>2. /\ r \in ConnRow /\ conns' = [conns EXCEPT ![c] = r] /\ r.step = step
      /\ r.counted = conns[c].counted /\ r.agent = conns[c].agent /\ r.mutation = conns[c].mutation
  BY <1>1 DEF Goes, ConnRow
<1>3. Routed(r)
  OBVIOUS
<1> HIDE DEF r
<1>4. /\ Adds(conns[c].step, Placed \cup {"closed", "unstarted"}) = Adds(r.step, Placed \cup {"closed", "unstarted"})
      /\ Adds(conns[c].step, Placed \cup {"closed", "unstarted"}) \in Int
  BY <1>2, AddsAdmitted, AddsIs
<1>5. admission' = admission /\ agents' = agents
  OBVIOUS
<1>6. \A n \in Int, k \in Int : n = (n - k) + k
  OBVIOUS
<1>7. /\ admission.active \in Int /\ admission.completed \in Int /\ admission.rejected \in Int
      /\ admission.admitted \in Int /\ \A a \in Agents : agents[a].active \in Int
  BY <1>1 DEF CounterRow
<1>8. /\ admission'.active    = (admission.active - Adds(conns[c].step, Placed)) + Adds(r.step, Placed)
      /\ admission'.completed = (admission.completed - Adds(conns[c].step, {"closed"})) + Adds(r.step, {"closed"})
      /\ admission'.rejected  = (admission.rejected - Adds(conns[c].step, Answered)) + Adds(r.step, Answered)
      /\ admission'.admitted  = (admission.admitted - Adds(conns[c].step, Placed \cup {"closed", "unstarted"}))
                                  + Adds(r.step, Placed \cup {"closed", "unstarted"})
  BY <1>2, <1>4, <1>5, <1>6, <1>7, AddsIs
<1>9. \A a \in Agents :
        /\ agents'[a].active = (agents[a].active - (IF conns[c].counted /\ conns[c].agent = a THEN 1 ELSE 0))
                                 + (IF r.counted /\ r.agent = a THEN 1 ELSE 0)
        /\ agents'[a].admitted = agents'[a].active + agents'[a].completed
        /\ agents'[a].active <= AGENT_LIMIT
  BY <1>2, <1>5, <1>7, ConnFacts
<1>10. Mutates(r) <=> holder' = c
  BY <1>2 DEF Mutates
<1>11. admission'.active <= LIMIT
  BY <1>5, ConnFacts
<1>12. QED
  BY <1>1, <1>2, <1>3, <1>5, <1>8, <1>9, <1>10, <1>11, AccountedStep

(* What the accepting thread does with a connection it took. *)
LEMMA AcceptingInductive ==
  ASSUME AInv, NEW c \in Connections, TurnAway(c) \/ Start(c)
  PROVE  AInv'
<1>1. /\ conns[c] \in ConnRow /\ Routed(conns[c]) /\ holder \in Connections \cup {Nobody}
      /\ Mutates(conns[c]) <=> holder = c
  BY ConnFacts
<1>2. CASE TurnAway(c)
  <2>1. conns[c].step = "refused" /\ Goes(c, "dismissed") /\ UNCHANGED <<admission, agents, holder>>
    BY <1>2 DEF TurnAway
  <2>2. Routed([conns[c] EXCEPT !.step = "dismissed"]) /\ "dismissed" \in Steps
    BY <1>1, <2>1 DEF Routed, ConnRow, Steps, Over
  <2>3. /\ Adds("refused", Placed) = Adds("dismissed", Placed)
        /\ Adds("refused", {"closed"}) = Adds("dismissed", {"closed"})
        /\ Adds("refused", Answered) = Adds("dismissed", Answered)
        /\ Adds("refused", {"unstarted"}) = Adds("dismissed", {"unstarted"})
    BY DEF Adds, Placed, Served, Answered
  <2>4. holder # c
    BY <1>1, <2>1 DEF Mutates
  <2>5. QED
    BY <1>1, <2>1, <2>2, <2>3, <2>4, SilentStep
<1>3. CASE Start(c)
  <2>1. conns[c].step = "admitted" /\ Goes(c, "started") /\ UNCHANGED <<admission, agents, holder>>
    BY <1>3 DEF Start
  <2>2. Routed([conns[c] EXCEPT !.step = "started"]) /\ "started" \in Steps
    BY <1>1, <2>1 DEF Routed, ConnRow, Steps, Served
  <2>3. /\ Adds("admitted", Placed) = Adds("started", Placed)
        /\ Adds("admitted", {"closed"}) = Adds("started", {"closed"})
        /\ Adds("admitted", Answered) = Adds("started", Answered)
        /\ Adds("admitted", {"unstarted"}) = Adds("started", {"unstarted"})
    BY DEF Adds, Placed, Served, Answered
  <2>4. holder # c
    BY <1>1, <2>1 DEF Mutates
  <2>5. QED
    BY <1>1, <2>1, <2>2, <2>3, <2>4, SilentStep
<1>4. QED
  BY <1>2, <1>3

(* What a thread does between its identification and its answer. *)
LEMMA InService ==
  \A s, t \in {"started", "reading", "waiting", "routing", "leaving"} :
    /\ Adds(s, Placed) = Adds(t, Placed) /\ Adds(s, {"closed"}) = Adds(t, {"closed"})
    /\ Adds(s, Answered) = Adds(t, Answered) /\ Adds(s, {"unstarted"}) = Adds(t, {"unstarted"})
    /\ s \in Steps
BY DEF Adds, Placed, Served, Answered, Steps

LEMMA ThreadInductive ==
  ASSUME AInv, NEW c \in Connections, ReadBody(c) \/ TakeLock(c) \/ Route(c)
  PROVE  AInv'
<1>1. /\ conns[c] \in ConnRow /\ Routed(conns[c]) /\ holder \in Connections \cup {Nobody}
      /\ (conns[c].step = "routing" /\ conns[c].mutation) <=> holder = c
      /\ Nobody \notin Connections
  BY ConnFacts DEF Mutates
<1>2. CASE ReadBody(c)
  <2>1. /\ conns[c].step = "reading" /\ UNCHANGED <<admission, agents, holder>>
        /\ \/ Goes(c, "waiting") /\ conns[c].mutation
           \/ Goes(c, "routing") /\ ~ conns[c].mutation
           \/ Goes(c, "leaving")
    BY <1>2 DEF ReadBody
  <2>2. PICK step \in {"waiting", "routing", "leaving"} :
          /\ Goes(c, step)
          /\ step = "waiting" => conns[c].mutation
          /\ step = "routing" => ~ conns[c].mutation
    BY <2>1
  <2>3. Routed([conns[c] EXCEPT !.step = step])
    BY <1>1, <2>1, <2>2 DEF Routed, ConnRow
  <2>4. holder # c
    BY <1>1, <2>1
  <2>5. /\ Adds("reading", Placed) = Adds(step, Placed) /\ Adds("reading", {"closed"}) = Adds(step, {"closed"})
        /\ Adds("reading", Answered) = Adds(step, Answered)
        /\ Adds("reading", {"unstarted"}) = Adds(step, {"unstarted"}) /\ step \in Steps
    BY InService
  <2>6. QED
    BY <1>1, <2>1, <2>2, <2>3, <2>4, <2>5, SilentStep
<1>3. CASE TakeLock(c)
  <2>1. /\ conns[c].step = "waiting" /\ holder = Nobody /\ holder' = c
        /\ Goes(c, "routing") /\ UNCHANGED <<admission, agents>>
    BY <1>3 DEF TakeLock
  <2>2. Routed([conns[c] EXCEPT !.step = "routing"]) /\ conns[c].mutation
    BY <1>1, <2>1 DEF Routed, ConnRow
  <2>3. /\ Adds("waiting", Placed) = Adds("routing", Placed)
        /\ Adds("waiting", {"closed"}) = Adds("routing", {"closed"})
        /\ Adds("waiting", Answered) = Adds("routing", Answered)
        /\ Adds("waiting", {"unstarted"}) = Adds("routing", {"unstarted"}) /\ "routing" \in Steps
    BY InService
  <2>4. QED
    BY <1>1, <2>1, <2>2, <2>3, SilentStep
<1>4. CASE Route(c)
  <2>1. /\ conns[c].step = "routing" /\ Goes(c, "leaving") /\ UNCHANGED <<admission, agents>>
        /\ holder' = IF holder = c THEN Nobody ELSE holder
    BY <1>4 DEF Route
  <2>2. Routed([conns[c] EXCEPT !.step = "leaving"])
    BY <1>1, <2>1 DEF Routed, ConnRow
  <2>3. /\ Adds("routing", Placed) = Adds("leaving", Placed)
        /\ Adds("routing", {"closed"}) = Adds("leaving", {"closed"})
        /\ Adds("routing", Answered) = Adds("leaving", Answered)
        /\ Adds("routing", {"unstarted"}) = Adds("leaving", {"unstarted"}) /\ "leaving" \in Steps
    BY InService
  <2>4. holder' \in Connections \cup {Nobody} /\ holder' # c /\ \A d \in Connections \ {c} : holder' = d <=> holder = d
    BY <1>1, <2>1
  <2>5. QED
    BY <1>1, <2>1, <2>2, <2>3, <2>4, SilentStep
<1>5. QED
  BY <1>2, <1>3, <1>4

(* A counted request, or connection. *)
LEMMA AdmittedRow ==
  ASSUME NEW k \in CounterRow
  PROVE  /\ Admitted(k) \in CounterRow /\ Admitted(k).active = k.active + 1
         /\ Admitted(k).admitted = k.admitted + 1 /\ Admitted(k).completed = k.completed
         /\ Admitted(k).rejected = k.rejected
         /\ k.active \in Nat /\ k.admitted \in Nat /\ k.completed \in Nat /\ k.rejected \in Nat
<1> DEFINE peak == Larger(k.peak, k.active + 1)
<1>1. /\ k.active \in Nat /\ k.admitted \in Nat /\ k.completed \in Nat /\ k.rejected \in Nat
      /\ k.peak \in Nat
  BY DEF CounterRow
<1>2. peak \in Nat
  BY <1>1 DEF Larger
<1>3. Admitted(k) = [k EXCEPT !.active = @ + 1, !.admitted = @ + 1, !.peak = peak]
  BY DEF Admitted, CounterRow, Larger
<1> HIDE DEF peak
<1>4. Admitted(k) = [active |-> k.active + 1, peak |-> peak, admitted |-> k.admitted + 1,
                     rejected |-> k.rejected, completed |-> k.completed]
  BY <1>3 DEF CounterRow
<1>5. QED
  BY <1>1, <1>2, <1>4 DEF CounterRow

(* The identification, where an agent's request is counted or rejected. *)
LEMMA IdentifyInductive ==
  ASSUME AInv, NEW c \in Connections, Identify(c)
  PROVE  AInv'
<1> DEFINE a == conns[c].agent
<1>1. /\ conns[c] \in ConnRow /\ Routed(conns[c]) /\ holder \in Connections \cup {Nobody}
      /\ (conns[c].step = "routing" /\ conns[c].mutation) <=> holder = c
      /\ Nobody \notin Connections /\ agents \in [Agents -> CounterRow] /\ admission \in CounterRow
  BY ConnFacts DEF Mutates
<1>2. /\ conns[c].step = "started" /\ admission' = admission /\ holder' = holder
      /\ \/ Goes(c, "leaving") /\ UNCHANGED agents
         \/ a = Nobody /\ Goes(c, "reading") /\ UNCHANGED agents
         \/ /\ a # Nobody /\ Room(agents[a], AGENT_LIMIT)
            /\ conns'  = [conns EXCEPT ![c].step = "reading", ![c].counted = TRUE]
            /\ agents' = [agents EXCEPT ![a] = Admitted(@)]
         \/ /\ a # Nobody /\ Goes(c, "leaving")
            /\ agents' = [agents EXCEPT ![a] = Rejected(@)]
  BY DEF Identify
<1>3. ~ conns[c].counted /\ holder # c
  BY <1>1, <1>2 DEF Routed, ConnRow
<1>4. \A step \in {"reading", "leaving"} :
        /\ Adds("started", Placed) = Adds(step, Placed) /\ Adds("started", {"closed"}) = Adds(step, {"closed"})
        /\ Adds("started", Answered) = Adds(step, Answered)
        /\ Adds("started", {"unstarted"}) = Adds(step, {"unstarted"}) /\ step \in Steps
  BY InService
<1>5. ASSUME NEW step \in {"reading", "leaving"}, Goes(c, step), UNCHANGED agents, step = "reading" => a = Nobody
      PROVE  AInv'
  <2>1. Routed([conns[c] EXCEPT !.step = step])
    BY <1>1, <1>3, <1>5 DEF Routed, ConnRow
  <2>2. QED
    BY <1>1, <1>2, <1>3, <1>4, <1>5, <2>1, SilentStep
<1>6. ASSUME NEW r \in ConnRow, conns' = [conns EXCEPT ![c] = r], r.step \in {"reading", "leaving"}, Routed(r),
             r.agent = a, a \in Agents, NEW row \in CounterRow, agents' = [agents EXCEPT ![a] = row],
             row.active = agents[a].active + (IF r.counted THEN 1 ELSE 0),
             row.admitted = row.active + row.completed, row.active <= AGENT_LIMIT
      PROVE  AInv'
  <2>1. agents' \in [Agents -> CounterRow]
    BY <1>1, <1>6
  <2>2. /\ admission'.active    = (admission.active - Adds(conns[c].step, Placed)) + Adds(r.step, Placed)
        /\ admission'.completed = (admission.completed - Adds(conns[c].step, {"closed"})) + Adds(r.step, {"closed"})
        /\ admission'.rejected  = (admission.rejected - Adds(conns[c].step, Answered)) + Adds(r.step, Answered)
        /\ admission'.admitted  = (admission.admitted - Adds(conns[c].step, Placed \cup {"closed", "unstarted"}))
                                    + Adds(r.step, Placed \cup {"closed", "unstarted"})
    <3>1. \A n \in Int, k \in Int : n = (n - k) + k
      OBVIOUS
    <3>2. /\ admission.active \in Int /\ admission.completed \in Int /\ admission.rejected \in Int
          /\ admission.admitted \in Int
      BY <1>1 DEF CounterRow
    <3>3. /\ Adds("started", Placed) = Adds(r.step, Placed) /\ Adds("started", {"closed"}) = Adds(r.step, {"closed"})
          /\ Adds("started", Answered) = Adds(r.step, Answered)
          /\ Adds("started", {"unstarted"}) = Adds(r.step, {"unstarted"})
      BY <1>4, <1>6
    <3>4. Adds("started", Placed \cup {"closed", "unstarted"}) = Adds(r.step, Placed \cup {"closed", "unstarted"})
      BY <3>3, AddsAdmitted
    <3>5. QED
      BY <1>2, <3>1, <3>2, <3>3, <3>4, AddsIs
  <2>3. \A b \in Agents :
          /\ agents'[b].active = (agents[b].active - (IF conns[c].counted /\ conns[c].agent = b THEN 1 ELSE 0))
                                   + (IF r.counted /\ r.agent = b THEN 1 ELSE 0)
          /\ agents'[b].admitted = agents'[b].active + agents'[b].completed
          /\ agents'[b].active <= AGENT_LIMIT
    <3>1. TAKE b \in Agents
    <3>2. /\ agents[b].admitted = agents[b].active + agents[b].completed
          /\ agents[b].active <= AGENT_LIMIT /\ agents[b].active \in Nat
      BY <1>1, ConnFacts DEF CounterRow
    <3>3. CASE b = a
      BY <1>1, <1>3, <1>6, <3>2, <3>3
    <3>4. CASE b # a
      BY <1>1, <1>3, <1>6, <3>2, <3>4
    <3>5. QED
      BY <3>3, <3>4
  <2>4. Mutates(r) <=> holder' = c
    BY <1>2, <1>3, <1>6 DEF Mutates
  <2>5. admission'.active <= LIMIT /\ admission' \in CounterRow
    BY <1>1, <1>2, ConnFacts
  <2>6. QED
    BY <1>1, <1>2, <1>6, <2>1, <2>2, <2>3, <2>4, <2>5, AccountedStep
<1>7. ASSUME a \in Agents
      PROVE  /\ agents[a] \in CounterRow
             /\ agents[a].active \in Nat /\ agents[a].admitted \in Nat /\ agents[a].completed \in Nat
             /\ agents[a].admitted = agents[a].active + agents[a].completed /\ agents[a].active <= AGENT_LIMIT
  BY <1>1, <1>7, ConnFacts DEF CounterRow
<1>8. CASE Goes(c, "leaving") /\ UNCHANGED agents
  BY <1>5, <1>8
<1>9. CASE a = Nobody /\ Goes(c, "reading") /\ UNCHANGED agents
  BY <1>5, <1>9
<1>10. CASE /\ a # Nobody /\ Room(agents[a], AGENT_LIMIT)
            /\ conns'  = [conns EXCEPT ![c].step = "reading", ![c].counted = TRUE]
            /\ agents' = [agents EXCEPT ![a] = Admitted(@)]
  <2> DEFINE r == [conns[c] EXCEPT !.step = "reading", !.counted = TRUE]
             row == Admitted(agents[a])
  <2>1. a \in Agents
    BY <1>1, <1>10 DEF ConnRow
  <2>2. /\ r \in ConnRow /\ r.step = "reading" /\ r.agent = a /\ r.counted /\ conns' = [conns EXCEPT ![c] = r]
        /\ Routed(r)
    BY <1>1, <1>4, <1>10 DEF ConnRow, Routed
  <2>3. /\ row \in CounterRow /\ row.active = agents[a].active + 1
        /\ row.admitted = agents[a].admitted + 1 /\ row.completed = agents[a].completed
    BY <1>7, <2>1, AdmittedRow
  <2>4. row.admitted = row.active + row.completed
    BY <1>7, <2>1, <2>3
  <2>5. row.active <= AGENT_LIMIT
    BY <1>7, <1>10, <2>1, <2>3, AdmissionAssumption DEF Room
  <2>6. agents' = [agents EXCEPT ![a] = row]
    BY <1>1, <1>10, <2>1
  <2> HIDE DEF r, row
  <2>7. QED
    BY <1>6, <2>1, <2>2, <2>3, <2>4, <2>5, <2>6
<1>11. CASE /\ a # Nobody /\ Goes(c, "leaving")
            /\ agents' = [agents EXCEPT ![a] = Rejected(@)]
  <2> DEFINE r == [conns[c] EXCEPT !.step = "leaving"]
             row == Rejected(agents[a])
  <2>1. a \in Agents
    BY <1>1, <1>11 DEF ConnRow
  <2>2. /\ r \in ConnRow /\ r.step = "leaving" /\ r.agent = a /\ ~ r.counted /\ conns' = [conns EXCEPT ![c] = r]
        /\ Routed(r)
    BY <1>1, <1>3, <1>4, <1>11 DEF ConnRow, Routed, Goes
  <2>3. /\ row \in CounterRow /\ row.active = agents[a].active
        /\ row.admitted = row.active + row.completed
    BY <1>7, <2>1 DEF CounterRow, Rejected
  <2>4. agents' = [agents EXCEPT ![a] = row]
    BY <1>1, <1>11, <2>1
  <2> HIDE DEF r, row
  <2>5. row.active <= AGENT_LIMIT /\ row.active = agents[a].active + (IF r.counted THEN 1 ELSE 0)
    BY <1>7, <2>1, <2>2, <2>3
  <2>6. QED
    BY <1>6, <2>1, <2>2, <2>3, <2>4, <2>5
<1>12. QED
  BY <1>2, <1>8, <1>9, <1>10, <1>11

(* A place that is given back had been taken. *)
LEMMA PlaceTaken ==
  ASSUME AInv, NEW c \in Connections, conns[c].step \in Placed
  PROVE  admission.active \in Nat \ {0}
<1> DEFINE P == In(Placed)
<1>1. IsFiniteSet(P) /\ c \in P
  BY AdmissionAssumption, FS_Subset DEF In
<1>2. admission.active = Cardinality(P)
  BY DEF AInv, CountersFollow
<1> HIDE DEF P
<1>3. Cardinality(P) \in Nat /\ (Cardinality(P) = 0 <=> P = {})
  BY <1>1, FS_CardinalityType, FS_EmptySet
<1>4. QED
  BY <1>1, <1>2, <1>3

LEMMA RequestCounted ==
  ASSUME AInv, NEW c \in Connections, conns[c].counted
  PROVE  conns[c].agent \in Agents /\ agents[conns[c].agent].active \in Nat \ {0}
<1> DEFINE a == conns[c].agent
           P == Counted(a)
<1>1. a \in Agents
  BY ConnFacts DEF Routed, ConnRow
<1>2. IsFiniteSet(P) /\ c \in P
  BY AdmissionAssumption, FS_Subset DEF Counted
<1>3. agents[a].active = Cardinality(P)
  BY <1>1 DEF AInv, AgentsFollow
<1> HIDE DEF P
<1>4. Cardinality(P) \in Nat /\ (Cardinality(P) = 0 <=> P = {})
  BY <1>2, FS_CardinalityType, FS_EmptySet
<1>5. QED
  BY <1>1, <1>2, <1>3, <1>4

(* A connection that comes is counted in, or counted as rejected. *)
LEMMA AcceptInductive ==
  ASSUME AInv, NEW c \in Connections, NEW agent \in Agents \cup {Nobody}, NEW mutation \in BOOLEAN,
         Accept(c, agent, mutation)
  PROVE  AInv'
<1> DEFINE r == [step |-> IF Room(admission, LIMIT) THEN "admitted" ELSE "refused",
                 agent |-> agent, mutation |-> mutation, counted |-> FALSE]
<1>1. /\ conns[c] \in ConnRow /\ Routed(conns[c]) /\ holder \in Connections \cup {Nobody}
      /\ (conns[c].step = "routing" /\ conns[c].mutation) <=> holder = c
      /\ agents \in [Agents -> CounterRow] /\ admission \in CounterRow /\ admission.active <= LIMIT
      /\ \A a \in Agents : /\ agents[a].admitted = agents[a].active + agents[a].completed
                           /\ agents[a].active <= AGENT_LIMIT
  BY ConnFacts DEF Mutates
<1>2. /\ conns[c].step = "away" /\ conns' = [conns EXCEPT ![c] = r]
      /\ admission' = IF Room(admission, LIMIT) THEN Admitted(admission) ELSE Rejected(admission)
      /\ agents' = agents /\ holder' = holder
  BY DEF Accept
<1>3. /\ r \in ConnRow /\ ~ r.counted /\ r.agent = agent /\ Routed(r)
      /\ r.step = IF Room(admission, LIMIT) THEN "admitted" ELSE "refused"
  BY DEF ConnRow, Routed, Steps, Accepting
<1> HIDE DEF r
<1>4. ~ conns[c].counted /\ holder # c
  BY <1>1, <1>2 DEF Routed
<1>5. \A a \in Agents :
        /\ agents'[a].active = (agents[a].active - (IF conns[c].counted /\ conns[c].agent = a THEN 1 ELSE 0))
                                 + (IF r.counted /\ r.agent = a THEN 1 ELSE 0)
        /\ agents'[a].admitted = agents'[a].active + agents'[a].completed
        /\ agents'[a].active <= AGENT_LIMIT
  <2>1. TAKE a \in Agents
  <2>2. agents[a].active \in Nat
    BY <1>1 DEF CounterRow
  <2>3. QED
    BY <1>1, <1>2, <1>3, <1>4, <2>2
<1>6. Mutates(r) <=> holder' = c
  BY <1>2, <1>3, <1>4 DEF Mutates
<1>7. /\ admission.active \in Nat /\ admission.completed \in Nat /\ admission.rejected \in Nat
      /\ admission.admitted \in Nat
  BY <1>1 DEF CounterRow
<1>8. CASE Room(admission, LIMIT)
  <2>1. /\ admission' \in CounterRow /\ admission'.active = admission.active + 1
        /\ admission'.admitted = admission.admitted + 1 /\ admission'.completed = admission.completed
        /\ admission'.rejected = admission.rejected
    BY <1>1, <1>2, <1>8, AdmittedRow
  <2>2. admission'.active <= LIMIT
    BY <1>7, <1>8, <2>1, AdmissionAssumption DEF Room
  <2>3. r.step = "admitted"
    BY <1>3, <1>8
  <2>4. /\ Adds("away", Placed) = 0 /\ Adds("admitted", Placed) = 1
        /\ Adds("away", {"closed"}) = 0 /\ Adds("admitted", {"closed"}) = 0
        /\ Adds("away", Answered) = 0 /\ Adds("admitted", Answered) = 0
        /\ Adds("away", Placed \cup {"closed", "unstarted"}) = 0
        /\ Adds("admitted", Placed \cup {"closed", "unstarted"}) = 1
    BY DEF Adds, Placed, Served, Answered
  <2>5. /\ admission'.active    = (admission.active - Adds(conns[c].step, Placed)) + Adds(r.step, Placed)
        /\ admission'.completed = (admission.completed - Adds(conns[c].step, {"closed"})) + Adds(r.step, {"closed"})
        /\ admission'.rejected  = (admission.rejected - Adds(conns[c].step, Answered)) + Adds(r.step, Answered)
        /\ admission'.admitted  = (admission.admitted - Adds(conns[c].step, Placed \cup {"closed", "unstarted"}))
                                    + Adds(r.step, Placed \cup {"closed", "unstarted"})
    BY <1>2, <1>7, <2>1, <2>3, <2>4
  <2>6. QED
    BY <1>1, <1>2, <1>3, <1>5, <1>6, <2>1, <2>2, <2>5, AccountedStep
<1>9. CASE ~ Room(admission, LIMIT)
  <2>1. /\ admission' \in CounterRow /\ admission'.active = admission.active
        /\ admission'.admitted = admission.admitted /\ admission'.completed = admission.completed
        /\ admission'.rejected = admission.rejected + 1
    BY <1>1, <1>2, <1>7, <1>9 DEF Rejected, CounterRow
  <2>2. r.step = "refused"
    BY <1>3, <1>9
  <2>3. /\ Adds("away", Placed) = 0 /\ Adds("refused", Placed) = 0
        /\ Adds("away", {"closed"}) = 0 /\ Adds("refused", {"closed"}) = 0
        /\ Adds("away", Answered) = 0 /\ Adds("refused", Answered) = 1
        /\ Adds("away", Placed \cup {"closed", "unstarted"}) = 0
        /\ Adds("refused", Placed \cup {"closed", "unstarted"}) = 0
    BY DEF Adds, Placed, Served, Answered
  <2>4. /\ admission'.active    = (admission.active - Adds(conns[c].step, Placed)) + Adds(r.step, Placed)
        /\ admission'.completed = (admission.completed - Adds(conns[c].step, {"closed"})) + Adds(r.step, {"closed"})
        /\ admission'.rejected  = (admission.rejected - Adds(conns[c].step, Answered)) + Adds(r.step, Answered)
        /\ admission'.admitted  = (admission.admitted - Adds(conns[c].step, Placed \cup {"closed", "unstarted"}))
                                    + Adds(r.step, Placed \cup {"closed", "unstarted"})
    BY <1>2, <1>7, <2>1, <2>2, <2>3
  <2>5. QED
    BY <1>1, <1>2, <1>3, <1>5, <1>6, <2>1, <2>4, AccountedStep
<1>10. QED
  BY <1>8, <1>9

LEMMA GivenBackRow ==
  ASSUME NEW k \in CounterRow, k.active \in Nat \ {0}, NEW n \in {0, 1}
  PROVE  LET row == [k EXCEPT !.active = k.active - 1, !.completed = k.completed + n] IN
         /\ row \in CounterRow /\ row.active = k.active - 1 /\ row.completed = k.completed + n
         /\ row.admitted = k.admitted /\ row.rejected = k.rejected
<1>1. k.active - 1 \in Nat /\ k.completed + n \in Nat
  BY DEF CounterRow
<1>2. \A i \in Nat, j \in Nat : LET row == [k EXCEPT !.active = i, !.completed = j] IN
         /\ row \in CounterRow /\ row.active = i /\ row.completed = j
         /\ row.admitted = k.admitted /\ row.rejected = k.rejected
  BY DEF CounterRow
<1>3. QED
  BY <1>1, <1>2

(* The ends of a connection that was admitted: no thread, or a served one.  *)
LEMMA PlaceGivenBack ==
  ASSUME AInv, NEW c \in Connections, NotStarted(c) \/ End(c)
  PROVE  AInv'
<1>1. /\ conns[c] \in ConnRow /\ Routed(conns[c]) /\ holder \in Connections \cup {Nobody}
      /\ (conns[c].step = "routing" /\ conns[c].mutation) <=> holder = c
      /\ agents \in [Agents -> CounterRow] /\ admission \in CounterRow /\ admission.active <= LIMIT
      /\ \A a \in Agents : /\ agents[a].admitted = agents[a].active + agents[a].completed
                           /\ agents[a].active <= AGENT_LIMIT
  BY ConnFacts DEF Mutates
<1>2. PICK step \in {"unstarted", "closed"} :
        /\ Goes(c, step) /\ agents' = agents /\ holder' = holder
        /\ step = "unstarted" => conns[c].step = "admitted" /\ admission' = [admission EXCEPT !.active = @ - 1]
        /\ step = "closed" =>
             conns[c].step = "ending" /\ admission' = [admission EXCEPT !.active = @ - 1, !.completed = @ + 1]
  BY DEF NotStarted, End
<1> DEFINE r == [conns[c] EXCEPT !.step = step]
<1>3. /\ r \in ConnRow /\ conns' = [conns EXCEPT ![c] = r] /\ r.step = step
      /\ r.counted = conns[c].counted /\ r.agent = conns[c].agent
  BY <1>1, <1>2 DEF Goes, ConnRow, Steps, Over
<1>4. ~ conns[c].counted /\ holder # c /\ Routed(r)
  BY <1>1, <1>2, <1>3 DEF Routed
<1> HIDE DEF r
<1>5. /\ admission.active \in Nat \ {0} /\ admission.completed \in Nat /\ admission.rejected \in Nat
      /\ admission.admitted \in Nat
  <2>1. conns[c].step \in Placed
    BY <1>2 DEF Placed, Served
  <2>2. QED
    BY <1>1, <2>1, PlaceTaken DEF CounterRow
<1>6. \A a \in Agents :
        /\ agents'[a].active = (agents[a].active - (IF conns[c].counted /\ conns[c].agent = a THEN 1 ELSE 0))
                                 + (IF r.counted /\ r.agent = a THEN 1 ELSE 0)
        /\ agents'[a].admitted = agents'[a].active + agents'[a].completed
        /\ agents'[a].active <= AGENT_LIMIT
  <2>1. TAKE a \in Agents
  <2>2. agents[a].active \in Nat
    BY <1>1 DEF CounterRow
  <2>3. QED
    BY <1>1, <1>2, <1>3, <1>4, <2>2
<1>7. Mutates(r) <=> holder' = c
  BY <1>2, <1>3, <1>4 DEF Mutates
<1>8. /\ admission' \in CounterRow /\ admission'.active = admission.active - 1
      /\ admission'.admitted = admission.admitted /\ admission'.rejected = admission.rejected
      /\ admission'.completed = admission.completed + (IF step = "closed" THEN 1 ELSE 0)
  <2> DEFINE n == IF step = "closed" THEN 1 ELSE 0
  <2>1. n \in {0, 1}
    OBVIOUS
  <2>2. admission' = [admission EXCEPT !.active = admission.active - 1, !.completed = admission.completed + n]
    <3>1. CASE step = "closed"
      BY <1>2, <3>1
    <3>2. CASE step = "unstarted"
      <4>1. n = 0 /\ admission.completed + n = admission.completed
        BY <1>5, <3>2
      <4>2. admission' = [admission EXCEPT !.active = admission.active - 1]
        BY <1>2, <3>2
      <4>3. QED
        BY <1>1, <4>1, <4>2 DEF CounterRow
    <3>3. QED
      BY <3>1, <3>2
  <2> HIDE DEF n
  <2>3. QED
    BY <1>1, <1>5, <2>1, <2>2, GivenBackRow DEF n
<1>9. /\ Adds(conns[c].step, Placed) = 1 /\ Adds(step, Placed) = 0
      /\ Adds(conns[c].step, {"closed"}) = 0 /\ Adds(step, {"closed"}) = IF step = "closed" THEN 1 ELSE 0
      /\ Adds(conns[c].step, Answered) = 0 /\ Adds(step, Answered) = 0
      /\ Adds(conns[c].step, Placed \cup {"closed", "unstarted"}) = 1
      /\ Adds(step, Placed \cup {"closed", "unstarted"}) = 1
  BY <1>2 DEF Adds, Placed, Served, Answered
<1>10. /\ admission'.active    = (admission.active - Adds(conns[c].step, Placed)) + Adds(r.step, Placed)
       /\ admission'.completed = (admission.completed - Adds(conns[c].step, {"closed"})) + Adds(r.step, {"closed"})
       /\ admission'.rejected  = (admission.rejected - Adds(conns[c].step, Answered)) + Adds(r.step, Answered)
       /\ admission'.admitted  = (admission.admitted - Adds(conns[c].step, Placed \cup {"closed", "unstarted"}))
                                   + Adds(r.step, Placed \cup {"closed", "unstarted"})
  BY <1>3, <1>5, <1>8, <1>9
<1>11. admission'.active <= LIMIT
  BY <1>1, <1>5, <1>8, AdmissionAssumption
<1>12. QED
  BY <1>1, <1>2, <1>3, <1>4, <1>6, <1>7, <1>8, <1>10, <1>11, AccountedStep

(* The end of a request, counted or not. *)
LEMMA FinishInductive ==
  ASSUME AInv, NEW c \in Connections, FinishAgent(c)
  PROVE  AInv'
<1> DEFINE r == [conns[c] EXCEPT !.step = "ending", !.counted = FALSE]
           a == conns[c].agent
<1>1. /\ conns[c] \in ConnRow /\ Routed(conns[c]) /\ holder \in Connections \cup {Nobody}
      /\ (conns[c].step = "routing" /\ conns[c].mutation) <=> holder = c
      /\ agents \in [Agents -> CounterRow] /\ admission \in CounterRow /\ admission.active <= LIMIT
      /\ \A b \in Agents : /\ agents[b].admitted = agents[b].active + agents[b].completed
                           /\ agents[b].active <= AGENT_LIMIT
  BY ConnFacts DEF Mutates
<1>2. /\ conns[c].step = "leaving" /\ conns' = [conns EXCEPT ![c].step = "ending", ![c].counted = FALSE]
      /\ agents' = IF conns[c].counted
                     THEN [agents EXCEPT ![a].active = @ - 1, ![a].completed = @ + 1]
                     ELSE agents
      /\ admission' = admission /\ holder' = holder
  BY DEF FinishAgent
<1>3. /\ r \in ConnRow /\ conns' = [conns EXCEPT ![c] = r] /\ r.step = "ending" /\ ~ r.counted
      /\ Routed(r)
  BY <1>1, <1>2 DEF ConnRow, Steps, Served, Routed
<1> HIDE DEF r
<1>4. holder # c
  BY <1>1, <1>2
<1>5. /\ agents' \in [Agents -> CounterRow]
      /\ \A b \in Agents :
           /\ agents'[b].active = (agents[b].active - (IF conns[c].counted /\ conns[c].agent = b THEN 1 ELSE 0))
                                    + (IF r.counted /\ r.agent = b THEN 1 ELSE 0)
           /\ agents'[b].admitted = agents'[b].active + agents'[b].completed
           /\ agents'[b].active <= AGENT_LIMIT
  <2>1. \A b \in Agents : /\ agents[b].active \in Nat /\ agents[b].completed \in Nat
                          /\ agents[b].admitted = agents[b].active + agents[b].completed
                          /\ agents[b].active <= AGENT_LIMIT
    BY <1>1 DEF CounterRow
  <2>2. CASE conns[c].counted
    <3>1. a \in Agents /\ agents[a].active \in Nat \ {0} /\ agents[a] \in CounterRow
      BY <1>1, <2>2, RequestCounted
    <3> DEFINE row == [agents[a] EXCEPT !.active = agents[a].active - 1, !.completed = agents[a].completed + 1]
    <3>2. agents' = [agents EXCEPT ![a] = row]
      BY <1>1, <1>2, <2>2, <3>1
    <3>3. /\ row \in CounterRow /\ row.active = agents[a].active - 1
          /\ row.completed = agents[a].completed + 1 /\ row.admitted = agents[a].admitted
      BY <3>1, GivenBackRow
    <3> HIDE DEF row
    <3>4. agents' \in [Agents -> CounterRow]
      BY <1>1, <3>1, <3>2, <3>3
    <3>5. ASSUME NEW b \in Agents
          PROVE  /\ agents'[b].active = (agents[b].active - (IF conns[c].counted /\ a = b THEN 1 ELSE 0))
                                          + (IF r.counted /\ r.agent = b THEN 1 ELSE 0)
                 /\ agents'[b].admitted = agents'[b].active + agents'[b].completed
                 /\ agents'[b].active <= AGENT_LIMIT
      <4>1. CASE b = a
        <5>1. agents'[b] = row /\ conns[c].counted /\ ~ r.counted
          BY <1>1, <1>3, <2>2, <3>1, <3>2, <4>1
        <5>2. agents[b].active \in Nat /\ agents[b].completed \in Nat /\ AGENT_LIMIT \in Nat
          BY <2>1, AdmissionAssumption
        <5>3. row.active = agents[b].active - 1 /\ row.completed = agents[b].completed + 1
              /\ row.admitted = agents[b].active + agents[b].completed /\ agents[b].active <= AGENT_LIMIT
          BY <2>1, <3>3, <4>1
        <5>4. /\ row.active = (agents[b].active - 1) + 0
              /\ row.admitted = row.active + row.completed
              /\ row.active <= AGENT_LIMIT
          BY <5>2, <5>3
        <5>5. QED
          BY <4>1, <5>1, <5>4
      <4>2. CASE b # a
        BY <1>1, <1>3, <2>1, <3>2, <4>2
      <4>3. QED
        BY <4>1, <4>2
    <3>6. QED
      BY <3>4, <3>5
  <2>3. CASE ~ conns[c].counted
    <3>1. agents' = agents
      BY <1>2, <2>3
    <3>2. QED
      BY <1>1, <1>3, <2>1, <2>3, <3>1
  <2>4. QED
    BY <2>2, <2>3
<1>6. Mutates(r) <=> holder' = c
  BY <1>2, <1>3, <1>4 DEF Mutates
<1>7. /\ admission.active \in Nat /\ admission.completed \in Nat /\ admission.rejected \in Nat
      /\ admission.admitted \in Nat
  BY <1>1 DEF CounterRow
<1>8. /\ Adds("leaving", Placed) = 1 /\ Adds("ending", Placed) = 1
      /\ Adds("leaving", {"closed"}) = 0 /\ Adds("ending", {"closed"}) = 0
      /\ Adds("leaving", Answered) = 0 /\ Adds("ending", Answered) = 0
      /\ Adds("leaving", Placed \cup {"closed", "unstarted"}) = 1
      /\ Adds("ending", Placed \cup {"closed", "unstarted"}) = 1
  BY DEF Adds, Placed, Served, Answered
<1>9. /\ admission'.active    = (admission.active - Adds(conns[c].step, Placed)) + Adds(r.step, Placed)
      /\ admission'.completed = (admission.completed - Adds(conns[c].step, {"closed"})) + Adds(r.step, {"closed"})
      /\ admission'.rejected  = (admission.rejected - Adds(conns[c].step, Answered)) + Adds(r.step, Answered)
      /\ admission'.admitted  = (admission.admitted - Adds(conns[c].step, Placed \cup {"closed", "unstarted"}))
                                  + Adds(r.step, Placed \cup {"closed", "unstarted"})
  BY <1>2, <1>3, <1>7, <1>8
<1>10. QED
  BY <1>1, <1>2, <1>3, <1>5, <1>6, <1>9, AccountedStep

-----------------------------------------------------------------------------
(* The theorems *)

LEMMA AdmissionInitInductive == AdmissionInit => AInv
<1> SUFFICES ASSUME AdmissionInit PROVE AInv
  OBVIOUS
<1>1. /\ conns = [c \in Connections |-> [step |-> "away", agent |-> Nobody, mutation |-> FALSE, counted |-> FALSE]]
      /\ admission = Counters /\ agents = [a \in Agents |-> Counters] /\ holder = Nobody
  BY DEF AdmissionInit
<1>2. AdmissionTypeOK
  BY <1>1 DEF AdmissionTypeOK, Counters, Steps
<1>3. \A c \in Connections : Routed(conns[c]) /\ ~ Mutates(conns[c]) /\ holder # c
  BY <1>1, AdmissionAssumption DEF Routed, Mutates
<1>4. In(Placed) = {} /\ In({"closed"}) = {} /\ In(Answered) = {} /\ In({"unstarted"}) = {}
  BY <1>1 DEF In, Placed, Served, Answered
<1>5. \A a \in Agents : Counted(a) = {}
  BY <1>1 DEF Counted
<1>6. Cardinality({}) = 0
  BY FS_EmptySet
<1>7. CountersFollow
  BY <1>1, <1>4, <1>6, AdmissionAssumption DEF CountersFollow, Counters
<1>8. AgentsFollow
  <2> USE DEF AgentsFollow
  <2>1. TAKE a \in Agents
  <2>2. agents[a].active = 0 /\ agents[a].admitted = 0 /\ agents[a].completed = 0
    BY <1>1 DEF Counters
  <2>3. QED
    BY <1>5, <1>6, <2>2, AdmissionAssumption
<1>9. QED
  BY <1>2, <1>3, <1>7, <1>8 DEF AInv, Locked

LEMMA AdmissionNextInductive == AInv /\ [AdmissionNext]_admissionVars => AInv'
<1> SUFFICES ASSUME AInv, [AdmissionNext]_admissionVars PROVE AInv'
  OBVIOUS
<1>1. CASE Arrival
  BY <1>1, AcceptInductive DEF Arrival
<1>2. ASSUME NEW c \in Connections, AcceptingThread(c) \/ Thread(c)
      PROVE  AInv'
  BY <1>2, AcceptingInductive, PlaceGivenBack, IdentifyInductive, ThreadInductive, FinishInductive
     DEF AcceptingThread, Thread
<1>3. CASE UNCHANGED admissionVars
  <2>1. conns' = conns /\ admission' = admission /\ agents' = agents /\ holder' = holder
    BY <1>3 DEF admissionVars
  <2>2. QED
    BY <2>1 DEF AInv, AdmissionTypeOK, Locked, CountersFollow, AgentsFollow, In, Counted
<1>4. QED
  BY <1>1, <1>2, <1>3 DEF AdmissionNext

THEOREM AdmissionInvariant == AdmissionSpec => []AInv
<1>1. QED
  BY AdmissionInitInductive, AdmissionNextInductive, PTL DEF AdmissionSpec

(* What the counters count bounds what they are compared for. *)
LEMMA LimitsFollow == AInv => LimitsHold
<1> SUFFICES ASSUME AInv PROVE LimitsHold
  OBVIOUS
<1>1. /\ \A steps : IsFiniteSet(In(steps)) /\ Cardinality(In(steps)) \in Nat
      /\ \A a \in Agents : IsFiniteSet(Counted(a)) /\ Cardinality(Counted(a)) \in Nat
  BY AdmissionAssumption, FS_Subset, FS_CardinalityType DEF In, Counted
<1>2. Cardinality(In(Served)) <= LIMIT
  <2>1. In(Served) \subseteq In(Placed)
    BY DEF In, Placed
  <2>2. Cardinality(In(Served)) <= Cardinality(In(Placed))
    BY <1>1, <2>1, FS_Subset
  <2>3. QED
    BY <1>1, <2>2, AdmissionAssumption DEF AInv, CountersFollow
<1>3. ASSUME NEW a \in Agents
      PROVE  Cardinality({c \in In({"reading", "waiting", "routing"}) : conns[c].agent = a}) <= AGENT_LIMIT
  <2> DEFINE P == {c \in In({"reading", "waiting", "routing"}) : conns[c].agent = a}
  <2>1. P \subseteq Counted(a)
    BY AdmissionAssumption DEF AInv, Routed, In, Counted
  <2> HIDE DEF P
  <2>2. Cardinality(P) \in Nat /\ Cardinality(P) <= Cardinality(Counted(a))
    BY <1>1, <2>1, FS_Subset, FS_CardinalityType
  <2>3. Cardinality(Counted(a)) <= AGENT_LIMIT
    BY DEF AInv, AgentsFollow
  <2>4. QED
    BY <1>1, <2>2, <2>3, AdmissionAssumption DEF P
<1>4. {c \in In({"routing"}) : conns[c].mutation} = {holder} \ {Nobody}
  BY AdmissionAssumption DEF AInv, Locked, Mutates, In, AdmissionTypeOK
<1>5. QED
  BY <1>2, <1>3, <1>4 DEF LimitsHold

(* On every path a connection takes, the counters are those of the          *)
(* connections there are, so that the limits hold for connections; and one  *)
(* mutation runs at a time.                                                 *)
THEOREM CountersAreExact == AdmissionSpec => []CountersMatch
<1>1. AInv => CountersMatch
  BY LimitsFollow DEF AInv, CountersMatch, CountersFollow, AgentsFollow, Placed, Answered
<1>2. QED
  BY <1>1, AdmissionInvariant, PTL
=============================================================================
