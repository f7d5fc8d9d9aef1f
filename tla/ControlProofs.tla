---------------------------- MODULE ControlProofs ----------------------------
(***************************************************************************)
(* Theorems about ControlPlane for every number of workers, requests and   *)
(* restarts: a request is sent to its provider at most once, its hold      *)
(* stays liable for what was sent, it is charged what the provider         *)
(* recorded, and a payment was reviewed by somebody else.                  *)
(*                                                                         *)
(* None of the four is inductive: each rests on what a worker that is      *)
(* between two of its transactions may still rely on, although the tables  *)
(* moved under it.  Knows says what that is, step by step.                 *)
(***************************************************************************)
EXTENDS ControlPlane, MarketProofs

-----------------------------------------------------------------------------
(* The inductive invariant *)

ExecutionRow == [executed: BOOLEAN, charge: Charges]

ApprovalRow == [agent: AccountIds, fingerprint: HoldIds \X AccountIds \X Requests \X Bounds,
                expires_at: Nat, reviewer: Reviewers \cup {None},
                state: {"PENDING", "APPROVED", "REJECTED"}]

WorkerRow == [pc: Steps, answer: Answers, id: HoldIds \cup {None}, agent: AccountIds \cup {None},
              request: Requests \cup {None}, now: Times \cup {None}, expires: Expiries \cup {None},
              quote: Bounds \cup {None}, charge: Charges \cup {None}, trusted: BOOLEAN, ambiguous: BOOLEAN]

RowsTyped ==
  /\ journal \in [HoldIds -> Seq(ExecutionRow)]
  /\ approvals \in [DOMAIN approvals -> ApprovalRow]
  /\ workers \in [Workers -> WorkerRow]

(* A recorded request is the request its hold was made for. *)
RequestsMatch ==
  \A id \in DOMAIN requests : /\ holds[id].account = requests[id].agent
                              /\ holds[id].request = requests[id].request
                              /\ holds[id].bound = requests[id].quote

(* Only a recorded request whose hold was claimed ever had an effect. *)
EffectsAreClaimed ==
  \A id \in HoldIds : journal[id] # <<>> \/ id \in inflight =>
    id \in DOMAIN requests /\ holds[id].state # "RESERVED"

ReceiptsAreEvidence ==
  \A id \in DOMAIN receipts : journal[id] # <<>> /\ receipts[id] = Last(journal[id]).charge

ChargesAreEvidence ==
  \A id \in DOMAIN holds : holds[id].state = "SETTLED" =>
    journal[id] # <<>> /\ holds[id].actual = Last(journal[id]).charge

(* What the worker w may still rely on, whatever happened since it looked. *)
KnowsArguments(w) ==
  workers[w].pc \in {"authorize", "reserve", "insert"} =>
    /\ workers[w].id \in HoldIds /\ workers[w].agent \in AccountIds /\ workers[w].request \in Requests
    /\ workers[w].quote \in Bounds /\ workers[w].expires \in Expiries

KnowsHold(w) ==
  workers[w].pc = "insert" =>
    /\ workers[w].id \in DOMAIN holds
    /\ holds[workers[w].id].account = workers[w].agent
    /\ holds[workers[w].id].request = workers[w].request
    /\ holds[workers[w].id].bound = workers[w].quote

KnowsRequest(w) ==
  /\ workers[w].pc \in {"dispatch", "send", "wait", "doubt", "record"} => workers[w].id \in DOMAIN requests
  /\ workers[w].pc = "dispatch" =>
       requests[workers[w].id] = [agent |-> workers[w].agent, request |-> workers[w].request,
                                  quote |-> workers[w].quote]

KnowsCharge(w) ==
  /\ workers[w].pc = "record" => /\ journal[workers[w].id] # <<>>
                                 /\ workers[w].charge = Last(journal[workers[w].id]).charge
  /\ workers[w].pc = "settle" => /\ workers[w].id \in DOMAIN receipts
                                 /\ workers[w].charge = receipts[workers[w].id]

Knows(w) == KnowsArguments(w) /\ KnowsHold(w) /\ KnowsRequest(w) /\ KnowsCharge(w)

Knowledge == \A w \in Workers : Knows(w)

(* A worker about to send has an open hold, nobody else is about to send    *)
(* the same request, and nothing was sent before.                           *)
Sends(w, id) == workers[w].pc = "send" /\ workers[w].id = id

SendsAlone ==
  \A w \in Workers, id \in HoldIds : Sends(w, id) =>
    /\ journal[id] = <<>> /\ id \notin inflight
    /\ holds[id].state \in {"DISPATCHED", "UNRESOLVED"}
    /\ \A v \in Workers : Sends(v, id) => v = w

NobodyReviewsItself ==
  \A p \in DOMAIN approvals : approvals[p].state = "APPROVED" => approvals[p].reviewer # approvals[p].agent

CInv ==
  /\ IInv /\ TablesOK /\ RowsTyped
  /\ RequestsMatch
  /\ EffectsAreClaimed
  /\ AtMostOneEffect
  /\ EffectIsLiable
  /\ ReceiptsAreEvidence
  /\ ChargesAreEvidence
  /\ Knowledge
  /\ SendsAlone
  /\ NobodyReviewsItself
  /\ PaymentsReviewed

-----------------------------------------------------------------------------
(* Steps that move no table *)

(* The tables that prove what a worker knows only ever gain rows, a row     *)
(* keeps its columns, and a claimed hold is never RESERVED again.           *)
Grows ==
  /\ DOMAIN holds \subseteq DOMAIN holds'
  /\ \A id \in DOMAIN holds : /\ holds'[id].account = holds[id].account
                              /\ holds'[id].request = holds[id].request
                              /\ holds'[id].bound = holds[id].bound
                              /\ holds[id].state # "RESERVED" => holds'[id].state # "RESERVED"
  /\ DOMAIN requests \subseteq DOMAIN requests'
  /\ \A id \in DOMAIN requests : requests'[id] = requests[id]
  /\ DOMAIN receipts \subseteq DOMAIN receipts'
  /\ \A id \in DOMAIN receipts : receipts'[id] = receipts[id]
  /\ \A id \in HoldIds : journal[id] # <<>> => journal'[id] = journal[id]

(* The identifiers of all the tables are those of holds. *)
LEMMA Identifiers ==
  ASSUME IInv, TablesOK
  PROVE  /\ DOMAIN holds \subseteq HoldIds /\ DOMAIN requests \subseteq DOMAIN holds
         /\ DOMAIN receipts \subseteq DOMAIN requests /\ inflight \subseteq DOMAIN requests
         /\ None \notin HoldIds
BY NoneAssumption DEF IInv, TypeOK, TablesOK

(* At most one execution is on record, and none while the request is on its way. *)
LEMMA OneEffect ==
  ASSUME RowsTyped, AtMostOneEffect, NEW id \in HoldIds
  PROVE  /\ journal[id] \in Seq(ExecutionRow) /\ Len(journal[id]) <= 1
         /\ id \in inflight => journal[id] = <<>>
<1>1. journal[id] \in Seq(ExecutionRow) /\ Len(journal[id]) \in Nat
  BY DEF RowsTyped
<1>2. id \in inflight => Len(journal[id]) + 1 <= 1
  BY DEF AtMostOneEffect
<1>3. id \notin inflight => Len(journal[id]) + 0 <= 1
  BY DEF AtMostOneEffect
<1>4. QED
  BY <1>1, <1>2, <1>3

(* What a worker knows stays true while the tables grow. *)
LEMMA StillKnows ==
  ASSUME IInv, TablesOK, Knowledge, Grows, NEW v \in Workers, workers'[v] = workers[v]
  PROVE  Knows(v)'
<1>1. Knows(v)
  BY DEF Knowledge
<1>2. KnowsArguments(v)'
  BY <1>1 DEF Knows, KnowsArguments
<1>3. KnowsHold(v)'
  BY <1>1 DEF Knows, KnowsHold, Grows
<1>4. KnowsRequest(v)'
  BY <1>1 DEF Knows, KnowsRequest, Grows
<1>5. KnowsCharge(v)'
  BY <1>1, Identifiers DEF Knows, KnowsCharge, KnowsRequest, Grows
<1>6. QED
  BY <1>2, <1>3, <1>4, <1>5 DEF Knows

(* A step that moves nothing but the worker w, and not to send. *)
LEMMA WorkerOnly ==
  ASSUME CInv, UNCHANGED <<ledgerVars, quotes, controlTables, outside>>,
         NEW w \in Workers, NEW row \in WorkerRow,
         workers' = [workers EXCEPT ![w] = row], row.pc # "send", Knows(w)'
  PROVE  CInv'
<1>1. UNCHANGED <<accounts, holds, events, quotes, requests, receipts, approvals, journal, inflight>>
  BY DEF ledgerVars, controlTables, outside
<1>2. IInv'
  BY NextInductive DEF CInv
<1>3. /\ workers \in [Workers -> WorkerRow]
      /\ workers'[w] = row /\ \A v \in Workers \ {w} : workers'[v] = workers[v]
  BY DEF CInv, RowsTyped
<1>4. TablesOK' /\ RowsTyped'
  BY <1>1, <1>2, <1>3 DEF CInv, IInv, TablesOK, RowsTyped
<1>5. RequestsMatch' /\ EffectsAreClaimed' /\ AtMostOneEffect' /\ EffectIsLiable'
  BY <1>1 DEF CInv, RequestsMatch, EffectsAreClaimed, AtMostOneEffect, EffectIsLiable
<1>6. ReceiptsAreEvidence' /\ ChargesAreEvidence' /\ NobodyReviewsItself' /\ PaymentsReviewed'
  BY <1>1 DEF CInv, ReceiptsAreEvidence, ChargesAreEvidence, NobodyReviewsItself, PaymentsReviewed
<1>7. Knowledge'
  <2>1. Grows
    BY <1>1 DEF Grows
  <2>2. \A v \in Workers \ {w} : Knows(v)'
    BY <1>3, <2>1, StillKnows DEF CInv
  <2>3. QED
    BY <2>2 DEF Knowledge
<1>8. SendsAlone'
  <2>1. \A v \in Workers, id \in HoldIds : Sends(v, id)' => Sends(v, id)
    BY <1>3 DEF Sends
  <2>2. QED
    BY <1>1, <2>1 DEF CInv, SendsAlone
<1>9. QED
  BY <1>2, <1>4, <1>5, <1>6, <1>7, <1>8 DEF CInv

(* How the three ways of moving a worker write its row. *)
LEMMA WorkerRows ==
  ASSUME RowsTyped, NEW w \in Workers
  PROVE  /\ workers[w] \in WorkerRow
         /\ \A pc \in Steps : Goes(w, pc) =>
              \E row \in WorkerRow : /\ workers' = [workers EXCEPT ![w] = row]
                                     /\ row = [workers[w] EXCEPT !.pc = pc]
         /\ \A pc \in Steps, charge \in Charges \cup {None} : Keeps(w, pc, charge) =>
              \E row \in WorkerRow : /\ workers' = [workers EXCEPT ![w] = row]
                                     /\ row.pc = pc /\ row.id = workers[w].id /\ row.charge = charge
         /\ \A answer \in Answers : Ends(w, answer) =>
              \E row \in WorkerRow : workers' = [workers EXCEPT ![w] = row] /\ row.pc = "idle"
<1>1. workers[w] \in WorkerRow
  BY DEF RowsTyped
<1>2. ASSUME NEW pc \in Steps, Goes(w, pc)
      PROVE  \E row \in WorkerRow : /\ workers' = [workers EXCEPT ![w] = row]
                                    /\ row = [workers[w] EXCEPT !.pc = pc]
  <2>1. [workers[w] EXCEPT !.pc = pc] \in WorkerRow
    BY <1>1 DEF WorkerRow
  <2>2. workers' = [workers EXCEPT ![w] = [workers[w] EXCEPT !.pc = pc]]
    BY <1>2 DEF Goes
  <2>3. QED
    BY <2>1, <2>2
<1>3. ASSUME NEW pc \in Steps, NEW charge \in Charges \cup {None}, Keeps(w, pc, charge)
      PROVE  \E row \in WorkerRow : /\ workers' = [workers EXCEPT ![w] = row]
                                    /\ row.pc = pc /\ row.id = workers[w].id /\ row.charge = charge
  <2> DEFINE row == [Idle EXCEPT !.pc = pc, !.id = workers[w].id, !.charge = charge]
  <2>1. row \in WorkerRow /\ row.pc = pc /\ row.id = workers[w].id /\ row.charge = charge
    BY <1>1 DEF WorkerRow, Idle, Answers
  <2>2. workers' = [workers EXCEPT ![w] = row]
    BY <1>3 DEF Keeps
  <2>3. QED
    BY <2>1, <2>2
<1>4. ASSUME NEW answer \in Answers, Ends(w, answer)
      PROVE  \E row \in WorkerRow : workers' = [workers EXCEPT ![w] = row] /\ row.pc = "idle"
  <2> DEFINE row == [Idle EXCEPT !.answer = answer]
  <2>1. row \in WorkerRow /\ row.pc = "idle"
    BY DEF WorkerRow, Idle, Steps
  <2>2. workers' = [workers EXCEPT ![w] = row]
    BY <1>4 DEF Ends
  <2>3. QED
    BY <2>1, <2>2
<1>5. QED
  BY <1>1, <1>2, <1>3, <1>4

(* Whoever ends has nothing left to rely on. *)
LEMMA EndsInductive ==
  ASSUME CInv, UNCHANGED <<ledgerVars, quotes, controlTables, outside>>,
         NEW w \in Workers, NEW answer \in Answers, Ends(w, answer)
  PROVE  CInv'
<1>1. PICK row \in WorkerRow : workers' = [workers EXCEPT ![w] = row] /\ row.pc = "idle"
  BY WorkerRows DEF CInv
<1>2. workers'[w].pc = "idle"
  BY <1>1 DEF CInv, RowsTyped
<1>3. Knows(w)'
  BY <1>2 DEF Knows, KnowsArguments, KnowsHold, KnowsRequest, KnowsCharge
<1>4. QED
  BY <1>1, <1>3, WorkerOnly

LEMMA CallInductive ==
  ASSUME CInv, NEW w \in Workers, NEW id \in HoldIds, NEW a \in AccountIds, NEW r \in Requests,
         NEW now \in Times, NEW expires \in Expiries, NEW t \in Trust, NEW m \in Ambiguity,
         Call(w, id, a, r, now, expires, t, m)
  PROVE  CInv'
<1> DEFINE row == [Idle EXCEPT !.pc = "authorize", !.id = id, !.agent = a, !.request = r, !.now = now,
                               !.expires = expires, !.quote = quotes[r], !.trusted = t, !.ambiguous = m]
<1>1. quotes[r] \in Bounds /\ t \in BOOLEAN /\ m \in BOOLEAN
  BY ControlAssumption DEF CInv, TablesOK
<1>2. /\ row \in WorkerRow /\ row.pc = "authorize" /\ row.id = id /\ row.agent = a /\ row.request = r
      /\ row.quote \in Bounds /\ row.expires = expires
  BY <1>1 DEF WorkerRow, Idle, Answers, Steps
<1>3. workers' = [workers EXCEPT ![w] = row] /\ UNCHANGED <<ledgerVars, quotes, controlTables, outside>>
  BY DEF Call, marketVars, ledgerVars
<1> HIDE DEF row
<1>4. workers'[w] = row
  BY <1>3 DEF CInv, RowsTyped
<1>5. Knows(w)'
  BY <1>2, <1>4 DEF Knows, KnowsArguments, KnowsHold, KnowsRequest, KnowsCharge
<1>6. QED
  BY <1>2, <1>3, <1>5, WorkerOnly

LEMMA ResumeInductive ==
  ASSUME CInv, NEW w \in Workers, NEW id \in HoldIds, NEW a \in AccountIds,
         NEW now \in Times, NEW t \in Trust, NEW m \in Ambiguity, Resume(w, id, a, now, t, m)
  PROVE  CInv'
<1> DEFINE row == [Idle EXCEPT !.pc = "read", !.id = id, !.agent = a, !.now = now, !.trusted = t,
                               !.ambiguous = m]
<1>1. t \in BOOLEAN /\ m \in BOOLEAN
  BY ControlAssumption
<1>2. row \in WorkerRow /\ row.pc = "read"
  BY <1>1 DEF WorkerRow, Idle, Answers, Steps
<1>3. workers' = [workers EXCEPT ![w] = row] /\ UNCHANGED <<ledgerVars, quotes, controlTables, outside>>
  BY DEF Resume, marketVars, ledgerVars
<1> HIDE DEF row
<1>4. workers'[w] = row
  BY <1>3 DEF CInv, RowsTyped
<1>5. Knows(w)'
  BY <1>2, <1>4 DEF Knows, KnowsArguments, KnowsHold, KnowsRequest, KnowsCharge
<1>6. QED
  BY <1>2, <1>3, <1>5, WorkerOnly

LEMMA AuthorizeInductive ==
  ASSUME CInv, NEW w \in Workers, Authorize(w)
  PROVE  CInv'
<1>1. /\ UNCHANGED <<ledgerVars, quotes, controlTables, outside>>
      /\ workers[w].pc = "authorize"
  BY DEF Authorize, marketVars, ledgerVars
<1>2. Ends(w, "conflict") \/ Ends(w, "refused") \/ Goes(w, "reserve")
  BY Zenon DEF Authorize
<1>3. CASE Ends(w, "conflict") \/ Ends(w, "refused")
  BY <1>1, <1>3, EndsInductive DEF Answers
<1>4. CASE Goes(w, "reserve")
  <2>1. PICK row \in WorkerRow : /\ workers' = [workers EXCEPT ![w] = row]
                                 /\ row = [workers[w] EXCEPT !.pc = "reserve"]
    BY <1>4, WorkerRows DEF CInv, Steps
  <2>2. workers'[w] = row /\ workers[w] \in WorkerRow
    BY <2>1, WorkerRows DEF CInv, RowsTyped
  <2>3. /\ row.pc = "reserve" /\ row.id = workers[w].id /\ row.agent = workers[w].agent
        /\ row.request = workers[w].request /\ row.quote = workers[w].quote
        /\ row.expires = workers[w].expires
    BY <2>1, <2>2 DEF WorkerRow
  <2>4. Knows(w)'
    BY <1>1, <2>2, <2>3 DEF CInv, Knowledge, Knows, KnowsArguments, KnowsHold, KnowsRequest, KnowsCharge
  <2>5. QED
    BY <1>1, <2>1, <2>3, <2>4, WorkerOnly
<1>5. QED
  BY <1>2, <1>3, <1>4

LEMMA ReserveAgainInductive ==
  ASSUME CInv, NEW w \in Workers, ReserveAgain(w)
  PROVE  CInv'
<1>1. /\ UNCHANGED <<ledgerVars, quotes, controlTables, outside>>
      /\ workers[w].pc = "reserve" /\ workers[w].id \in DOMAIN holds
      /\ (Matches(workers[w]) /\ Goes(w, "insert")) \/ Ends(w, "conflict")
  BY DEF ReserveAgain, marketVars, ledgerVars
<1>2. CASE Ends(w, "conflict")
  BY <1>1, <1>2, EndsInductive DEF Answers
<1>3. CASE Matches(workers[w]) /\ Goes(w, "insert")
  <2>1. PICK row \in WorkerRow : /\ workers' = [workers EXCEPT ![w] = row]
                                 /\ row = [workers[w] EXCEPT !.pc = "insert"]
    BY <1>3, WorkerRows DEF CInv, Steps
  <2>2. workers'[w] = row /\ workers[w] \in WorkerRow
    BY <2>1, WorkerRows DEF CInv, RowsTyped
  <2>3. /\ row.pc = "insert" /\ row.id = workers[w].id /\ row.agent = workers[w].agent
        /\ row.request = workers[w].request /\ row.quote = workers[w].quote
        /\ row.expires = workers[w].expires
    BY <2>1, <2>2 DEF WorkerRow
  <2>4. holds' = holds
    BY <1>1 DEF ledgerVars
  <2>5. Knows(w)'
    BY <1>1, <1>3, <2>2, <2>3, <2>4
       DEF CInv, Knowledge, Matches, Knows, KnowsArguments, KnowsHold, KnowsRequest, KnowsCharge
  <2>6. QED
    BY <1>1, <2>1, <2>3, <2>5, WorkerOnly
<1>4. QED
  BY <1>1, <1>2, <1>3

(* Steps that only tell the caller no, or what happened before. *)
LEMMA RefusalInductive ==
  ASSUME CInv, NEW w \in Workers,
         ReserveRejected(w) \/ ClaimRefused(w) \/ DoubtAgain(w) \/ SettleAgain(w)
  PROVE  CInv'
<1>1. UNCHANGED <<ledgerVars, quotes, controlTables, outside>>
  BY DEF ReserveRejected, ClaimRefused, DoubtAgain, SettleAgain, marketVars, ledgerVars
<1>2. Ends(w, "refused") \/ Ends(w, "returned") \/ Ends(w, "conflict")
  <2>1. SettleAgain(w) => Ends(w, "refused") \/ Ends(w, "returned") \/ Ends(w, "conflict")
    BY DEF SettleAgain
  <2>2. QED
    BY <2>1 DEF ReserveRejected, ClaimRefused, DoubtAgain
<1>3. QED
  BY <1>1, <1>2, EndsInductive DEF Answers

(* Where a worker goes on from the row it read. *)
LEMMA ReadRequestInductive ==
  ASSUME CInv, NEW w \in Workers, ReadRequest(w)
  PROVE  CInv'
<1> DEFINE c == workers[w]
           o == requests[c.id]
<1>1. UNCHANGED <<ledgerVars, quotes, controlTables, outside>>
  BY DEF ReadRequest, marketVars, ledgerVars
<1>2. UNCHANGED <<holds, requests, receipts, journal>>
  BY <1>1 DEF ledgerVars, controlTables, outside
<1>3. \/ Ends(w, "refused") \/ Ends(w, "returned")
      \/ /\ c.id \in DOMAIN requests /\ requests[c.id].agent = c.agent
         /\ \/ c.id \in DOMAIN receipts /\ Keeps(w, "settle", receipts[c.id])
            \/ Keeps(w, "doubt", None)
            \/ workers' = [workers EXCEPT ![w] =
                 [c EXCEPT !.pc = "dispatch", !.request = o.request, !.quote = o.quote]]
  BY DEF ReadRequest, Branch
<1>4. CASE Ends(w, "refused") \/ Ends(w, "returned")
  BY <1>1, <1>4, EndsInductive DEF Answers
<1>5. CASE c.id \in DOMAIN receipts /\ Keeps(w, "settle", receipts[c.id])
  <2>1. receipts[c.id] \in Charges
    BY <1>5 DEF CInv, TablesOK
  <2>2. PICK row \in WorkerRow : /\ workers' = [workers EXCEPT ![w] = row]
                                 /\ row.pc = "settle" /\ row.id = c.id /\ row.charge = receipts[c.id]
    BY <1>5, <2>1, WorkerRows DEF CInv, Steps
  <2>3. workers'[w] = row
    BY <2>2 DEF CInv, RowsTyped
  <2>4. Knows(w)'
    BY <1>2, <1>5, <2>2, <2>3 DEF Knows, KnowsArguments, KnowsHold, KnowsRequest, KnowsCharge
  <2>5. QED
    BY <1>1, <2>2, <2>4, WorkerOnly
<1>6. CASE c.id \in DOMAIN requests /\ Keeps(w, "doubt", None)
  <2>1. PICK row \in WorkerRow : /\ workers' = [workers EXCEPT ![w] = row]
                                 /\ row.pc = "doubt" /\ row.id = c.id
    BY <1>6, WorkerRows DEF CInv, Steps
  <2>2. workers'[w] = row
    BY <2>1 DEF CInv, RowsTyped
  <2>3. Knows(w)'
    BY <1>2, <1>6, <2>1, <2>2 DEF Knows, KnowsArguments, KnowsHold, KnowsRequest, KnowsCharge
  <2>4. QED
    BY <1>1, <2>1, <2>3, WorkerOnly
<1>7. CASE /\ c.id \in DOMAIN requests /\ requests[c.id].agent = c.agent
           /\ workers' = [workers EXCEPT ![w] =
                [c EXCEPT !.pc = "dispatch", !.request = o.request, !.quote = o.quote]]
  <2> DEFINE row == [c EXCEPT !.pc = "dispatch", !.request = o.request, !.quote = o.quote]
  <2>1. /\ o \in [agent: AccountIds, request: Requests, quote: Bounds]
        /\ c \in WorkerRow
    BY <1>7, WorkerRows DEF CInv, TablesOK
  <2>2. /\ row \in WorkerRow /\ row.pc = "dispatch" /\ row.id = c.id /\ row.agent = c.agent
        /\ row.request = o.request /\ row.quote = o.quote
    BY <2>1 DEF WorkerRow, Steps
  <2>3. o = [agent |-> c.agent, request |-> o.request, quote |-> o.quote]
    BY <1>7, <2>1
  <2> HIDE DEF row
  <2>4. workers'[w] = row
    BY <1>7 DEF CInv, RowsTyped, row
  <2>5. Knows(w)'
    BY <1>2, <1>7, <2>2, <2>3, <2>4 DEF Knows, KnowsArguments, KnowsHold, KnowsRequest, KnowsCharge
  <2>6. QED
    BY <1>1, <1>7, <2>2, <2>5, WorkerOnly DEF row
<1>8. QED
  BY <1>3, <1>4, <1>5, <1>6, <1>7

LEMMA AnsweredInductive ==
  ASSUME CInv, NEW w \in Workers, Answered(w)
  PROVE  CInv'
<1> DEFINE c == workers[w]
           charge == Last(journal[c.id]).charge
<1>1. /\ UNCHANGED <<ledgerVars, quotes, controlTables, outside>>
      /\ c.pc = "wait" /\ journal[c.id] # <<>> /\ Keeps(w, "record", charge)
  BY DEF Answered, marketVars, ledgerVars
<1>2. c.id \in DOMAIN requests
  BY <1>1 DEF CInv, Knowledge, Knows, KnowsRequest
<1>3. charge \in Charges
  <2>1. c.id \in HoldIds
    BY <1>2, Identifiers DEF CInv
  <2>2. journal[c.id] \in Seq(ExecutionRow)
    BY <2>1 DEF CInv, RowsTyped
  <2>3. Last(journal[c.id]) \in ExecutionRow
    BY <1>1, <2>2 DEF Last
  <2>4. QED
    BY <2>3 DEF ExecutionRow
<1> HIDE DEF charge
<1>4. PICK row \in WorkerRow : /\ workers' = [workers EXCEPT ![w] = row]
                               /\ row.pc = "record" /\ row.id = c.id /\ row.charge = charge
  BY <1>1, <1>3, WorkerRows DEF CInv, Steps
<1>5. workers'[w] = row
  BY <1>4 DEF CInv, RowsTyped
<1>6. UNCHANGED <<requests, journal>>
  BY <1>1 DEF controlTables, outside
<1>7. Knows(w)'
  BY <1>1, <1>2, <1>4, <1>5, <1>6
     DEF Knows, KnowsArguments, KnowsHold, KnowsRequest, KnowsCharge, charge
<1>8. QED
  BY <1>1, <1>4, <1>7, WorkerOnly

LEMMA FailedInductive ==
  ASSUME CInv, NEW w \in Workers, Failed(w)
  PROVE  CInv'
<1>1. /\ UNCHANGED <<ledgerVars, quotes, controlTables, outside>>
      /\ workers[w].pc = "wait" /\ Goes(w, "doubt")
  BY DEF Failed, marketVars, ledgerVars
<1>2. PICK row \in WorkerRow : /\ workers' = [workers EXCEPT ![w] = row]
                               /\ row = [workers[w] EXCEPT !.pc = "doubt"]
  BY <1>1, WorkerRows DEF CInv, Steps
<1>3. workers'[w] = row /\ workers[w] \in WorkerRow
  BY <1>2, WorkerRows DEF CInv, RowsTyped
<1>4. row.pc = "doubt" /\ row.id = workers[w].id
  BY <1>2, <1>3 DEF WorkerRow
<1>5. requests' = requests
  BY <1>1 DEF controlTables
<1>6. Knows(w)'
  BY <1>1, <1>3, <1>4, <1>5
     DEF CInv, Knowledge, Knows, KnowsArguments, KnowsHold, KnowsRequest, KnowsCharge
<1>7. QED
  BY <1>1, <1>2, <1>4, <1>6, WorkerOnly

-----------------------------------------------------------------------------
(* Steps of a worker that write a table *)

LEMMA InsertRequestInductive ==
  ASSUME CInv, NEW w \in Workers, InsertRequest(w)
  PROVE  CInv'
<1> DEFINE c == workers[w]
           row == [c EXCEPT !.pc = "read", !.request = None, !.quote = None, !.expires = None]
           new == [agent |-> c.agent, request |-> c.request, quote |-> c.quote]
<1>1. /\ c.pc = "insert" /\ workers' = [workers EXCEPT ![w] = row]
      /\ requests' = IF c.id \in DOMAIN requests THEN requests ELSE Insert(requests, c.id, new)
      /\ UNCHANGED <<accounts, holds, events, quotes, receipts, approvals, journal, inflight>>
  BY DEF InsertRequest, marketVars, outside
<1>2. IInv'
  BY <1>1, NextInductive DEF CInv, ledgerVars
<1>3. /\ c \in WorkerRow /\ c.id \in HoldIds /\ c.agent \in AccountIds /\ c.request \in Requests
      /\ c.quote \in Bounds /\ c.id \in DOMAIN holds /\ holds[c.id].account = c.agent
      /\ holds[c.id].request = c.request /\ holds[c.id].bound = c.quote
  BY <1>1, WorkerRows DEF CInv, Knowledge, Knows, KnowsArguments, KnowsHold
<1>4. row \in WorkerRow /\ row.pc = "read"
  BY <1>3 DEF WorkerRow, Steps
<1> HIDE DEF row
<1>5. workers'[w] = row /\ \A v \in Workers \ {w} : workers'[v] = workers[v]
  BY <1>1 DEF CInv, RowsTyped
<1>6. /\ DOMAIN requests' = DOMAIN requests \cup {c.id}
      /\ \A id \in DOMAIN requests : requests'[id] = requests[id]
      /\ c.id \notin DOMAIN requests => requests'[c.id] = new
  BY <1>1 DEF Insert
<1>7. new \in [agent: AccountIds, request: Requests, quote: Bounds]
  BY <1>3
<1>8. requests' \in [DOMAIN requests' -> [agent: AccountIds, request: Requests, quote: Bounds]]
  <2>1. \A id \in DOMAIN requests : requests[id] \in [agent: AccountIds, request: Requests, quote: Bounds]
    BY DEF CInv, TablesOK
  <2>2. CASE c.id \in DOMAIN requests
    BY <1>1, <2>2 DEF CInv, TablesOK
  <2>3. CASE c.id \notin DOMAIN requests
    BY <1>1, <1>7, <2>1, <2>3 DEF Insert
  <2>4. QED
    BY <2>2, <2>3
<1>9. TablesOK' /\ RowsTyped'
  BY <1>1, <1>2, <1>3, <1>4, <1>6, <1>8 DEF CInv, IInv, TablesOK, RowsTyped
<1>10. RequestsMatch'
  BY <1>1, <1>3, <1>6 DEF CInv, RequestsMatch
<1>11. EffectsAreClaimed' /\ AtMostOneEffect' /\ EffectIsLiable'
  BY <1>1, <1>6 DEF CInv, EffectsAreClaimed, AtMostOneEffect, EffectIsLiable
<1>12. ReceiptsAreEvidence' /\ ChargesAreEvidence' /\ NobodyReviewsItself' /\ PaymentsReviewed'
  BY <1>1 DEF CInv, ReceiptsAreEvidence, ChargesAreEvidence, NobodyReviewsItself, PaymentsReviewed
<1>13. Knowledge'
  <2>1. Grows
    BY <1>1, <1>6 DEF Grows
  <2>2. \A v \in Workers \ {w} : Knows(v)'
    BY <1>5, <2>1, StillKnows DEF CInv
  <2>3. Knows(w)'
    BY <1>4, <1>5 DEF Knows, KnowsArguments, KnowsHold, KnowsRequest, KnowsCharge
  <2>4. QED
    BY <2>2, <2>3 DEF Knowledge
<1>14. SendsAlone'
  <2>1. \A v \in Workers, id \in HoldIds : Sends(v, id)' => Sends(v, id)
    BY <1>4, <1>5 DEF Sends
  <2>2. QED
    BY <1>1, <2>1 DEF CInv, SendsAlone
<1>15. QED
  BY <1>2, <1>9, <1>10, <1>11, <1>12, <1>13, <1>14 DEF CInv

(* The request leaves: nobody else is about to send it, so it leaves once. *)
LEMMA SendInductive ==
  ASSUME CInv, NEW w \in Workers, Send(w)
  PROVE  CInv'
<1> DEFINE c == workers[w]
<1>1. /\ c.pc = "send" /\ inflight' = inflight \cup {c.id} /\ Goes(w, "wait")
      /\ UNCHANGED <<accounts, holds, events, quotes, requests, receipts, approvals, journal>>
  BY DEF Send, marketVars, controlTables
<1>2. IInv'
  BY <1>1, NextInductive DEF CInv, ledgerVars
<1>3. PICK row \in WorkerRow : /\ workers' = [workers EXCEPT ![w] = row]
                               /\ row = [workers[w] EXCEPT !.pc = "wait"]
  BY <1>1, WorkerRows DEF CInv, Steps
<1>4. row.pc = "wait" /\ row.id = c.id
  <2>1. workers[w] \in WorkerRow
    BY WorkerRows DEF CInv
  <2>2. QED
    BY <1>3, <2>1 DEF WorkerRow
<1>5. workers'[w] = row /\ \A v \in Workers \ {w} : workers'[v] = workers[v]
  BY <1>3 DEF CInv, RowsTyped
<1>6. c.id \in DOMAIN requests /\ c.id \in HoldIds /\ c.id \in DOMAIN holds
  BY <1>1, Identifiers DEF CInv, Knowledge, Knows, KnowsRequest
<1>7. /\ journal[c.id] = <<>> /\ c.id \notin inflight
      /\ holds[c.id].state \in {"DISPATCHED", "UNRESOLVED"}
      /\ \A v \in Workers : Sends(v, c.id) => v = w
  BY <1>1, <1>6 DEF CInv, SendsAlone, Sends
<1>8. TablesOK' /\ RowsTyped'
  BY <1>1, <1>2, <1>3, <1>6 DEF CInv, IInv, TablesOK, RowsTyped
<1>9. RequestsMatch' /\ ReceiptsAreEvidence' /\ ChargesAreEvidence'
  BY <1>1 DEF CInv, RequestsMatch, ReceiptsAreEvidence, ChargesAreEvidence
<1>10. EffectsAreClaimed' /\ EffectIsLiable'
  BY <1>1, <1>6, <1>7 DEF CInv, EffectsAreClaimed, EffectIsLiable
<1>11. AtMostOneEffect'
  <2>1. ASSUME NEW id \in HoldIds \ {c.id}
        PROVE  Len(journal[id]) + (IF id \in inflight' THEN 1 ELSE 0) <= 1
    <3>1. id \in inflight' <=> id \in inflight
      BY <1>1
    <3>2. QED
      BY <3>1 DEF CInv, AtMostOneEffect
  <2>2. Len(journal[c.id]) + (IF c.id \in inflight' THEN 1 ELSE 0) <= 1
    BY <1>1, <1>7
  <2>3. QED
    BY <1>1, <2>1, <2>2 DEF AtMostOneEffect
<1>12. NobodyReviewsItself' /\ PaymentsReviewed'
  BY <1>1 DEF CInv, NobodyReviewsItself, PaymentsReviewed
<1>13. Knowledge'
  <2>1. Grows
    BY <1>1 DEF Grows
  <2>2. \A v \in Workers \ {w} : Knows(v)'
    BY <1>5, <2>1, StillKnows DEF CInv
  <2>3. Knows(w)'
    BY <1>1, <1>4, <1>5, <1>6 DEF Knows, KnowsArguments, KnowsHold, KnowsRequest, KnowsCharge
  <2>4. QED
    BY <2>2, <2>3 DEF Knowledge
<1>14. SendsAlone'
  <2>1. \A v \in Workers, id \in HoldIds : Sends(v, id)' => Sends(v, id) /\ id # c.id
    BY <1>4, <1>5, <1>7 DEF Sends
  <2>2. QED
    BY <1>1, <2>1 DEF CInv, SendsAlone
<1>15. QED
  BY <1>2, <1>8, <1>9, <1>10, <1>11, <1>12, <1>13, <1>14 DEF CInv

(* The receipt stores what the provider answered. *)
LEMMA RecordReceiptInductive ==
  ASSUME CInv, NEW w \in Workers, RecordReceipt(w)
  PROVE  CInv'
<1> DEFINE c == workers[w]
<1>1. /\ c.pc = "record" /\ c.id \notin DOMAIN receipts
      /\ receipts' = Insert(receipts, c.id, c.charge) /\ Goes(w, "settle")
      /\ UNCHANGED <<accounts, holds, events, quotes, requests, approvals, journal, inflight>>
  BY DEF RecordReceipt, marketVars, outside
<1>2. IInv'
  BY <1>1, NextInductive DEF CInv, ledgerVars
<1>3. PICK row \in WorkerRow : /\ workers' = [workers EXCEPT ![w] = row]
                               /\ row = [workers[w] EXCEPT !.pc = "settle"]
  BY <1>1, WorkerRows DEF CInv, Steps
<1>4. row.pc = "settle" /\ row.id = c.id /\ row.charge = c.charge
  <2>1. workers[w] \in WorkerRow
    BY WorkerRows DEF CInv
  <2>2. QED
    BY <1>3, <2>1 DEF WorkerRow
<1>5. workers'[w] = row /\ \A v \in Workers \ {w} : workers'[v] = workers[v]
  BY <1>3 DEF CInv, RowsTyped
<1>6. /\ c.id \in DOMAIN requests /\ c.id \in HoldIds
      /\ journal[c.id] # <<>> /\ c.charge = Last(journal[c.id]).charge
  BY <1>1, Identifiers DEF CInv, Knowledge, Knows, KnowsRequest, KnowsCharge
<1>7. c.charge \in Charges
  <2>1. journal[c.id] \in Seq(ExecutionRow)
    BY <1>6 DEF CInv, RowsTyped
  <2>2. Last(journal[c.id]) \in ExecutionRow
    BY <1>6, <2>1 DEF Last
  <2>3. QED
    BY <1>6, <2>2 DEF ExecutionRow
<1>8. /\ DOMAIN receipts' = DOMAIN receipts \cup {c.id} /\ receipts'[c.id] = c.charge
      /\ \A id \in DOMAIN receipts : receipts'[id] = receipts[id]
  BY <1>1 DEF Insert
<1>9. receipts' \in [DOMAIN receipts' -> Charges]
  <2>1. \A id \in DOMAIN receipts : receipts[id] \in Charges
    BY DEF CInv, TablesOK
  <2>2. QED
    BY <1>1, <1>7, <2>1 DEF Insert
<1>10. TablesOK' /\ RowsTyped'
  BY <1>1, <1>2, <1>3, <1>6, <1>8, <1>9 DEF CInv, IInv, TablesOK, RowsTyped
<1>11. ReceiptsAreEvidence'
  BY <1>1, <1>6, <1>8 DEF CInv, ReceiptsAreEvidence
<1>12. /\ RequestsMatch' /\ EffectsAreClaimed' /\ AtMostOneEffect' /\ EffectIsLiable'
  BY <1>1 DEF CInv, RequestsMatch, EffectsAreClaimed, AtMostOneEffect, EffectIsLiable
<1>13. ChargesAreEvidence' /\ NobodyReviewsItself' /\ PaymentsReviewed'
  BY <1>1 DEF CInv, ChargesAreEvidence, NobodyReviewsItself, PaymentsReviewed
<1>14. Knowledge'
  <2>1. Grows
    BY <1>1, <1>8 DEF Grows
  <2>2. \A v \in Workers \ {w} : Knows(v)'
    BY <1>5, <2>1, StillKnows DEF CInv
  <2>3. Knows(w)'
    BY <1>4, <1>5, <1>8 DEF Knows, KnowsArguments, KnowsHold, KnowsRequest, KnowsCharge
  <2>4. QED
    BY <2>2, <2>3 DEF Knowledge
<1>15. SendsAlone'
  <2>1. \A v \in Workers, id \in HoldIds : Sends(v, id)' => Sends(v, id)
    BY <1>4, <1>5 DEF Sends
  <2>2. QED
    BY <1>1, <2>1 DEF CInv, SendsAlone
<1>16. QED
  BY <1>2, <1>10, <1>11, <1>12, <1>13, <1>14, <1>15 DEF CInv

-----------------------------------------------------------------------------
(* Steps that move holds *)

Liable == {"DISPATCHED", "UNRESOLVED", "SETTLED"}

(* What a step that moves holds must leave of the invariant, the workers aside. *)
TablesKept ==
  /\ TablesOK /\ RequestsMatch /\ EffectsAreClaimed /\ AtMostOneEffect /\ EffectIsLiable
  /\ ReceiptsAreEvidence /\ ChargesAreEvidence /\ NobodyReviewsItself /\ PaymentsReviewed

(* Holds nobody claimed are made or given back. *)
Unclaimed ==
  /\ DOMAIN holds \subseteq DOMAIN holds'
  /\ \A id \in DOMAIN holds :
       \/ holds'[id] = holds[id]
       \/ /\ holds[id].state = "RESERVED" /\ holds'[id].state = "RELEASED"
          /\ holds'[id].account = holds[id].account /\ holds'[id].request = holds[id].request
          /\ holds'[id].bound = holds[id].bound
  /\ \A id \in DOMAIN holds' : id \notin DOMAIN holds => holds'[id].state = "RESERVED"

LEMMA UnclaimedKeeps ==
  ASSUME CInv, IInv', UNCHANGED <<quotes, controlTables, outside>>, Unclaimed
  PROVE  TablesKept' /\ Grows
<1>1. UNCHANGED <<quotes, requests, receipts, approvals, journal, inflight>>
  BY DEF controlTables, outside
<1>2. Grows
  BY <1>1 DEF Grows, Unclaimed
<1>3. TablesOK'
  <2>1. TypeOK'
    BY DEF IInv
  <2>2. DOMAIN requests \subseteq DOMAIN holds'
    BY DEF CInv, TablesOK, Unclaimed
  <2>3. QED
    BY <1>1, <2>1, <2>2 DEF CInv, TablesOK
<1>4. RequestsMatch' /\ EffectsAreClaimed'
  <2>1. DOMAIN requests \subseteq DOMAIN holds
    BY Identifiers DEF CInv
  <2>2. QED
    BY <1>1, <1>2, <2>1 DEF CInv, RequestsMatch, EffectsAreClaimed, Grows
<1>5. AtMostOneEffect' /\ ReceiptsAreEvidence' /\ NobodyReviewsItself'
  BY <1>1 DEF CInv, AtMostOneEffect, ReceiptsAreEvidence, NobodyReviewsItself
<1>6. EffectIsLiable'
  <2>1. \A id \in DOMAIN holds : holds[id].state \in Liable => holds'[id] = holds[id]
    BY DEF Unclaimed, Liable
  <2>2. QED
    BY <1>1, <2>1 DEF CInv, EffectIsLiable, Unclaimed, Liable
<1>7. ChargesAreEvidence' /\ PaymentsReviewed'
  <2>1. \A id \in DOMAIN holds' : holds'[id].state \in Liable => id \in DOMAIN holds /\ holds'[id] = holds[id]
    BY DEF Unclaimed, Liable
  <2>2. QED
    BY <1>1, <2>1 DEF CInv, ChargesAreEvidence, PaymentsReviewed, Liable
<1>8. QED
  BY <1>2, <1>3, <1>4, <1>5, <1>6, <1>7 DEF TablesKept

(* One hold that was claimed, or is now, moves on.  If it is given back,    *)
(* the provider is known not to have executed the request; if it is settled *)
(* it carries what the provider recorded; if it is claimed now, the request *)
(* was reviewed.                                                            *)
Advances(id, state, actual) ==
  /\ id \in DOMAIN holds
  /\ holds' = [holds EXCEPT ![id].state = state, ![id].actual = actual]
  /\ state \in Liable \/ (state = "RELEASED" /\ KnownNoCharge(id) /\ id \notin inflight)
  /\ state = "SETTLED" => journal[id] # <<>> /\ actual = Last(journal[id]).charge
  /\ \/ holds[id].state \in {"DISPATCHED", "UNRESOLVED"}
     \/ holds[id].request \in Payments =>
          \E p \in DOMAIN approvals :
            /\ approvals[p].state = "APPROVED"
            /\ approvals[p].reviewer # holds[id].account
            /\ approvals[p].fingerprint
                 = Fingerprint(id, holds[id].account, holds[id].request, holds[id].bound)

LEMMA AdvancedRows ==
  ASSUME TypeOK, NEW id, NEW state, NEW actual, Advances(id, state, actual)
  PROVE  /\ DOMAIN holds' = DOMAIN holds
         /\ \A g \in DOMAIN holds \ {id} : holds'[g] = holds[g]
         /\ holds'[id].state = state /\ holds'[id].actual = actual
         /\ holds'[id].account = holds[id].account /\ holds'[id].request = holds[id].request
         /\ holds'[id].bound = holds[id].bound
<1>1. id \in DOMAIN holds /\ holds[id] \in HoldRow
  BY DEF Advances, TypeOK
<1>2. QED
  BY <1>1 DEF Advances, HoldRow

LEMMA AdvanceKeeps ==
  ASSUME CInv, IInv', UNCHANGED <<quotes, controlTables, outside>>,
         NEW id, NEW state, NEW actual, Advances(id, state, actual)
  PROVE  TablesKept' /\ Grows
<1>1. UNCHANGED <<quotes, requests, receipts, approvals, journal, inflight>>
  BY DEF controlTables, outside
<1>2. /\ DOMAIN holds' = DOMAIN holds
      /\ \A g \in DOMAIN holds \ {id} : holds'[g] = holds[g]
      /\ holds'[id].state = state /\ holds'[id].actual = actual
      /\ holds'[id].account = holds[id].account /\ holds'[id].request = holds[id].request
      /\ holds'[id].bound = holds[id].bound
  BY AdvancedRows DEF CInv, IInv
<1>3. state # "RESERVED" /\ id \in DOMAIN holds
  BY DEF Advances, Liable
<1>4. Grows
  BY <1>1, <1>2, <1>3 DEF Grows
<1>5. TablesOK'
  BY <1>1, <1>2 DEF CInv, IInv, TablesOK
<1>6. RequestsMatch' /\ EffectsAreClaimed'
  <2>1. DOMAIN requests \subseteq DOMAIN holds
    BY Identifiers DEF CInv
  <2>2. QED
    BY <1>1, <1>4, <2>1 DEF CInv, RequestsMatch, EffectsAreClaimed, Grows
<1>7. AtMostOneEffect' /\ ReceiptsAreEvidence' /\ NobodyReviewsItself'
  BY <1>1 DEF CInv, AtMostOneEffect, ReceiptsAreEvidence, NobodyReviewsItself
<1>8. EffectIsLiable'
  <2>1. ASSUME NEW g \in HoldIds, g \in inflight \/ \E i \in DOMAIN journal[g] : journal[g][i].executed
        PROVE  g \in DOMAIN holds' /\ holds'[g].state \in Liable
    <3>1. g \in DOMAIN holds /\ holds[g].state \in Liable
      BY <2>1 DEF CInv, EffectIsLiable, Liable
    <3>2. CASE g = id /\ state \notin Liable
      <4>1. KnownNoCharge(g) /\ g \notin inflight
        BY <3>2 DEF Advances
      <4>2. journal[g] \in Seq(ExecutionRow) /\ Len(journal[g]) <= 1
        BY OneEffect DEF CInv
      <4>3. PICK i \in DOMAIN journal[g] : journal[g][i].executed
        BY <2>1, <4>1
      <4>4. i = Len(journal[g])
        BY <4>2, <4>3
      <4>5. QED
        BY <4>1, <4>3, <4>4 DEF KnownNoCharge, Last
    <3>3. QED
      BY <1>2, <3>1, <3>2
  <2>2. QED
    BY <1>1, <2>1 DEF EffectIsLiable, Liable
<1>9. ChargesAreEvidence'
  BY <1>1, <1>2 DEF CInv, ChargesAreEvidence, Advances
<1>10. PaymentsReviewed'
  <2>1. ASSUME NEW g \in DOMAIN holds', holds'[g].request \in Payments, holds'[g].state \in Liable
        PROVE  \E p \in DOMAIN approvals :
                 /\ approvals[p].state = "APPROVED"
                 /\ approvals[p].reviewer # holds[g].account
                 /\ approvals[p].fingerprint
                      = Fingerprint(g, holds[g].account, holds[g].request, holds[g].bound)
    <3>1. CASE g = id
      BY <1>2, <1>3, <2>1, <3>1 DEF Advances, CInv, PaymentsReviewed
    <3>2. CASE g # id
      BY <1>2, <2>1, <3>2 DEF CInv, PaymentsReviewed, Liable
    <3>3. QED
      BY <3>1, <3>2
  <2>2. \A g \in DOMAIN holds' : /\ holds'[g].account = holds[g].account
                                 /\ holds'[g].request = holds[g].request /\ holds'[g].bound = holds[g].bound
    BY <1>2
  <2>3. QED
    BY <1>1, <2>1, <2>2 DEF PaymentsReviewed, Liable
<1>11. QED
  BY <1>4, <1>5, <1>6, <1>7, <1>8, <1>9, <1>10 DEF TablesKept

(* What a worker other than w is about to send is not touched by a step     *)
(* that moves no hold of an open request.                                   *)
LEMMA OthersSend ==
  ASSUME CInv, UNCHANGED outside, NEW w,
         \A v \in Workers : v = w \/ workers'[v] = workers[v],
         \A v \in Workers, id \in HoldIds : v # w /\ Sends(v, id) => holds'[id].state \in {"DISPATCHED", "UNRESOLVED"},
         \A id \in HoldIds : Sends(w, id)' =>
           /\ journal[id] = <<>> /\ id \notin inflight
           /\ holds'[id].state \in {"DISPATCHED", "UNRESOLVED"}
           /\ \A v \in Workers : v # w => ~ Sends(v, id)
  PROVE  SendsAlone'
<1>1. UNCHANGED <<journal, inflight>>
  BY DEF outside
<1>2. \A v \in Workers, id \in HoldIds : v # w => (Sends(v, id)' <=> Sends(v, id))
  BY DEF Sends
<1>3. QED
  BY <1>1, <1>2 DEF CInv, SendsAlone

(* SetState leaves the charge of the hold alone. *)
LEMMA SameActual ==
  ASSUME TypeOK, NEW id \in DOMAIN holds, NEW state, SetState(id, state)
  PROVE  holds' = [holds EXCEPT ![id].state = state, ![id].actual = holds[id].actual]
<1>1. holds \in [DOMAIN holds -> HoldRow]
  BY DEF TypeOK
<1>2. [holds[id] EXCEPT !.state = state] = [holds[id] EXCEPT !.state = state, !.actual = holds[id].actual]
  BY <1>1 DEF HoldRow
<1>3. QED
  BY <1>2 DEF SetState

LEMMA ReserveAnewInductive ==
  ASSUME CInv, NEW w \in Workers, ReserveAnew(w)
  PROVE  CInv'
<1> DEFINE c == workers[w]
<1>1. /\ c.pc = "reserve" /\ Reserve(c.agent, c.id, c.quote, c.request, c.expires)
      /\ Goes(w, "insert") /\ UNCHANGED <<quotes, controlTables, outside>>
  BY DEF ReserveAnew
<1>2. /\ c.id \in HoldIds /\ c.agent \in AccountIds /\ c.request \in Requests
      /\ c.quote \in Bounds /\ c.expires \in Expiries
  BY <1>1 DEF CInv, Knowledge, Knows, KnowsArguments
<1>3. IInv'
  BY <1>1, <1>2, ReserveInductive DEF CInv
<1>4. PICK row \in WorkerRow : /\ workers' = [workers EXCEPT ![w] = row]
                               /\ row = [workers[w] EXCEPT !.pc = "insert"]
  BY <1>1, WorkerRows DEF CInv, Steps
<1>5. /\ workers'[w] = row /\ \A v \in Workers \ {w} : workers'[v] = workers[v]
      /\ workers' \in [Workers -> WorkerRow] /\ workers[w] \in WorkerRow
  BY <1>4 DEF CInv, RowsTyped
<1>6. /\ row.pc = "insert" /\ row.id = c.id /\ row.agent = c.agent /\ row.request = c.request
      /\ row.quote = c.quote /\ row.expires = c.expires
  BY <1>4, <1>5 DEF WorkerRow
<1>7. /\ DOMAIN holds' = DOMAIN holds \cup {c.id} /\ c.id \notin DOMAIN holds
      /\ \A id \in DOMAIN holds : holds'[id] = holds[id]
      /\ holds'[c.id] = [account |-> c.agent, bound |-> c.quote, request |-> c.request,
                         expires_at |-> c.expires, state |-> "RESERVED", actual |-> None]
  BY <1>1 DEF Reserve
<1>8. TablesKept' /\ Grows
  <2>1. Unclaimed
    BY <1>7 DEF Unclaimed
  <2>2. QED
    BY <1>1, <1>3, <2>1, UnclaimedKeeps
<1>9. RowsTyped'
  BY <1>1, <1>5 DEF CInv, RowsTyped, controlTables, outside
<1>10. Knowledge'
  <2>1. \A v \in Workers \ {w} : Knows(v)'
    BY <1>5, <1>8, StillKnows DEF CInv
  <2>2. Knows(w)'
    BY <1>2, <1>5, <1>6, <1>7 DEF Knows, KnowsArguments, KnowsHold, KnowsRequest, KnowsCharge
  <2>3. QED
    BY <2>1, <2>2 DEF Knowledge
<1>11. SendsAlone'
  <2>1. \A v \in Workers, id \in HoldIds : v # w /\ Sends(v, id) =>
          holds'[id].state \in {"DISPATCHED", "UNRESOLVED"}
    <3>1. \A v \in Workers, id \in HoldIds : Sends(v, id) => id \in DOMAIN holds
      BY Identifiers DEF CInv, Knowledge, Knows, KnowsRequest, Sends
    <3>2. QED
      BY <1>7, <3>1 DEF CInv, SendsAlone
  <2>2. \A id \in HoldIds : ~ Sends(w, id)'
    BY <1>5, <1>6 DEF Sends
  <2>3. QED
    BY <1>1, <1>5, <2>1, <2>2, OthersSend
<1>12. QED
  BY <1>3, <1>8, <1>9, <1>10, <1>11 DEF CInv, TablesKept

(* The claim is single-winner: the hold was RESERVED, so nobody sent it and *)
(* nobody is about to.                                                      *)
LEMMA ClaimHoldInductive ==
  ASSUME CInv, NEW w \in Workers, ClaimHold(w)
  PROVE  CInv'
<1> DEFINE c == workers[w]
           id == c.id
<1>1. /\ c.pc = "dispatch" /\ Permitted(c) /\ Dispatch(id, c.now)
      /\ Keeps(w, "send", None) \/ Keeps(w, "doubt", None)
      /\ UNCHANGED <<quotes, controlTables, outside>>
  BY DEF ClaimHold
<1>2. /\ id \in DOMAIN holds /\ holds[id].state = "RESERVED" /\ SetState(id, "DISPATCHED")
      /\ Record(id, <<"dispatched">>) /\ UNCHANGED accounts
  BY <1>1 DEF Dispatch
<1>3. /\ id \in HoldIds /\ id \in DOMAIN requests
      /\ requests[id] = [agent |-> c.agent, request |-> c.request, quote |-> c.quote]
  BY <1>1, Identifiers DEF CInv, Knowledge, Knows, KnowsRequest
<1>4. IInv'
  <2>1. events' \in [HoldIds -> Seq(EventKinds)]
    <3>1. events \in [HoldIds -> Seq(EventKinds)] /\ <<"dispatched">> \in Seq(EventKinds)
      BY DEF CInv, IInv, TypeOK, EventKinds
    <3>2. events[id] \o <<"dispatched">> \in Seq(EventKinds)
      BY <1>3, <3>1
    <3>3. QED
      BY <1>2, <3>1, <3>2 DEF Record
  <2>2. "DISPATCHED" \in OUTSTANDING /\ "RESERVED" \in OUTSTANDING
    BY DEF OUTSTANDING
  <2>3. QED
    BY <1>2, <2>1, <2>2, ClaimInductive DEF CInv
<1>5. PICK row \in WorkerRow : /\ workers' = [workers EXCEPT ![w] = row]
                               /\ row.pc \in {"send", "doubt"} /\ row.id = id
  BY <1>1, WorkerRows DEF CInv, Steps
<1>6. /\ workers'[w] = row /\ \A v \in Workers \ {w} : workers'[v] = workers[v]
      /\ workers' \in [Workers -> WorkerRow]
  BY <1>5 DEF CInv, RowsTyped
<1>7. /\ holds[id].account = c.agent /\ holds[id].request = c.request /\ holds[id].bound = c.quote
  BY <1>3 DEF CInv, RequestsMatch
<1>8. Advances(id, "DISPATCHED", holds[id].actual)
  <2>1. holds' = [holds EXCEPT ![id].state = "DISPATCHED", ![id].actual = holds[id].actual]
    BY <1>2, SameActual DEF CInv, IInv
  <2>2. c.request \in Payments =>
          \E p \in DOMAIN approvals :
            /\ approvals[p].state = "APPROVED" /\ approvals[p].reviewer # c.agent
            /\ approvals[p].fingerprint = Fingerprint(id, c.agent, c.request, c.quote)
    BY <1>1 DEF Permitted, Approved, CInv, NobodyReviewsItself
  <2>3. QED
    BY <1>2, <1>7, <2>1, <2>2 DEF Advances, Liable
<1>9. TablesKept' /\ Grows
  BY <1>1, <1>4, <1>8, AdvanceKeeps
<1>10. RowsTyped'
  BY <1>1, <1>6 DEF CInv, RowsTyped, controlTables, outside
<1>11. Knowledge'
  <2>1. \A v \in Workers \ {w} : Knows(v)'
    BY <1>6, <1>9, StillKnows DEF CInv
  <2>2. Knows(w)'
    BY <1>1, <1>3, <1>5, <1>6 DEF Knows, KnowsArguments, KnowsHold, KnowsRequest, KnowsCharge, controlTables
  <2>3. QED
    BY <2>1, <2>2 DEF Knowledge
<1>12. SendsAlone'
  <2>1. \A v \in Workers : ~ Sends(v, id)
    BY <1>2, <1>3 DEF CInv, SendsAlone
  <2>2. \A g \in DOMAIN holds \ {id} : holds'[g] = holds[g]
    BY <1>2 DEF SetState
  <2>3. holds'[id].state = "DISPATCHED"
    BY <1>8, AdvancedRows DEF CInv, IInv
  <2>4. \A v \in Workers, g \in HoldIds : v # w /\ Sends(v, g) =>
          holds'[g].state \in {"DISPATCHED", "UNRESOLVED"}
    <3>1. \A v \in Workers, g \in HoldIds : Sends(v, g) => g \in DOMAIN holds
      BY Identifiers DEF CInv, Knowledge, Knows, KnowsRequest, Sends
    <3>2. QED
      BY <2>1, <2>2, <3>1 DEF CInv, SendsAlone
  <2>5. journal[id] = <<>> /\ id \notin inflight
    BY <1>2, <1>3 DEF CInv, EffectsAreClaimed
  <2>6. \A g \in HoldIds : Sends(w, g)' => g = id
    BY <1>5, <1>6 DEF Sends
  <2>7. QED
    BY <1>1, <1>6, <2>1, <2>3, <2>4, <2>5, <2>6, OthersSend
<1>13. QED
  BY <1>4, <1>9, <1>10, <1>11, <1>12 DEF CInv, TablesKept

(* A step that keeps the tables, and lets no worker go on: it stays where   *)
(* it is, or ends.                                                          *)
LEMMA StaysInductive ==
  ASSUME CInv, IInv', TablesKept', Grows, UNCHANGED <<approvals, journal, inflight>>,
         workers' \in [Workers -> WorkerRow],
         \A v \in Workers : workers'[v] = workers[v] \/ workers'[v].pc = "idle",
         \A v \in Workers, id \in HoldIds : Sends(v, id) => holds'[id].state \in {"DISPATCHED", "UNRESOLVED"}
  PROVE  CInv'
<1>1. RowsTyped'
  BY DEF CInv, RowsTyped
<1>2. Knowledge'
  <2>1. SUFFICES ASSUME NEW v \in Workers PROVE Knows(v)'
    BY DEF Knowledge
  <2>2. CASE workers'[v] = workers[v]
    BY <2>2, StillKnows DEF CInv
  <2>3. CASE workers'[v].pc = "idle"
    BY <2>3 DEF Knows, KnowsArguments, KnowsHold, KnowsRequest, KnowsCharge
  <2>4. QED
    BY <2>2, <2>3
<1>3. SendsAlone'
  <2>1. \A v \in Workers, id \in HoldIds : Sends(v, id)' => Sends(v, id)
    BY DEF Sends
  <2>2. QED
    BY <2>1 DEF CInv, SendsAlone
<1>4. QED
  BY <1>1, <1>2, <1>3 DEF CInv, TablesKept

LEMMA DoubtHoldInductive ==
  ASSUME CInv, NEW w \in Workers, DoubtHold(w)
  PROVE  CInv'
<1> DEFINE id == workers[w].id
<1>1. /\ workers[w].pc = "doubt" /\ MarkUnresolved(id) /\ Ends(w, "returned")
      /\ UNCHANGED <<quotes, controlTables, outside>>
  BY DEF DoubtHold
<1>2. /\ id \in DOMAIN holds /\ holds[id].state = "DISPATCHED" /\ SetState(id, "UNRESOLVED")
      /\ Record(id, <<"unresolved">>) /\ UNCHANGED accounts
  BY <1>1 DEF MarkUnresolved
<1>3. id \in HoldIds
  BY <1>2, Identifiers DEF CInv
<1>4. IInv'
  BY <1>1, <1>3, NextInductive DEF CInv, Next, Doubt
<1>5. Advances(id, "UNRESOLVED", holds[id].actual)
  <2>1. holds' = [holds EXCEPT ![id].state = "UNRESOLVED", ![id].actual = holds[id].actual]
    BY <1>2, SameActual DEF CInv, IInv
  <2>2. QED
    BY <1>2, <2>1 DEF Advances, Liable
<1>6. TablesKept' /\ Grows
  BY <1>1, <1>4, <1>5, AdvanceKeeps
<1>7. PICK row \in WorkerRow : workers' = [workers EXCEPT ![w] = row] /\ row.pc = "idle"
  BY <1>1, WorkerRows DEF CInv, Answers
<1>8. /\ workers' \in [Workers -> WorkerRow]
      /\ \A v \in Workers : workers'[v] = workers[v] \/ workers'[v].pc = "idle"
  BY <1>7 DEF CInv, RowsTyped
<1>9. \A v \in Workers, g \in HoldIds : Sends(v, g) => holds'[g].state \in {"DISPATCHED", "UNRESOLVED"}
  <2>1. \A v \in Workers, g \in HoldIds : Sends(v, g) => g \in DOMAIN holds
    BY Identifiers DEF CInv, Knowledge, Knows, KnowsRequest, Sends
  <2>2. /\ holds'[id].state = "UNRESOLVED"
        /\ \A g \in DOMAIN holds \ {id} : holds'[g] = holds[g]
    BY <1>5, AdvancedRows DEF CInv, IInv
  <2>3. QED
    BY <2>1, <2>2 DEF CInv, SendsAlone
<1>10. QED
  BY <1>1, <1>4, <1>6, <1>8, <1>9, StaysInductive DEF controlTables, outside

(* A hold that is settled, or given back on the provider's word: the        *)
(* execution is on record, so nobody is about to send the request.          *)
LEMMA ClosesInductive ==
  ASSUME CInv, NEW id \in HoldIds, NEW state, NEW actual, journal[id] # <<>>,
         IInv', Advances(id, state, actual), UNCHANGED <<quotes, controlTables, outside>>,
         workers' \in [Workers -> WorkerRow],
         \A v \in Workers : workers'[v] = workers[v] \/ workers'[v].pc = "idle"
  PROVE  CInv'
<1>1. TablesKept' /\ Grows
  BY AdvanceKeeps
<1>2. \A v \in Workers, g \in HoldIds : Sends(v, g) => holds'[g].state \in {"DISPATCHED", "UNRESOLVED"}
  <2>1. ASSUME NEW v \in Workers, NEW g \in HoldIds, Sends(v, g)
        PROVE  g \in DOMAIN holds /\ g # id
    <3>1. KnowsRequest(v) /\ workers[v].pc = "send" /\ workers[v].id = g
      BY <2>1 DEF CInv, Knowledge, Knows, Sends
    <3>2. g \in DOMAIN requests
      BY <3>1 DEF KnowsRequest
    <3>3. DOMAIN requests \subseteq DOMAIN holds
      BY Identifiers DEF CInv
    <3>4. journal[g] = <<>>
      BY <2>1 DEF CInv, SendsAlone
    <3>5. QED
      BY <3>2, <3>3, <3>4
  <2>2. \A g \in DOMAIN holds \ {id} : holds'[g] = holds[g]
    BY AdvancedRows DEF CInv, IInv
  <2>3. QED
    BY <2>1, <2>2 DEF CInv, SendsAlone
<1>3. QED
  BY <1>1, <1>2, StaysInductive DEF controlTables, outside

LEMMA SettleHoldInductive ==
  ASSUME CInv, NEW w \in Workers, SettleHold(w)
  PROVE  CInv'
<1> DEFINE id == workers[w].id
           charge == workers[w].charge
<1>1. /\ workers[w].pc = "settle" /\ Settle(id, charge) /\ Ends(w, "returned")
      /\ UNCHANGED <<quotes, controlTables, outside>>
  BY DEF SettleHold, Charged
<1>2. id \in DOMAIN receipts /\ charge = receipts[id]
  BY <1>1 DEF CInv, Knowledge, Knows, KnowsCharge
<1>3. /\ id \in HoldIds /\ charge \in Charges
      /\ journal[id] # <<>> /\ charge = Last(journal[id]).charge
  BY <1>2, Identifiers DEF CInv, TablesOK, ReceiptsAreEvidence
<1>4. IInv'
  BY <1>1, <1>3, SettleInductive DEF CInv
<1>5. Advances(id, "SETTLED", charge)
  BY <1>1, <1>3 DEF Settle, Advances, Liable
<1>6. PICK row \in WorkerRow : workers' = [workers EXCEPT ![w] = row] /\ row.pc = "idle"
  BY <1>1, WorkerRows DEF CInv, Answers
<1>7. /\ workers' \in [Workers -> WorkerRow]
      /\ \A v \in Workers : workers'[v] = workers[v] \/ workers'[v].pc = "idle"
  BY <1>6 DEF CInv, RowsTyped
<1>8. QED
  BY <1>1, <1>3, <1>4, <1>5, <1>7, ClosesInductive

-----------------------------------------------------------------------------
(* Steps of the provider, the operator, the reviewers and the rest *)

LEMMA ReconcileEvidenceInductive ==
  ASSUME CInv, NEW id \in HoldIds, ReconcileEvidence(id)
  PROVE  CInv'
<1>1. /\ UNCHANGED <<quotes, controlTables, outside, workers>>
      /\ \/ journal[id] # <<>> /\ Settle(id, Last(journal[id]).charge)
         \/ KnownNoCharge(id) /\ ReconcileNoCharge(id)
  BY DEF ReconcileEvidence
<1>2. /\ workers' \in [Workers -> WorkerRow]
      /\ \A v \in Workers : workers'[v] = workers[v] \/ workers'[v].pc = "idle"
  BY <1>1 DEF CInv, RowsTyped
<1>3. CASE journal[id] # <<>> /\ Settle(id, Last(journal[id]).charge)
  <2> DEFINE charge == Last(journal[id]).charge
  <2>1. charge \in Charges
    <3>1. journal[id] \in Seq(ExecutionRow)
      BY DEF CInv, RowsTyped
    <3>2. Last(journal[id]) \in ExecutionRow
      BY <1>3, <3>1 DEF Last
    <3>3. QED
      BY <3>2 DEF ExecutionRow
  <2>2. IInv'
    BY <1>3, <2>1, SettleInductive DEF CInv
  <2>3. Advances(id, "SETTLED", charge)
    BY <1>3 DEF Settle, Advances, Liable
  <2>4. QED
    BY <1>1, <1>2, <1>3, <2>2, <2>3, ClosesInductive
<1>4. CASE KnownNoCharge(id) /\ ReconcileNoCharge(id)
  <2>1. /\ id \in DOMAIN holds /\ holds[id].state \in {"DISPATCHED", "UNRESOLVED"}
        /\ SetState(id, "RELEASED") /\ journal[id] # <<>>
    BY <1>4 DEF ReconcileNoCharge, Releasable, KnownNoCharge
  <2>2. IInv'
    BY <1>4, NextInductive DEF CInv, Next, Reconcile
  <2>3. id \notin inflight
    BY <2>1, OneEffect DEF CInv
  <2>4. holds' = [holds EXCEPT ![id].state = "RELEASED", ![id].actual = holds[id].actual]
    BY <2>1, SameActual DEF CInv, IInv
  <2>5. Advances(id, "RELEASED", holds[id].actual)
    BY <1>4, <2>1, <2>3, <2>4 DEF Advances
  <2>6. QED
    BY <1>1, <1>2, <2>1, <2>2, <2>5, ClosesInductive
<1>5. QED
  BY <1>1, <1>3, <1>4

(* The provider executes, or refuses, a request that is on its way.         *)
LEMMA ProvideInductive ==
  ASSUME CInv, NEW id \in HoldIds, NEW executed \in BOOLEAN, NEW charge \in Charges,
         Provide(id, executed, charge)
  PROVE  CInv'
<1> DEFINE row == [executed |-> executed, charge |-> charge]
<1>1. /\ id \in inflight /\ inflight' = inflight \ {id}
      /\ journal' = [journal EXCEPT ![id] = Append(@, row)]
      /\ UNCHANGED <<accounts, holds, events, quotes, requests, receipts, approvals, workers>>
  BY DEF Provide, marketVars, controlTables
<1>2. IInv'
  BY <1>1, NextInductive DEF CInv, ledgerVars
<1>3. journal[id] = <<>> /\ journal \in [HoldIds -> Seq(ExecutionRow)]
  BY <1>1, OneEffect DEF CInv, RowsTyped
<1>4. row \in ExecutionRow
  BY DEF ExecutionRow
<1> HIDE DEF row
<1>5. /\ journal'[id] = <<row>> /\ \A g \in HoldIds \ {id} : journal'[g] = journal[g]
      /\ journal' \in [HoldIds -> Seq(ExecutionRow)]
  BY <1>1, <1>3, <1>4
<1>6. id \in DOMAIN requests /\ holds[id].state \in Liable /\ id \in DOMAIN holds
  BY <1>1 DEF CInv, EffectsAreClaimed, EffectIsLiable, Liable
<1>7. TablesOK' /\ RowsTyped'
  BY <1>1, <1>2, <1>5 DEF CInv, IInv, TablesOK, RowsTyped
<1>8. EffectsAreClaimed'
  BY <1>1, <1>5, <1>6 DEF CInv, EffectsAreClaimed, Liable
<1>9. AtMostOneEffect'
  <2>1. ASSUME NEW g \in HoldIds \ {id}
        PROVE  Len(journal'[g]) + (IF g \in inflight' THEN 1 ELSE 0) <= 1
    <3>1. journal'[g] = journal[g] /\ (g \in inflight' <=> g \in inflight)
      BY <1>1, <1>5
    <3>2. QED
      BY <3>1 DEF CInv, AtMostOneEffect
  <2>2. Len(journal'[id]) + (IF id \in inflight' THEN 1 ELSE 0) <= 1
    BY <1>1, <1>5
  <2>3. QED
    BY <2>1, <2>2 DEF AtMostOneEffect
<1>10. EffectIsLiable'
  BY <1>1, <1>5, <1>6 DEF CInv, EffectIsLiable, Liable
<1>11. ReceiptsAreEvidence' /\ ChargesAreEvidence'
  <2>1. id \notin DOMAIN receipts /\ holds[id].state # "SETTLED"
    BY <1>3, <1>6 DEF CInv, ReceiptsAreEvidence, ChargesAreEvidence
  <2>2. DOMAIN receipts \subseteq HoldIds /\ DOMAIN holds \subseteq HoldIds
    BY Identifiers DEF CInv
  <2>3. QED
    BY <1>1, <1>5, <2>1, <2>2 DEF CInv, ReceiptsAreEvidence, ChargesAreEvidence
<1>12. RequestsMatch' /\ NobodyReviewsItself' /\ PaymentsReviewed'
  BY <1>1 DEF CInv, RequestsMatch, NobodyReviewsItself, PaymentsReviewed
<1>13. Knowledge'
  <2>1. Grows
    BY <1>1, <1>3, <1>5 DEF Grows
  <2>2. QED
    BY <1>1, <2>1, StillKnows DEF CInv, Knowledge
<1>14. SendsAlone'
  <2>1. \A v \in Workers, g \in HoldIds : (Sends(v, g)' <=> Sends(v, g)) /\ (Sends(v, g) => g # id)
    BY <1>1 DEF Sends, CInv, SendsAlone
  <2>2. QED
    BY <1>1, <1>5, <2>1 DEF CInv, SendsAlone
<1>15. QED
  BY <1>2, <1>7, <1>8, <1>9, <1>10, <1>11, <1>12, <1>13, <1>14 DEF CInv

(* A step of somebody else that makes or gives back holds nobody claimed.   *)
LEMMA OthersInductive ==
  ASSUME CInv, IInv', Unclaimed, UNCHANGED <<quotes, controlTables, outside, workers>>
  PROVE  CInv'
<1>1. TablesKept' /\ Grows
  BY UnclaimedKeeps
<1>2. \A v \in Workers, id \in HoldIds : Sends(v, id) => holds'[id].state \in {"DISPATCHED", "UNRESOLVED"}
  <2>1. \A v \in Workers, id \in HoldIds : Sends(v, id) => id \in DOMAIN holds
    BY Identifiers DEF CInv, Knowledge, Knows, KnowsRequest, Sends
  <2>2. QED
    BY <2>1 DEF CInv, SendsAlone, Unclaimed
<1>3. workers' \in [Workers -> WorkerRow]
  BY DEF CInv, RowsTyped
<1>4. QED
  BY <1>1, <1>2, <1>3, StaysInductive DEF controlTables, outside

LEMMA GivesBackUnclaimed ==
  ASSUME TypeOK, GivesBack
  PROVE  Unclaimed
<1>1. \A h \in DOMAIN holds : holds[h] \in HoldRow
  BY DEF TypeOK
<1>2. QED
  BY <1>1 DEF GivesBack, Unclaimed, HoldRow

LEMMA SurroundingsInductive ==
  ASSUME CInv, Surroundings
  PROVE  CInv'
<1>1. (Operate \/ Sweep \/ Cancel) /\ UNCHANGED <<quotes, controlTables, outside, workers>>
  BY DEF Surroundings
<1>2. CASE Operate
  <2>1. IInv'
    BY <1>2, NextInductive DEF CInv, Next
  <2>2. GivesBack
    BY <1>2, KeepsGivesBack DEF Operate, SetLifecycle
  <2>3. QED
    BY <1>1, <2>1, <2>2, GivesBackUnclaimed, OthersInductive DEF CInv, IInv
<1>3. CASE Sweep \/ Cancel
  BY <1>1, <1>3, SweepGivesBack, GivesBackUnclaimed, OthersInductive DEF CInv, IInv
<1>4. QED
  BY <1>1, <1>2, <1>3

LEMMA RestOfProgramInductive ==
  ASSUME CInv, RestOfProgram
  PROVE  CInv'
<1>1. UNCHANGED <<quotes, controlTables, outside, workers>>
  BY DEF RestOfProgram
<1>2. CASE OpenAccount \/ MakeHold
  <2>1. IInv'
    BY <1>2, NextInductive DEF CInv, Next
  <2>2. CASE OpenAccount
    <3>1. holds' = holds
      BY <2>2 DEF OpenAccount, CreateAccount
    <3>2. QED
      BY <1>1, <2>1, <3>1, KeepsGivesBack, GivesBackUnclaimed, OthersInductive DEF CInv, IInv
  <2>3. CASE MakeHold
    <3>1. PICK a \in AccountIds, h \in HoldIds, b \in Bounds, r \in Requests, t \in Expiries :
            Reserve(a, h, b, r, t)
      BY <2>3 DEF MakeHold
    <3>2. /\ h \notin DOMAIN holds
          /\ holds' = [g \in DOMAIN holds \cup {h} |->
                         IF g = h THEN [account |-> a, bound |-> b, request |-> r,
                                        expires_at |-> t, state |-> "RESERVED", actual |-> None]
                                  ELSE holds[g]]
      BY <3>1 DEF Reserve
    <3>3. /\ DOMAIN holds' = DOMAIN holds \cup {h}
          /\ \A g \in DOMAIN holds : holds'[g] = holds[g]
          /\ holds'[h].state = "RESERVED"
      BY <3>2
    <3>4. Unclaimed
      BY <3>2, <3>3 DEF Unclaimed
    <3>5. QED
      BY <1>1, <2>1, <3>4, OthersInductive
  <2>4. QED
    BY <1>2, <2>2, <2>3
<1>3. CASE Issue \/ Order \/ Auction \/ Offer \/ Award \/ Deliver \/ GiveUp \/ Withdraw \/ Lapse
  BY <1>1, <1>3, MarketStepGivesBack, GivesBackUnclaimed, OthersInductive DEF CInv, IInv
<1>4. QED
  BY <1>2, <1>3 DEF RestOfProgram

(* What an approval says is fixed once it was decided. *)
LEMMA ApprovalsInductive ==
  ASSUME CInv, approvals' \in [DOMAIN approvals' -> ApprovalRow], NobodyReviewsItself',
         DOMAIN approvals \subseteq DOMAIN approvals',
         \A p \in DOMAIN approvals : approvals[p].state = "APPROVED" => approvals'[p] = approvals[p],
         UNCHANGED <<marketVars, quotes, requests, receipts, outside, workers>>
  PROVE  CInv'
<1>1. UNCHANGED <<accounts, holds, events, quotes, requests, receipts, journal, inflight, workers>>
  BY DEF marketVars, outside
<1>2. IInv'
  BY <1>1, NextInductive DEF CInv, ledgerVars
<1>3. TablesOK' /\ RowsTyped'
  BY <1>1, <1>2 DEF CInv, IInv, TablesOK, RowsTyped
<1>4. RequestsMatch' /\ EffectsAreClaimed' /\ AtMostOneEffect' /\ EffectIsLiable'
  BY <1>1 DEF CInv, RequestsMatch, EffectsAreClaimed, AtMostOneEffect, EffectIsLiable
<1>5. ReceiptsAreEvidence' /\ ChargesAreEvidence'
  BY <1>1 DEF CInv, ReceiptsAreEvidence, ChargesAreEvidence
<1>6. PaymentsReviewed'
  BY <1>1 DEF CInv, PaymentsReviewed
<1>7. Knowledge'
  <2>1. Grows
    BY <1>1 DEF Grows
  <2>2. QED
    BY <1>1, <2>1, StillKnows DEF CInv, Knowledge
<1>8. SendsAlone'
  BY <1>1 DEF CInv, SendsAlone, Sends
<1>9. QED
  BY <1>2, <1>3, <1>4, <1>5, <1>6, <1>7, <1>8 DEF CInv

LEMMA RequestApprovalInductive ==
  ASSUME CInv, NEW p \in ApprovalIds, NEW id \in HoldIds, NEW a \in AccountIds, NEW r \in Requests,
         NEW t \in ApprovalExpiries, RequestApproval(p, id, a, r, t)
  PROVE  CInv'
<1> DEFINE row == [agent |-> a, fingerprint |-> Fingerprint(id, a, r, quotes[r]), expires_at |-> t,
                   reviewer |-> None, state |-> "PENDING"]
<1>1. /\ p \notin DOMAIN approvals /\ approvals' = Insert(approvals, p, row)
      /\ UNCHANGED <<marketVars, quotes, requests, receipts, outside, workers>>
  BY DEF RequestApproval
<1>2. row \in ApprovalRow /\ row.state = "PENDING"
  <2>1. t \in Nat
    BY ControlAssumption
  <2>2. quotes[r] \in Bounds
    BY DEF CInv, TablesOK
  <2>3. QED
    BY <2>1, <2>2 DEF ApprovalRow, Fingerprint
<1> HIDE DEF row
<1>3. /\ DOMAIN approvals' = DOMAIN approvals \cup {p} /\ approvals'[p] = row
      /\ \A o \in DOMAIN approvals : approvals'[o] = approvals[o]
  BY <1>1 DEF Insert
<1>4. approvals' \in [DOMAIN approvals' -> ApprovalRow]
  <2>1. \A o \in DOMAIN approvals : approvals[o] \in ApprovalRow
    BY DEF CInv, RowsTyped
  <2>2. QED
    BY <1>1, <1>2, <2>1 DEF Insert
<1>5. NobodyReviewsItself'
  BY <1>2, <1>3 DEF CInv, NobodyReviewsItself
<1>6. QED
  BY <1>1, <1>3, <1>4, <1>5, ApprovalsInductive

LEMMA ReviewInductive ==
  ASSUME CInv, NEW p \in ApprovalIds, NEW reviewer \in Reviewers, NEW approve \in BOOLEAN, NEW now \in Times,
         Review(p, reviewer, approve, now)
  PROVE  CInv'
<1>1. PICK state \in {"APPROVED", "REJECTED"} :
        /\ p \in DOMAIN approvals /\ approvals[p].state = "PENDING" /\ reviewer # approvals[p].agent
        /\ approvals' = [approvals EXCEPT ![p].reviewer = reviewer, ![p].state = state]
        /\ UNCHANGED <<marketVars, quotes, requests, receipts, outside, workers>>
  BY DEF Review, MayReview
<1>2. approvals \in [DOMAIN approvals -> ApprovalRow] /\ approvals[p] \in ApprovalRow
  BY <1>1 DEF CInv, RowsTyped
<1>3. /\ DOMAIN approvals' = DOMAIN approvals
      /\ \A o \in DOMAIN approvals \ {p} : approvals'[o] = approvals[o]
      /\ approvals'[p] \in ApprovalRow /\ approvals'[p].reviewer = reviewer
      /\ approvals'[p].agent = approvals[p].agent
  BY <1>1, <1>2 DEF ApprovalRow
<1>4. approvals' \in [DOMAIN approvals' -> ApprovalRow]
  <2>1. \A o \in DOMAIN approvals : approvals'[o] \in ApprovalRow
    BY <1>2, <1>3
  <2>2. QED
    BY <1>1, <1>3, <2>1
<1>5. NobodyReviewsItself'
  BY <1>1, <1>3 DEF CInv, NobodyReviewsItself
<1>6. QED
  BY <1>1, <1>3, <1>4, <1>5, ApprovalsInductive

(* A restart forgets what every worker knew, and may change the quotes.     *)
LEMMA RestartInductive ==
  ASSUME CInv, Restart
  PROVE  CInv'
<1>1. /\ workers' = [w \in Workers |-> Idle] /\ quotes' \in [Requests -> Bounds]
      /\ UNCHANGED <<accounts, holds, events, requests, receipts, approvals, journal, inflight>>
  BY DEF Restart, marketVars, controlTables, outside
<1>2. IInv'
  BY <1>1, NextInductive DEF CInv, ledgerVars
<1>3. Idle \in WorkerRow /\ Idle.pc = "idle"
  BY DEF WorkerRow, Idle, Answers, Steps
<1>4. TablesOK' /\ RowsTyped'
  <2>1. workers' \in [Workers -> WorkerRow]
    BY <1>1, <1>3
  <2>2. QED
    BY <1>1, <1>2, <2>1 DEF CInv, IInv, TablesOK, RowsTyped
<1>5. RequestsMatch' /\ EffectsAreClaimed' /\ AtMostOneEffect' /\ EffectIsLiable'
  BY <1>1 DEF CInv, RequestsMatch, EffectsAreClaimed, AtMostOneEffect, EffectIsLiable
<1>6. ReceiptsAreEvidence' /\ ChargesAreEvidence' /\ NobodyReviewsItself' /\ PaymentsReviewed'
  BY <1>1 DEF CInv, ReceiptsAreEvidence, ChargesAreEvidence, NobodyReviewsItself, PaymentsReviewed
<1>7. \A w \in Workers : workers'[w].pc = "idle"
  BY <1>1, <1>3
<1>8. Knowledge' /\ SendsAlone'
  BY <1>7 DEF Knowledge, Knows, KnowsArguments, KnowsHold, KnowsRequest, KnowsCharge, SendsAlone, Sends
<1>9. QED
  BY <1>2, <1>4, <1>5, <1>6, <1>8 DEF CInv

-----------------------------------------------------------------------------
LEMMA ControlInitInductive == ControlInit => CInv
<1> SUFFICES ASSUME ControlInit PROVE CInv
  OBVIOUS
<1>1. /\ DOMAIN accounts = {} /\ DOMAIN holds = {} /\ DOMAIN requests = {} /\ DOMAIN receipts = {}
      /\ DOMAIN approvals = {} /\ inflight = {} /\ quotes \in [Requests -> Bounds]
      /\ journal = [i \in HoldIds |-> <<>>] /\ workers = [w \in Workers |-> Idle]
  BY DEF ControlInit, MarketInit, Init
<1>2. IInv
  BY InitInductive DEF ControlInit, MarketInit
<1>3. Idle \in WorkerRow /\ Idle.pc = "idle"
  BY DEF WorkerRow, Idle, Answers, Steps
<1>4. TablesOK
  <2>1. /\ requests \in [DOMAIN requests -> [agent: AccountIds, request: Requests, quote: Bounds]]
        /\ receipts \in [DOMAIN receipts -> Charges]
    BY <1>1 DEF ControlInit
  <2>2. QED
    BY <1>1, <1>2, <2>1 DEF TablesOK, IInv
<1>5. RowsTyped
  <2>1. approvals \in [DOMAIN approvals -> ApprovalRow]
    BY <1>1 DEF ControlInit
  <2>2. <<>> \in Seq(ExecutionRow)
    OBVIOUS
  <2>3. QED
    BY <1>1, <1>3, <2>1, <2>2 DEF RowsTyped
<1>6. \A id \in HoldIds : journal[id] = <<>> /\ Len(journal[id]) = 0 /\ DOMAIN journal[id] = {}
  BY <1>1
<1>7. AtMostOneEffect /\ EffectIsLiable
  BY <1>1, <1>6 DEF AtMostOneEffect, EffectIsLiable
<1>8. RequestsMatch /\ EffectsAreClaimed /\ ReceiptsAreEvidence /\ ChargesAreEvidence
  BY <1>1, <1>6 DEF RequestsMatch, EffectsAreClaimed, ReceiptsAreEvidence, ChargesAreEvidence
<1>9. NobodyReviewsItself /\ PaymentsReviewed
  BY <1>1 DEF NobodyReviewsItself, PaymentsReviewed
<1>10. \A w \in Workers : workers[w].pc = "idle"
  BY <1>1, <1>3
<1>11. Knowledge /\ SendsAlone
  BY <1>10 DEF Knowledge, Knows, KnowsArguments, KnowsHold, KnowsRequest, KnowsCharge, SendsAlone, Sends
<1>12. QED
  BY <1>2, <1>4, <1>5, <1>7, <1>8, <1>9, <1>11 DEF CInv

LEMMA WorkerStepInductive ==
  ASSUME CInv, NEW w \in Workers, WorkerStep(w)
  PROVE  CInv'
<1>1. CASE Authorize(w) \/ ReadRequest(w) \/ Answered(w) \/ Failed(w)
  BY <1>1, AuthorizeInductive, ReadRequestInductive, AnsweredInductive, FailedInductive
<1>2. CASE ReserveAnew(w) \/ ReserveAgain(w) \/ InsertRequest(w)
  BY <1>2, ReserveAnewInductive, ReserveAgainInductive, InsertRequestInductive
<1>3. CASE ReserveRejected(w) \/ ClaimRefused(w) \/ DoubtAgain(w) \/ SettleAgain(w)
  BY <1>3, RefusalInductive
<1>4. CASE ClaimHold(w) \/ Send(w) \/ DoubtHold(w) \/ RecordReceipt(w) \/ SettleHold(w)
  BY <1>4, ClaimHoldInductive, SendInductive, DoubtHoldInductive, RecordReceiptInductive, SettleHoldInductive
<1>5. QED
  BY <1>1, <1>2, <1>3, <1>4 DEF WorkerStep

LEMMA ControlNextInductive == CInv /\ [ControlNext \/ RestOfProgram]_controlVars => CInv'
<1> SUFFICES ASSUME CInv, [ControlNext \/ RestOfProgram]_controlVars PROVE CInv'
  OBVIOUS
<1>1. CASE Caller
  BY <1>1, CallInductive, ResumeInductive DEF Caller
<1>2. CASE \E w \in Workers : WorkerStep(w)
  BY <1>2, WorkerStepInductive
<1>3. CASE Execution \/ Inquiry
  BY <1>3, ProvideInductive, ReconcileEvidenceInductive DEF Execution, Inquiry
<1>4. CASE Petition \/ Decision
  BY <1>4, RequestApprovalInductive, ReviewInductive DEF Petition, Decision
<1>5. CASE Surroundings \/ Restart \/ RestOfProgram
  BY <1>5, SurroundingsInductive, RestartInductive, RestOfProgramInductive
<1>6. CASE UNCHANGED controlVars
  <2>1. UNCHANGED <<ledgerVars, quotes, controlTables, outside, workers>> /\ holds' = holds
    BY <1>6 DEF controlVars, marketVars, ledgerVars
  <2>2. IInv'
    BY <2>1, NextInductive DEF CInv
  <2>3. QED
    BY <2>1, <2>2, KeepsGivesBack, GivesBackUnclaimed, OthersInductive DEF CInv, IInv
<1>7. QED
  BY <1>1, <1>2, <1>3, <1>4, <1>5, <1>6 DEF ControlNext

(* What the four theorems below rest on. *)
THEOREM ControlInvariant == ControlSpec => []CInv
<1>1. ControlInit => CInv
  BY ControlInitInductive
<1>2. CInv /\ [ControlNext \/ RestOfProgram]_controlVars => CInv'
  BY ControlNextInductive
<1>3. QED
  BY <1>1, <1>2, PTL DEF ControlSpec

(* A request is sent to its provider at most once, however many callers,    *)
(* retries and restarts there are.                                          *)
THEOREM EffectsOnce == ControlSpec => []AtMostOneEffect
<1>1. CInv => AtMostOneEffect
  BY DEF CInv
<1>2. QED
  BY <1>1, ControlInvariant, PTL

(* What may have been executed stays reserved, or is charged. *)
THEOREM EffectsLiable == ControlSpec => []EffectIsLiable
<1>1. CInv => EffectIsLiable
  BY DEF CInv
<1>2. QED
  BY <1>1, ControlInvariant, PTL

(* A hold is charged what the provider recorded, and no stored receipt is   *)
(* contradicted by the state of its hold.                                   *)
THEOREM ChargesFollowEvidence == ControlSpec => []ChargeIsEvidence
<1>1. CInv => ChargeIsEvidence
  <2> SUFFICES ASSUME CInv PROVE ChargeIsEvidence
    OBVIOUS
  <2>1. ControlTypeOK
    <3>1. \A w \in Workers : workers[w] \in WorkerRow
      BY DEF CInv, RowsTyped
    <3>2. QED
      BY <3>1 DEF CInv, ControlTypeOK, WorkerRow
  <2>2. ASSUME NEW id \in DOMAIN receipts
        PROVE  \/ holds[id].state \in {"DISPATCHED", "UNRESOLVED"}
               \/ holds[id].state = "SETTLED" /\ holds[id].actual = receipts[id]
               \/ holds[id].state = "RELEASED" /\ KnownNoCharge(id)
    <3>1. id \in HoldIds /\ id \in DOMAIN holds /\ journal[id] # <<>>
      BY Identifiers DEF CInv, ReceiptsAreEvidence
    <3>2. holds[id].state \in HoldStates
      BY <3>1 DEF CInv, IInv, TypeOK, HoldRow
    <3>3. holds[id].state # "RESERVED"
      BY <3>1 DEF CInv, EffectsAreClaimed
    <3>4. CASE holds[id].state = "SETTLED"
      BY <3>1, <3>4 DEF CInv, ChargesAreEvidence, ReceiptsAreEvidence
    <3>5. CASE holds[id].state = "RELEASED"
      <4>1. journal[id] \in Seq(ExecutionRow)
        BY <3>1 DEF CInv, RowsTyped
      <4>2. Len(journal[id]) \in DOMAIN journal[id]
        BY <3>1, <4>1
      <4>3. ~ Last(journal[id]).executed
        BY <3>1, <3>5, <4>2 DEF CInv, EffectIsLiable, Last
      <4>4. QED
        BY <3>1, <3>5, <4>3 DEF KnownNoCharge
    <3>6. QED
      BY <3>2, <3>3, <3>4, <3>5 DEF HoldStates, OUTSTANDING
  <2>3. QED
    BY <2>1, <2>2 DEF CInv, ChargesAreEvidence, ChargeIsEvidence
<1>2. QED
  BY <1>1, ControlInvariant, PTL

(* A payment that was dispatched had been approved, by another principal,   *)
(* for this agent, request and bound.                                       *)
THEOREM PaymentsWereReviewed == ControlSpec => []PaymentsReviewed
<1>1. CInv => PaymentsReviewed
  BY DEF CInv
<1>2. QED
  BY <1>1, ControlInvariant, PTL
=============================================================================
