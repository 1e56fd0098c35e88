------------------------- MODULE OrderPlanRaceProofs -------------------------
(***************************************************************************)
(* What survives when a revocation or a change of the paper amount runs in *)
(* a worker thread between the read and the write of a handler on the      *)
(* event loop.  The revocation itself may not survive (RevocationIsFinal,  *)
(* refuted by a run); the books do, for every number of cards and plans.   *)
(*                                                                         *)
(* The argument is that of OrderPlanProofs, whose lemmas about the tables  *)
(* do not need the parts of its invariant that the race breaks (the        *)
(* relation of a plan to its card and to the user's decision).  What an    *)
(* evaluation in flight has read may be older than the tables in one       *)
(* column only, the status: no thread trades.                              *)
(***************************************************************************)
EXTENDS OrderPlanRace, OrderPlanProofs

(* The arguments of a handler on the event loop and, for an evaluation,   *)
(* the plan it has found and a row that still does no harm.               *)
CallProper(call) ==
  /\ call.op \in {"approve", "draft"} => call.card \in Cards /\ call.user \in Users
  /\ call.op = "draft" => call.edit \in Overrides
  /\ call.op = "evaluate" =>
       /\ call.plan \in Existing /\ call.key \in TickKeys /\ call.tick \in Ticks
       /\ FreshRow(call.plan, call.row)

FlightProper ==
  /\ \A a, b \in inFlight : a = b
  /\ \A call \in inFlight : CallProper(call)

RInv == CoreInv /\ FlightProper

(* The server starts with empty tables and no handler at work. *)
LEMMA RaceInitInv == RaceInit => RInv
  <1> SUFFICES ASSUME RaceInit PROVE RInv
    OBVIOUS
  <1> QED
    BY InitInv DEF RaceInit, IInv, RInv, FlightProper

(* The one handler in flight has answered: none is. *)
LEMMA AnswerLeavesNone ==
  ASSUME FlightProper, NEW call \in inFlight, Answer(call)
  PROVE  FlightProper'
  <1>1. inFlight' = {}
    BY DEF FlightProper, Answer
  <1> QED
    BY <1>1 DEF FlightProper

(* A fresh row stays fresh when the plans are as before and none becomes  *)
(* entry-capable.                                                         *)
LEMMA FreshRowStays ==
  ASSUME NEW p \in Existing, NEW r, FreshRow(p, r),
         UNCHANGED <<plans, terms, bought, amount, sold>>,
         \A q \in Existing : IsEntry(q)' => IsEntry(q)
  PROVE  p \in Existing' /\ FreshRow(p, r)'
  <1>1. Existing' = Existing
    BY DEF Existing
  <1>2. Agrees(p, r)'
    BY DEF FreshRow, Agrees
  <1>3. LoneEntry(p) => LoneEntry(p)'
    BY <1>1 DEF LoneEntry
  <1> QED
    BY <1>1, <1>2, <1>3 DEF FreshRow

(* A thread's step does not disturb the handler in flight. *)
LEMMA ThreadKeepsFlight ==
  ASSUME FlightProper, UNCHANGED <<inFlight, plans, terms, bought, amount, sold>>,
         \A q \in Existing : IsEntry(q)' => IsEntry(q)
  PROVE  FlightProper'
  <1>1. ASSUME NEW call \in inFlight PROVE CallProper(call)'
    <2>1. CallProper(call)
      BY DEF FlightProper
    <2>2. CASE call.op = "evaluate"
      <3>1. call.plan \in Existing' /\ FreshRow(call.plan, call.row)'
        BY <2>1, <2>2, FreshRowStays DEF CallProper
      <3> QED
        BY <2>1, <2>2, <3>1 DEF CallProper
    <2>3. CASE call.op # "evaluate"
      BY <2>1, <2>3 DEF CallProper
    <2> QED
      BY <2>2, <2>3
  <1> QED
    BY <1>1 DEF FlightProper

(* A handler that has only read enters the flight with what it read. *)
LEMMA BeginsProper ==
  ASSUME CoreInv, UNCHANGED vars, NEW call, CallProper(call), inFlight' = {call}
  PROVE  RInv'
  <1>1. CoreInv'
    BY StutterCore
  <1>2. CallProper(call)'
    <2>1. Existing' = Existing /\ \A q \in Existing : IsEntry(q)' = IsEntry(q)
      BY DEF Existing, IsEntry, vars
    <2>2. CASE call.op = "evaluate"
      <3>1. UNCHANGED <<plans, terms, bought, amount, sold>>
        BY DEF vars, execVars
      <3>2. call.plan \in Existing' /\ FreshRow(call.plan, call.row)'
        BY <2>1, <2>2, <3>1, FreshRowStays DEF CallProper
      <3> QED
        BY <2>2, <3>2 DEF CallProper
    <2>3. CASE call.op # "evaluate"
      BY <2>3 DEF CallProper
    <2> QED
      BY <2>2, <2>3
  <1> QED
    BY <1>1, <1>2 DEF RInv, FlightProper

(* evaluate_order_plan reads its row. *)
LEMMA BeginEvaluateInv ==
  ASSUME RInv, NEW p \in PlanIds, NEW k \in TickKeys, NEW t \in Ticks, BeginEvaluate(p, k, t)
  PROVE  RInv'
  <1> DEFINE call == [op |-> "evaluate", plan |-> p, key |-> k, tick |-> t, row |-> Row(p)]
  <1>1. p \in Existing /\ inFlight' = {call} /\ UNCHANGED vars
    BY DEF BeginEvaluate
  <1>2. FreshRow(p, Row(p))
    BY <1>1, RowIsFresh DEF RInv
  <1>3. CallProper(call)
    BY <1>1, <1>2 DEF CallProper
  <1> HIDE DEF call
  <1> QED
    BY <1>1, <1>3, BeginsProper DEF RInv

(* user_decision has found the card valid. *)
LEMMA BeginApproveInv ==
  ASSUME RInv, NEW c \in Cards, NEW u \in Users, BeginApprove(c, u)
  PROVE  RInv'
  <1> DEFINE call == [op |-> "approve", card |-> c, user |-> u]
  <1>1. inFlight' = {call} /\ UNCHANGED vars
    BY DEF BeginApprove
  <1>2. CallProper(call)
    BY DEF CallProper
  <1> HIDE DEF call
  <1> QED
    BY <1>1, <1>2, BeginsProper DEF RInv

(* edit_draft has found the card valid. *)
LEMMA BeginEditDraftInv ==
  ASSUME RInv, NEW c \in Cards, NEW u \in Users, NEW o \in Overrides, BeginEditDraft(c, u, o)
  PROVE  RInv'
  <1> DEFINE call == [op |-> "draft", card |-> c, user |-> u, edit |-> o]
  <1>1. inFlight' = {call} /\ UNCHANGED vars
    BY DEF BeginEditDraft
  <1>2. CallProper(call)
    BY DEF CallProper
  <1> HIDE DEF call
  <1> QED
    BY <1>1, <1>2, BeginsProper DEF RInv

(* The evaluator commits what follows from the row it read. *)
LEMMA FinishEvaluateInv ==
  ASSUME RInv, NEW call \in inFlight, call.op = "evaluate",
         EvaluateWith(call.plan, call.row, call.key, call.tick)
  PROVE  /\ CoreInv'
         /\ \A q \in Existing : IsEntry(q)' =>
              \/ IsEntry(q)
              \/ /\ q = call.plan
                 /\ call.row.status \in EntryStatuses
                 /\ bought'[q] > bought[q]
  <1>1. /\ call.plan \in Existing /\ call.key \in TickKeys /\ call.tick \in TickType
        /\ FreshRow(call.plan, call.row)
    BY InputAssumption DEF RInv, FlightProper, CallProper
  <1> QED
    BY <1>1, EvaluateCore DEF RInv

(* user_decision commits what follows from the tables it finds. *)
LEMMA FinishApproveInv ==
  ASSUME CoreInv, NEW c \in Cards, NEW u \in Users, ApproveWith(c, u)
  PROVE  CoreInv' /\ \A q \in Existing : IsEntry(q)' = IsEntry(q)
  <1>1. CASE UNCHANGED vars
    BY <1>1, StutterCore DEF vars, IsEntry
  <1>2. ASSUME NEW s \in Snapshots, ~SameLivePlan(c, u, s), InsertPlan(c, u, s)
        PROVE  CoreInv' /\ \A q \in Existing : IsEntry(q)' = IsEntry(q)
    <2>1. CoreInv'
      BY <1>2, InsertPlanCore
    <2>2. /\ status' = [status EXCEPT ![plans + 1] = "approved"]
          /\ \A q \in Existing : q \in PlanIds /\ q # plans + 1
      BY <1>2, BoundsAssumption DEF CoreInv, TypeOK, InsertPlan, Existing, PlanIds
    <2>3. ASSUME NEW q \in Existing PROVE status'[q] = status[q]
      BY <2>2 DEF CoreInv, TypeOK
    <2> QED
      BY <2>1, <2>3 DEF IsEntry
  <1> QED
    BY <1>1, <1>2, ApproveCore

(* The handlers that hold the write lock while they read. *)
LEMMA OnLoopInv ==
  ASSUME RInv, OnLoop
  PROVE  RInv' /\ \A q \in Existing : IsEntry(q)' => IsEntry(q)
  <1>1. FlightProper'
    BY DEF OnLoop, LoopFree, FlightProper
  <1>2. CoreInv' /\ \A q \in Existing : IsEntry(q)' => IsEntry(q)
    <2>1. ASSUME NEW c \in Cards, PublishCard(c)
          PROVE  CoreInv' /\ \A q \in Existing : IsEntry(q)' => IsEntry(q)
      BY <2>1, PublishCardCore DEF RInv
    <2>2. ASSUME NEW c \in Cards, NEW u \in Users, Hold(c, u)
          PROVE  CoreInv' /\ \A q \in Existing : IsEntry(q)' => IsEntry(q)
      BY <2>2, HoldCore DEF RInv
    <2>3. ASSUME NEW u \in Users, NEW p \in PlanIds, NEW o \in Overrides, EditPlan(u, p, o)
          PROVE  CoreInv' /\ \A q \in Existing : IsEntry(q)' => IsEntry(q)
      BY <2>3, EditPlanCore DEF RInv
    <2> QED
      BY <2>1, <2>2, <2>3 DEF OnLoop
  <1> QED
    BY <1>1, <1>2 DEF RInv

(* The handlers in worker threads, whatever is in flight on the loop. *)
LEMMA OnThreadInv ==
  ASSUME RInv, OnThread
  PROVE  RInv' /\ \A q \in Existing : IsEntry(q)' => IsEntry(q)
  <1>1. CASE InvalidateEvidence
    <2>1. CoreInv' /\ \A q \in Existing : IsEntry(q)' => IsEntry(q)
      BY <1>1, InvalidateEvidenceCore DEF RInv
    <2>2. UNCHANGED <<inFlight, plans, terms, bought, amount, sold>>
      BY <1>1 DEF OnThread, InvalidateEvidence, execVars
    <2> QED
      BY <2>1, <2>2, ThreadKeepsFlight DEF RInv
  <1>2. ASSUME NEW u \in Users, NEW a \in Amounts, SetPaperAmount(u, a)
        PROVE  RInv' /\ \A q \in Existing : IsEntry(q)' => IsEntry(q)
    <2>1. CoreInv' /\ \A q \in Existing : IsEntry(q)' => IsEntry(q)
      BY <1>2, SetPaperAmountCore DEF RInv
    <2>2. UNCHANGED <<inFlight, plans, terms, bought, amount, sold>>
      BY <1>2 DEF OnThread, SetPaperAmount, execVars
    <2> QED
      BY <2>1, <2>2, ThreadKeepsFlight DEF RInv
  <1> QED
    BY <1>1, <1>2 DEF OnThread

(* A plan has its entry permission back only from the handler in flight:  *)
(* an evaluation that read it before the revocation and now buys.         *)
RestoredByBuy(p) ==
  \E call \in inFlight :
    /\ call.op = "evaluate" /\ call.plan = p
    /\ call.row.status \in EntryStatuses
    /\ bought'[p] > bought[p]

(* Every step preserves the invariant, and gives no existing plan an      *)
(* entry permission but by such a buy.                                    *)
LEMMA RaceNextInv ==
  ASSUME RInv, [RaceNext]_raceVars
  PROVE  RInv' /\ \A q \in Existing : IsEntry(q)' => IsEntry(q) \/ RestoredByBuy(q)
  <1> DEFINE Goal == RInv' /\ \A q \in Existing : IsEntry(q)' => IsEntry(q) \/ RestoredByBuy(q)
  <1>0. UNCHANGED vars => \A q \in Existing : IsEntry(q)' = IsEntry(q)
    BY DEF vars, IsEntry
  <1>1. CASE UNCHANGED raceVars
    <2>1. UNCHANGED vars /\ UNCHANGED inFlight
      BY <1>1 DEF raceVars
    <2>2. CoreInv'
      BY <2>1, StutterCore DEF RInv
    <2>3. UNCHANGED <<inFlight, plans, terms, bought, amount, sold>>
      BY <2>1 DEF vars, execVars
    <2>4. FlightProper'
      BY <1>0, <2>1, <2>3, ThreadKeepsFlight DEF RInv
    <2> QED
      BY <1>0, <2>1, <2>2, <2>4 DEF RInv
  <1>2. ASSUME NEW p \in PlanIds, NEW k \in TickKeys, NEW t \in Ticks, BeginEvaluate(p, k, t)
        PROVE  Goal
    <2>1. UNCHANGED vars
      BY <1>2 DEF BeginEvaluate
    <2> QED
      BY <1>0, <1>2, <2>1, BeginEvaluateInv
  <1>3. ASSUME NEW c \in Cards, NEW u \in Users, BeginApprove(c, u) PROVE Goal
    <2>1. UNCHANGED vars
      BY <1>3 DEF BeginApprove
    <2> QED
      BY <1>0, <1>3, <2>1, BeginApproveInv
  <1>4. ASSUME NEW c \in Cards, NEW u \in Users, NEW o \in Overrides, BeginEditDraft(c, u, o)
        PROVE  Goal
    <2>1. UNCHANGED vars
      BY <1>4 DEF BeginEditDraft
    <2> QED
      BY <1>0, <1>4, <2>1, BeginEditDraftInv
  <1>5. CASE FinishEvaluate
    <2>1. PICK call \in inFlight :
            /\ call.op = "evaluate"
            /\ EvaluateWith(call.plan, call.row, call.key, call.tick)
            /\ Answer(call)
      BY <1>5 DEF FinishEvaluate
    <2>2. FlightProper'
      BY <2>1, AnswerLeavesNone DEF RInv
    <2>3. /\ CoreInv'
          /\ \A q \in Existing : IsEntry(q)' =>
               \/ IsEntry(q)
               \/ /\ q = call.plan
                  /\ call.row.status \in EntryStatuses
                  /\ bought'[q] > bought[q]
      BY <2>1, FinishEvaluateInv
    <2> QED
      BY <2>1, <2>2, <2>3 DEF RInv, RestoredByBuy
  <1>6. CASE FinishApprove
    <2>1. PICK call \in inFlight :
            call.op = "approve" /\ ApproveWith(call.card, call.user) /\ Answer(call)
      BY <1>6 DEF FinishApprove
    <2>2. call.card \in Cards /\ call.user \in Users
      BY <2>1 DEF RInv, FlightProper, CallProper
    <2>3. CoreInv' /\ \A q \in Existing : IsEntry(q)' = IsEntry(q)
      BY <2>1, <2>2, FinishApproveInv DEF RInv
    <2> QED
      BY <2>1, <2>3, AnswerLeavesNone DEF RInv
  <1>7. CASE FinishEditDraft
    <2>1. PICK call \in inFlight :
            call.op = "draft" /\ EditDraftWith(call.card, call.user, call.edit) /\ Answer(call)
      BY <1>7 DEF FinishEditDraft
    <2>2. call.card \in Cards /\ call.user \in Users /\ call.edit \in Overrides
      BY <2>1 DEF RInv, FlightProper, CallProper
    <2>3. CoreInv' /\ \A q \in Existing : IsEntry(q)' = IsEntry(q)
      BY <2>1, <2>2, EditDraftCore DEF RInv
    <2> QED
      BY <2>1, <2>3, AnswerLeavesNone DEF RInv
  <1>8. CASE OnLoop
    BY <1>8, OnLoopInv
  <1>9. CASE OnThread
    BY <1>9, OnThreadInv
  <1> QED
    BY <1>1, <1>2, <1>3, <1>4, <1>5, <1>6, <1>7, <1>8, <1>9 DEF RaceNext

-----------------------------------------------------------------------------
(* The invariant holds of every reachable state of the two threads. *)
THEOREM RaceInvariance == RaceSpec => []RInv
  <1>1. RInv /\ [RaceNext]_raceVars => RInv'
    BY RaceNextInv
  <1> QED
    BY <1>1, RaceInitInv, PTL DEF RaceSpec

(* The tables keep their shape. *)
THEOREM RaceTypes == RaceSpec => []TypeOK
  <1>1. RInv => TypeOK
    BY DEF RInv, CoreInv
  <1> QED
    BY <1>1, RaceInvariance, PTL

(* Whatever a thread commits between the read and the write of an         *)
(* evaluation, the two tables that count shares agree and no budget is    *)
(* exceeded.                                                              *)
THEOREM RaceLedger == RaceSpec => []LedgerConsistent
  <1>1. RInv => LedgerConsistent
    BY DEF RInv, CoreInv, PlanInv
  <1> QED
    BY <1>1, RaceInvariance, PTL

(* A plan that has sold may not buy, not even through a row read before a *)
(* revocation.                                                            *)
THEOREM RaceNoBuyAfterSale == RaceSpec => []SoldPlanNeverBuys
  <1>1. RInv => SoldPlanNeverBuys
    BY DEF RInv, CoreInv, PlanInv
  <1> QED
    BY <1>1, RaceInvariance, PTL

(* The status column tells whether the position is open, also when the    *)
(* evaluation overwrites the status a thread has just written.            *)
THEOREM RaceStatusIsTruthful == RaceSpec => []StatusMatchesPosition
  <1>1. RInv => StatusMatchesPosition
    BY DEF RInv, CoreInv, PlanInv
  <1> QED
    BY <1>1, RaceInvariance, PTL

(* No snapshot hash is behind two plans that can enter: a permission that *)
(* comes back is not one that was approved again meanwhile.               *)
THEOREM RaceHashIsUnique == RaceSpec => []OneEntryPerHash
  <1>1. RInv => OneEntryPerHash
    BY DEF RInv, CoreInv, PlanInv
  <1> QED
    BY <1>1, RaceInvariance, PTL

(* How far the race reaches: the only way an existing plan regains the    *)
(* entry permission (RevocationIsFinal) is an evaluation that read the    *)
(* plan's row while it had it and that buys in this very step.            *)
OnlyABuyRestores ==
  [][\A p \in PlanIds :
       p <= plans /\ ~IsEntry(p) /\ IsEntry(p)' => RestoredByBuy(p)]_raceVars

THEOREM RestoredOnlyByBuy == RaceSpec => OnlyABuyRestores
  <1>1. RInv /\ [RaceNext]_raceVars =>
          [\A p \in PlanIds :
             p <= plans /\ ~IsEntry(p) /\ IsEntry(p)' => RestoredByBuy(p)]_raceVars
    <2> SUFFICES ASSUME RInv, [RaceNext]_raceVars,
                        NEW p \in PlanIds, p <= plans, ~IsEntry(p), IsEntry(p)'
                 PROVE  RestoredByBuy(p)
      OBVIOUS
    <2>1. p \in Existing
      BY BoundsAssumption DEF RInv, CoreInv, TypeOK, PlanIds, Existing
    <2> QED
      BY <2>1, RaceNextInv
  <1> QED
    BY <1>1, RaceInvariance, PTL DEF RaceSpec, OnlyABuyRestores
=============================================================================
