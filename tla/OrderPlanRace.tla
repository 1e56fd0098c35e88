--------------------------- MODULE OrderPlanRace ---------------------------
(***************************************************************************)
(* Two threads of one server process on the same tables.                   *)
(*                                                                         *)
(* The async endpoints of api.py run their synchronous body on the event   *)
(* loop, one at a time.  POST /api/internal/evidence/{id}/invalidate and   *)
(* PATCH /api/settings/paper are plain functions: the server runs them in  *)
(* a worker thread, on a database connection of their own.  user_decision  *)
(* and evaluate_order_plan read in autocommit mode and open their          *)
(* transaction at their first write, so a revocation can commit between    *)
(* what they read and what they write.                                     *)
(***************************************************************************)
EXTENDS OrderPlan

VARIABLE inFlight   \* the handler on the event loop that has read: none or one

raceVars == <<vars, inFlight>>

RowType == [status : Statuses, bought : Nat, amount : Nat, sold : Nat]
Calls ==
  [op : {"approve"}, card : Cards, user : Users]
    \cup [op : {"draft"}, card : Cards, user : Users, edit : Overrides]
    \cup [op : {"evaluate"}, plan : PlanIds, key : TickKeys, tick : Ticks, row : RowType]

RaceInit == Init /\ inFlight = {}

LoopFree == inFlight = {}
Answer(call) == inFlight' = inFlight \ {call}

(* evaluate_order_plan reads its row and finds the tick key unused. *)
BeginEvaluate(p, k, t) ==
  /\ LoopFree
  /\ p \in Existing
  /\ k \notin evaluated[p]
  /\ inFlight' = {[op |-> "evaluate", plan |-> p, key |-> k, tick |-> t, row |-> Row(p)]}
  /\ UNCHANGED vars

(* It writes what follows from the row it read. *)
FinishEvaluate ==
  \E call \in inFlight :
    /\ call.op = "evaluate"
    /\ EvaluateWith(call.plan, call.row, call.key, call.tick)
    /\ Answer(call)

(* user_decision finds the card valid, then reads and writes the rest. *)
BeginApprove(c, u) ==
  /\ LoopFree
  /\ Approvable(c)
  /\ inFlight' = {[op |-> "approve", card |-> c, user |-> u]}
  /\ UNCHANGED vars

FinishApprove ==
  \E call \in inFlight :
    /\ call.op = "approve"
    /\ ApproveWith(call.card, call.user)
    /\ Answer(call)

(* edit_draft finds the card valid, then stores the draft. *)
BeginEditDraft(c, u, o) ==
  /\ LoopFree
  /\ Approvable(c)
  /\ inFlight' = {[op |-> "draft", card |-> c, user |-> u, edit |-> o]}
  /\ UNCHANGED vars

FinishEditDraft ==
  \E call \in inFlight :
    /\ call.op = "draft"
    /\ EditDraftWith(call.card, call.user, call.edit)
    /\ Answer(call)

(* save_card, a hold and edit_order_plan hold the write lock before they  *)
(* read what a thread changes: each is one step.                          *)
OnLoop ==
  /\ LoopFree
  /\ \/ \E c \in Cards : PublishCard(c)
     \/ \E c \in Cards, u \in Users : Hold(c, u)
     \/ \E u \in Users, p \in PlanIds, o \in Overrides : EditPlan(u, p, o)
  /\ UNCHANGED inFlight

OnThread ==
  /\ \/ InvalidateEvidence
     \/ \E u \in Users, a \in Amounts : SetPaperAmount(u, a)
  /\ UNCHANGED inFlight

RaceNext ==
  \/ \E p \in PlanIds, k \in TickKeys, t \in Ticks : BeginEvaluate(p, k, t)
  \/ FinishEvaluate
  \/ \E c \in Cards, u \in Users : BeginApprove(c, u)
  \/ FinishApprove
  \/ \E c \in Cards, u \in Users, o \in Overrides : BeginEditDraft(c, u, o)
  \/ FinishEditDraft
  \/ OnLoop
  \/ OnThread

RaceSpec == RaceInit /\ [][RaceNext]_raceVars

-----------------------------------------------------------------------------
(* decision_cards.py: invalidate_lineage atomically revokes every         *)
(* entry-capable plan.  So a plan that has lost its entry permission does *)
(* not get it back.                                                       *)
RevocationIsFinal ==
  [][\A p \in PlanIds : p <= plans /\ ~IsEntry(p) => ~IsEntry(p)']_raceVars
=============================================================================
