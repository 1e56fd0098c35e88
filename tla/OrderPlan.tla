----------------------------- MODULE OrderPlan -----------------------------
(***************************************************************************)
(* Decision cards, user decisions, drafts and paper order plans:           *)
(* kr_stock_autotrader/decision_cards.py, from a published card to the     *)
(* last paper sale.  One action is one HTTP handler that ran alone; the    *)
(* interleaving of handlers is OrderPlanRace.                              *)
(*                                                                         *)
(* Abstractions.  A plan's frozen snapshot keeps the two fields every      *)
(* budget check reads (max_qty, max_amount) and its form: "json" when some *)
(* other field is written in a way the order_plans columns would not give  *)
(* back (price_cap 91 instead of 91.0, a timestamp without its offset),    *)
(* "column" when they would.  The remaining rule fields (price_cap,        *)
(* stop_loss, take_profit) only decide which tick fires which rule; ticks  *)
(* are arbitrary, so one value of each is enough.  A tick says what the    *)
(* evaluator computes from its body and the clock.  reject is hold: the    *)
(* code tells them apart only in the stored word.                          *)
(***************************************************************************)
EXTENDS Integers, Sequences, FiniteSets

CONSTANTS
  Users,
  NumCards,    \* bound: card rows, all of one evidence
  NumPlans,    \* bound: order_plans rows
  LineageOf,   \* lineage_key of each card
  Buyable,     \* cards that are PASS and "buy review possible"
  CardQty,     \* max_qty in the card's JSON
  CardForm,    \* form of the card's own JSON
  Qtys, Amounts,
  Overrides,   \* bodies an edit request may carry
  StopLoss, PriceCap,
  TakeProfit,  \* sequence of [price, qty] tranches
  TickKeys,
  Ticks,       \* evaluation requests, see TickType
  NoTerms      \* content of an order_plans row not yet inserted

Cards   == 1 .. NumCards
PlanIds == 1 .. NumPlans
Forms   == {"column", "json"}

Snapshots == [maxQty : Qtys, maxAmount : Amounts, form : Forms]

(* 0 and "same": the request omits the field. *)
OverrideType ==
  [maxQty : Qtys \cup {0}, maxAmount : Amounts \cup {0}, form : Forms \cup {"same"}]

(***************************************************************************)
(* price    the quoted price, 0 when it is not a positive number           *)
(* quoteOk  the quote is fresh and the exchange is open                    *)
(* flatten  the body carries manual_exit or evidence_invalidated           *)
(* due      holding_until or review_at has passed                          *)
(* entryOk  order window, expiry, gap, liquidity and disclosure checks     *)
(* ask      fill_qty                                                       *)
(***************************************************************************)
TickType ==
  [price : Nat, quoteOk : BOOLEAN, flatten : BOOLEAN, due : BOOLEAN,
   entryOk : BOOLEAN, ask : Nat]

ASSUME BoundsAssumption ==
  /\ NumCards \in Nat
  /\ NumPlans \in Nat
ASSUME CardAssumption ==
  /\ Buyable \subseteq Cards
  /\ CardQty \in Qtys
  /\ CardForm \in Forms
ASSUME BudgetAssumption ==
  /\ Qtys \subseteq Nat \ {0}
  /\ Amounts \subseteq Nat \ {0}
  /\ Amounts # {}
ASSUME RuleAssumption ==
  /\ StopLoss \in Nat \ {0}
  /\ PriceCap \in Nat \ {0}
  /\ TakeProfit \in Seq([price : Nat \ {0}, qty : Nat \ {0}])
ASSUME InputAssumption ==
  /\ Overrides \subseteq OverrideType
  /\ Ticks \subseteq TickType

VARIABLES
  card,       \* decision_cards: absent, live, or invalidated_at is set
  setting,    \* user_settings.default_paper_amount
  decision,   \* user_decisions
  draft,      \* the row of order_plan_drafts with status 'draft', or no row
  archived,   \* statuses of the other order_plan_drafts rows of a card and user
  plans,      \* number of order_plans rows; ids are allocated in order
  terms,      \* columns of a plan that never change after its insertion
  status,     \* order_plans.status
  bought, amount, sold,   \* order_plans.bought_qty, bought_amount, sold_qty
  position,   \* positions.qty, 0 when there is no row
  stages,     \* take-profit stages in exit_lineage
  evaluated   \* tick keys in order_evaluations

cardVars == <<card, setting>>
userVars == <<decision, draft, archived>>
execVars == <<bought, amount, sold, position, stages, evaluated>>
vars == <<cardVars, userVars, plans, terms, status, execVars>>

Terms     == [card : Cards, user : Users, snap : Snapshots]
DraftRows == [snap : Snapshots, supersedes : 0 .. NumPlans]

EntryStatuses == {"approved", "execution_wait", "partial_or_filled"}
RevocableUnfilledOnly == {"approved", "execution_wait"}     \* mutant: forgets fills
Revocable     == EntryStatuses \cup {"exit_wait"}
Statuses      == Revocable \cup {"absent", "closed", "review_required", "entry_invalidated"}

Init ==
  /\ card      = [c \in Cards |-> "absent"]
  /\ setting   \in [Users -> Amounts]
  /\ decision  = [x \in Cards \X Users |-> "none"]
  /\ draft     = [x \in Cards \X Users |-> {}]
  /\ archived  = [x \in Cards \X Users |-> {}]
  /\ plans     = 0
  /\ terms     = [p \in PlanIds |-> NoTerms]
  /\ status    = [p \in PlanIds |-> "absent"]
  /\ bought    = [p \in PlanIds |-> 0]
  /\ amount    = [p \in PlanIds |-> 0]
  /\ sold      = [p \in PlanIds |-> 0]
  /\ position  = [p \in PlanIds |-> 0]
  /\ stages    = [p \in PlanIds |-> {}]
  /\ evaluated = [p \in PlanIds |-> {}]

-----------------------------------------------------------------------------
(* Plans of a card, and of a card and a user; the newest of the latter. *)

Existing == 1 .. plans
PlansOfCard(c)  == {p \in Existing : terms[p].card = c}
PlansOf(c, u)   == {p \in PlansOfCard(c) : terms[p].user = u}
NewestOf(c, u)  == {p \in PlansOf(c, u) : \A q \in PlansOf(c, u) : q <= p}
IsEntry(p)      == status[p] \in EntryStatuses

(* Revocation: lose the entry permission, keep an open position for exit. *)
RevokedStatusOfAnyPlan(p) == "review_required"     \* mutant: ignores the position
RevokedStatus(p) == IF position[p] > 0 THEN "review_required" ELSE "entry_invalidated"

Revoked(S) ==
  [p \in PlanIds |-> IF p \in S /\ status[p] \in Revocable
                       THEN RevokedStatus(p) ELSE status[p]]

(* The snapshot rebuilt from the columns of a plan. *)
PlanSnapshot(p) == [terms[p].snap EXCEPT !.form = "column"]

(* A card with no draft and no plan yet starts from its own JSON and the  *)
(* user's current default amount.                                         *)
CardSnapshot(u) == [maxQty |-> CardQty, maxAmount |-> setting[u], form |-> CardForm]

(* Where an edit or an approval of this card starts: its draft row, else  *)
(* the newest plan of this card and user, else the card.                  *)
StartingRows(c, u) ==
  IF draft[<<c, u>>] # {} THEN draft[<<c, u>>]
  ELSE {[snap |-> s, supersedes |-> 0] :
          s \in IF PlansOf(c, u) = {} THEN {CardSnapshot(u)}
                ELSE {PlanSnapshot(p) : p \in NewestOf(c, u)}}

Overridden(s, o) ==
  [maxQty    |-> IF o.maxQty = 0 THEN s.maxQty ELSE o.maxQty,
   maxAmount |-> IF o.maxAmount = 0 THEN s.maxAmount ELSE o.maxAmount,
   form      |-> IF o.form = "same" THEN s.form ELSE o.form]

-----------------------------------------------------------------------------
(* The evidence side: cards come and go. *)

(* save_card: the next card is stored; cards of its lineage are revoked. *)
PublishCard(c) ==
  LET old == {d \in Cards : d < c /\ LineageOf[d] = LineageOf[c]}
  IN  /\ card[c] = "absent"
      /\ \A d \in Cards : d < c => card[d] # "absent"
      /\ card' = [d \in Cards |-> IF d = c THEN "live"
                                  ELSE IF d \in old THEN "revoked" ELSE card[d]]
      /\ status' = Revoked(UNION {PlansOfCard(d) : d \in old})
      /\ UNCHANGED <<setting, userVars, plans, terms, execVars>>

(* mutate_evidence, when it invalidates or changes a material field. *)
InvalidateEvidence ==
  LET known == {c \in Cards : card[c] # "absent"}
  IN  /\ known # {}
      /\ card' = [c \in Cards |-> IF c \in known THEN "revoked" ELSE card[c]]
      /\ status' = Revoked(UNION {PlansOfCard(c) : c \in known})
      /\ UNCHANGED <<setting, userVars, plans, terms, execVars>>

-----------------------------------------------------------------------------
(* The user side. *)

SetPaperAmount(u, a) ==
  /\ setting' = [setting EXCEPT ![u] = a]
  /\ UNCHANGED <<card, userVars, plans, terms, status, execVars>>

(* Mutant: the decision is recorded and the plans keep their status. *)
HoldRecordsOnly(c, u) ==
  /\ card[c] # "absent"
  /\ decision' = [decision EXCEPT ![<<c, u>>] = "hold"]
  /\ UNCHANGED <<cardVars, draft, archived, plans, terms, status, execVars>>

(* A hold or a reject: recorded on any card, revokes the user's plans. *)
Hold(c, u) ==
  /\ card[c] # "absent"
  /\ decision' = [decision EXCEPT ![<<c, u>>] = "hold"]
  /\ status' = Revoked(PlansOf(c, u))
  /\ UNCHANGED <<cardVars, draft, archived, plans, terms, execVars>>

ApprovableUnlessInvalid(c) == card[c] # "absent" /\ c \in Buyable     \* mutant
Approvable(c) == card[c] = "live" /\ c \in Buyable

(* Mutant: a plan that already bought is not found. *)
SameUnfilledPlan(c, u, s) ==
  \E p \in PlansOf(c, u) : status[p] = "approved" /\ terms[p].snap = s

(* An entry-capable plan of this card and user with the same snapshot     *)
(* hash: the approval is answered with it and nothing is written.         *)
SameLivePlan(c, u, s) == \E p \in PlansOf(c, u) : IsEntry(p) /\ terms[p].snap = s

(* Freezing a draft moves the approved draft row to 'superseded', which   *)
(* UNIQUE(card_id, user_id, status) allows once per card and user.        *)
ArchiveFits(c, u) == draft[<<c, u>>] = {} \/ ~({"approved", "superseded"} \subseteq archived[<<c, u>>])

InsertPlan(c, u, s) ==
  /\ plans < NumPlans
  /\ plans'    = plans + 1
  /\ terms'    = [terms EXCEPT ![plans + 1] = [card |-> c, user |-> u, snap |-> s]]
  /\ status'   = [status EXCEPT ![plans + 1] = "approved"]
  /\ decision' = [decision EXCEPT ![<<c, u>>] = "approve"]
  /\ draft'    = [draft EXCEPT ![<<c, u>>] = {}]
  /\ archived' = [archived EXCEPT ![<<c, u>>] =
                    CASE draft[<<c, u>>] = {} -> @
                      [] draft[<<c, u>>] # {} /\ @ = {} -> {"approved"}
                      [] OTHER -> {"approved", "superseded"}]
  /\ UNCHANGED <<cardVars, execVars>>

(* What an approval does once the card has passed its check: answer with  *)
(* the live plan, fail and roll back on the draft archive, or insert.     *)
ApproveWith(c, u) ==
  \E s \in {d.snap : d \in StartingRows(c, u)} :
    \/ (SameLivePlan(c, u, s) \/ ~ArchiveFits(c, u)) /\ UNCHANGED vars
    \/ ~SameLivePlan(c, u, s) /\ ArchiveFits(c, u) /\ InsertPlan(c, u, s)

Approve(c, u) == Approvable(c) /\ ApproveWith(c, u)

(* edit_draft after its card check: stores the draft; plans keep going. *)
EditDraftWith(c, u, o) ==
  /\ \E d \in StartingRows(c, u) :
       draft' = [draft EXCEPT ![<<c, u>>] = {[d EXCEPT !.snap = Overridden(@, o)]}]
  /\ UNCHANGED <<cardVars, decision, archived, plans, terms, status, execVars>>

EditDraft(c, u, o) == Approvable(c) /\ EditDraftWith(c, u, o)

(* edit_order_plan: stores the draft and revokes the edited plan, whatever *)
(* the state of its card; a draft of another plan is refused.             *)
EditPlan(u, p, o) ==
  LET c == terms[p].card
      base == IF draft[<<c, u>>] # {} THEN {d.snap : d \in draft[<<c, u>>]} ELSE {PlanSnapshot(p)}
  IN  /\ p \in Existing
      /\ terms[p].user = u
      /\ \A d \in draft[<<c, u>>] : d.supersedes = p
      /\ \E s \in base :
           draft' = [draft EXCEPT ![<<c, u>>] = {[snap |-> Overridden(s, o), supersedes |-> p]}]
      /\ status' = [status EXCEPT ![p] = RevokedStatus(p)]
      /\ UNCHANGED <<cardVars, decision, archived, plans, terms, execVars>>

-----------------------------------------------------------------------------
(* The evaluator.  r is the order_plans row read at the start of the call: *)
(* [status, bought, amount, sold].                                        *)

Row(p) == [status |-> status[p], bought |-> bought[p], amount |-> amount[p], sold |-> sold[p]]

Remaining(r) == r.bought - r.sold
SmallerOf(a, b) == IF a <= b THEN a ELSE b

(* Unused take-profit stages the price has reached, and the first of them. *)
OpenStages(p, t) ==
  {i \in DOMAIN TakeProfit : i \notin stages[p] /\ t.price >= TakeProfit[i].price}
FirstStage(p, t) == {i \in OpenStages(p, t) : \A j \in OpenStages(p, t) : i <= j}

MustFlatten(t) == t.flatten \/ (t.price > 0 /\ t.price <= StopLoss)
CanExit(r, t) == t.quoteOk /\ Remaining(r) > 0
ExitAll(p, r, t) ==
  CanExit(r, t) /\ (MustFlatten(t) \/ (OpenStages(p, t) = {} /\ t.due))
ExitStage(p, r, t) ==
  CanExit(r, t) /\ ~MustFlatten(t) /\ OpenStages(p, t) # {}

TrancheQty(r, i) == SmallerOf(Remaining(r), TakeProfit[i].qty)

(* Mutant: a partial sale leaves the plan in its entry status. *)
SellKeepsEntry(p, r, n) ==
  /\ sold'     = [sold EXCEPT ![p] = @ + n]
  /\ position' = [position EXCEPT ![p] = @ - n]
  /\ status'   = [status EXCEPT ![p] = IF Remaining(r) = n THEN "closed" ELSE @]
  /\ UNCHANGED <<bought, amount>>

Sell(p, r, n) ==
  /\ sold'     = [sold EXCEPT ![p] = @ + n]
  /\ position' = [position EXCEPT ![p] = @ - n]
  /\ status'   = [status EXCEPT ![p] = IF Remaining(r) = n THEN "closed" ELSE "exit_wait"]
  /\ UNCHANGED <<bought, amount>>

(* Mutant: the status of the plan is not among the gates. *)
EntryOpenAnyStatus(r, t) == t.quoteOk /\ t.entryOk /\ 0 < t.price /\ t.price <= PriceCap

(* Every entry gate, the status of the plan among them. *)
EntryOpen(r, t) ==
  /\ t.quoteOk /\ t.entryOk
  /\ r.status \in EntryStatuses
  /\ 0 < t.price /\ t.price <= PriceCap

(* Mutant: every fill is measured against the whole money budget. *)
BuyQtyForgetsSpent(p, r, t) ==
  SmallerOf(t.ask, SmallerOf(terms[p].snap.maxQty - r.bought,
                             terms[p].snap.maxAmount \div t.price))

(* The largest whole number of shares the request, the share budget and   *)
(* the money budget allow.                                                *)
BuyQty(p, r, t) ==
  LET left == terms[p].snap.maxAmount - r.amount
  IN  SmallerOf(t.ask, SmallerOf(terms[p].snap.maxQty - r.bought, left \div t.price))

Buy(p, r, n, price) ==
  /\ bought'   = [bought EXCEPT ![p] = r.bought + n]
  /\ amount'   = [amount EXCEPT ![p] = r.amount + n * price]
  /\ position' = [position EXCEPT ![p] = @ + n]
  /\ status'   = [status EXCEPT ![p] = "partial_or_filled"]
  /\ UNCHANGED <<sold, stages>>

(* evaluate_order_plan from the row it read to its commit: the exit rules *)
(* first, then the entry gates, a rejection, an empty fill or a buy.      *)
EvaluateWith(p, r, k, t) ==
  /\ evaluated' = [evaluated EXCEPT ![p] = @ \cup {k}]
  /\ \/ /\ ExitAll(p, r, t)
        /\ Sell(p, r, Remaining(r))
        /\ UNCHANGED stages
     \/ /\ ExitStage(p, r, t)
        /\ \E i \in FirstStage(p, t) :
             /\ Sell(p, r, TrancheQty(r, i))
             /\ stages' = [stages EXCEPT ![p] = @ \cup {i}]
     \/ /\ ~ExitAll(p, r, t) /\ ~ExitStage(p, r, t)
        /\ EntryOpen(r, t) => BuyQty(p, r, t) <= 0
        /\ UNCHANGED <<status, bought, amount, sold, position, stages>>
     \/ /\ ~ExitAll(p, r, t) /\ ~ExitStage(p, r, t)
        /\ EntryOpen(r, t)
        /\ BuyQty(p, r, t) > 0
        /\ Buy(p, r, BuyQty(p, r, t), t.price)
  /\ UNCHANGED <<cardVars, userVars, plans, terms>>

(* A tick whose key is recorded is answered without a write. *)
Evaluate(p, k, t) ==
  /\ p \in Existing
  /\ k \notin evaluated[p]
  /\ EvaluateWith(p, Row(p), k, t)

(* POST /api/order-plans/{id}/close: the owner's evaluation with          *)
(* manual_exit forced on.                                                 *)
Close(u, p, k, t) ==
  /\ p \in Existing
  /\ terms[p].user = u
  /\ Evaluate(p, k, [t EXCEPT !.flatten = TRUE])

Next ==
  \/ \E c \in Cards : PublishCard(c)
  \/ InvalidateEvidence
  \/ \E u \in Users, a \in Amounts : SetPaperAmount(u, a)
  \/ \E c \in Cards, u \in Users : Hold(c, u)
  \/ \E c \in Cards, u \in Users : Approve(c, u)
  \/ \E c \in Cards, u \in Users, o \in Overrides : EditDraft(c, u, o)
  \/ \E u \in Users, p \in PlanIds, o \in Overrides : EditPlan(u, p, o)
  \/ \E u \in Users, p \in PlanIds, k \in TickKeys, t \in Ticks : Close(u, p, k, t)
  \/ \E p \in PlanIds, k \in TickKeys, t \in Ticks : Evaluate(p, k, t)

Spec == Init /\ [][Next]_vars

-----------------------------------------------------------------------------
(***************************************************************************)
(* Properties.                                                             *)
(***************************************************************************)

TypeOK ==
  /\ card      \in [Cards -> {"absent", "live", "revoked"}]
  /\ setting   \in [Users -> Amounts]
  /\ decision  \in [Cards \X Users -> {"none", "approve", "hold"}]
  /\ draft     \in [Cards \X Users -> SUBSET DraftRows]
  /\ archived  \in [Cards \X Users -> SUBSET {"approved", "superseded"}]
  /\ plans     \in 0 .. NumPlans
  /\ terms     \in [PlanIds -> Terms \cup {NoTerms}]
  /\ \A p \in Existing : terms[p] \in Terms
  /\ status    \in [PlanIds -> Statuses]
  /\ \A p \in PlanIds : status[p] = "absent" <=> p > plans
  /\ bought    \in [PlanIds -> Nat]
  /\ amount    \in [PlanIds -> Nat]
  /\ sold      \in [PlanIds -> Nat]
  /\ position  \in [PlanIds -> Nat]
  /\ stages    \in [PlanIds -> SUBSET DOMAIN TakeProfit]
  /\ evaluated \in [PlanIds -> SUBSET TickKeys]

(* The two tables that count shares agree, nothing is sold that was not   *)
(* bought, and partial fills never add up to more than the frozen budget: *)
(* order_plans and positions are updated by separate statements from a    *)
(* row read before them.                                                  *)
LedgerConsistent ==
  \A p \in Existing :
    /\ position[p] = bought[p] - sold[p]
    /\ sold[p] <= bought[p]
    /\ bought[p] <= terms[p].snap.maxQty
    /\ amount[p] <= terms[p].snap.maxAmount

(* Once a plan has sold a share, by whatever rule, no later status change *)
(* (revocation, edit, another exit) lets it buy again.                    *)
SoldPlanNeverBuys == \A p \in Existing : sold[p] > 0 => ~IsEntry(p)

(* The status column and the position table tell the same story, which is *)
(* what lets a revocation keep an open position for exit and drop an      *)
(* empty plan: every status but the absent one implies open or flat.      *)
StatusMatchesPosition ==
  \A p \in Existing :
    /\ status[p] \in {"partial_or_filled", "exit_wait", "review_required"} => position[p] > 0
    /\ status[p] \in {"approved", "closed", "entry_invalidated"} => position[p] = 0

(* No plan of an invalidated card may enter: the evaluator looks only at  *)
(* the plan's status, never at its card, so every revocation has to have  *)
(* reached every plan and no approval may come after it.                  *)
RevokedCardHasNoEntry ==
  \A p \in Existing : card[terms[p].card] = "revoked" => ~IsEntry(p)

(* A plan that may enter stands behind the user's latest recorded word on *)
(* the card: also after an approval that was answered with the existing   *)
(* plan and recorded nothing.                                             *)
DecisionGovernsEntry ==
  \A p \in Existing :
    IsEntry(p) => decision[<<terms[p].card, terms[p].user>>] = "approve"

(* No two plans that may enter were approved from the same snapshot hash: *)
(* repeated approvals of one snapshot cannot double the exposure.         *)
OneEntryPerHash ==
  \A p, q \in Existing : IsEntry(p) /\ IsEntry(q) /\ terms[p] = terms[q] => p = q

(* The abstract promise about each plan, and what stands for its phase,   *)
(* its budget and what it has spent.                                      *)
LedgerPhase(p) ==
  CASE status[p] = "absent" -> "none"
    [] IsEntry(p) -> "entry"
    [] OTHER -> "exit"

LedgerBudget(p) ==
  IF status[p] = "absent" THEN [qty |-> 0, amount |-> 0]
  ELSE [qty |-> terms[p].snap.maxQty, amount |-> terms[p].snap.maxAmount]

Ledger == INSTANCE PaperLedger WITH
  Plans   <- PlanIds,
  Budgets <- [qty : Qtys, amount : Amounts],
  phase   <- [p \in PlanIds |-> LedgerPhase(p)],
  budget  <- [p \in PlanIds |-> LedgerBudget(p)],
  spent   <- [p \in PlanIds |-> [qty |-> bought[p], amount |-> amount[p]]],
  held    <- position

(* Every step of the engine is a step of the ledger or changes nothing in *)
(* it: entry never comes back, budgets never move, no plan buys outside   *)
(* its entry phase, and a revoked plan can still sell.                    *)
ImplementsLedger == Ledger!LedgerSpec

=============================================================================
