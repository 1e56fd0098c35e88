-------------------------- MODULE MCOrderPlanRace --------------------------
(* One card and one plan, three ticks: deep enough for a partial buy, a    *)
(* take-profit stage, a revocation and a last exit on the same plan.       *)
EXTENDS OrderPlanRace, TLC

MCLineageOf == [c \in Cards |-> "only"]

Tick(price, quoteOk, flatten, due, entryOk, ask) ==
  [price |-> price, quoteOk |-> quoteOk, flatten |-> flatten, due |-> due,
   entryOk |-> entryOk, ask |-> ask]

(* With StopLoss 1, PriceCap 3 and stages at 3 and 4. *)
MCTicks ==
  { Tick(2, TRUE, FALSE, FALSE, TRUE, 1),     \* one share
    Tick(2, TRUE, FALSE, FALSE, TRUE, 3),     \* all the budgets allow
    Tick(3, TRUE, FALSE, FALSE, TRUE, 3),     \* at the cap and at the first stage
    Tick(4, TRUE, FALSE, TRUE, FALSE, 3),     \* both stages, then a deadline
    Tick(1, TRUE, FALSE, FALSE, TRUE, 3),     \* the stop price, cheap to buy
    Tick(2, TRUE, TRUE, FALSE, TRUE, 1),      \* evidence_invalidated by the caller
    Tick(0, TRUE, FALSE, TRUE, FALSE, 1),     \* a deadline without a price
    Tick(2, FALSE, TRUE, FALSE, TRUE, 1) }    \* a stale quote

MCTakeProfit == << [price |-> 3, qty |-> 1], [price |-> 4, qty |-> 2] >>

MCOverrides == { [maxQty |-> 2, maxAmount |-> 0, form |-> "same"] }

MCSymmetry == Permutations(TickKeys)
=============================================================================
