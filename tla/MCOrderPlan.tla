---------------------------- MODULE MCOrderPlan ----------------------------
(* Small instances of OrderPlan: the constants the .cfg files refer to. *)
EXTENDS OrderPlan, TLC

MCLineageOf == [c \in Cards |-> IF c = 3 THEN "second" ELSE "first"]

Tick(price, quoteOk, flatten, due, entryOk, ask) ==
  [price |-> price, quoteOk |-> quoteOk, flatten |-> flatten, due |-> due,
   entryOk |-> entryOk, ask |-> ask]

(* With StopLoss 1, PriceCap 3 and stages at 3 and 4. *)
MCTicks ==
  { Tick(2, TRUE, FALSE, FALSE, TRUE, 1),     \* one share
    Tick(3, TRUE, FALSE, FALSE, TRUE, 3),     \* at the cap and at the first stage
    Tick(4, TRUE, FALSE, TRUE, FALSE, 3),     \* both stages, then a deadline
    Tick(1, FALSE, FALSE, FALSE, TRUE, 3) }   \* the stop price on a stale quote

MCTakeProfit == << [price |-> 3, qty |-> 1], [price |-> 4, qty |-> 2] >>

MCOverrides == { [maxQty |-> 3, maxAmount |-> 0, form |-> "json"] }

MCSymmetry == Permutations(TickKeys)
=============================================================================
