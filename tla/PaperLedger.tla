---------------------------- MODULE PaperLedger ----------------------------
(***************************************************************************)
(* What the paper-order engine promises about one approved plan, whatever  *)
(* cards, drafts, decisions and ticks produced it:                         *)
(*                                                                         *)
(*   - an approval freezes a budget of shares and of money;                *)
(*   - shares are bought only while the plan is in its entry phase and     *)
(*     never beyond either budget;                                         *)
(*   - leaving the entry phase is final, for a sale as for a revocation;   *)
(*   - a plan that left it can still sell, and only what it holds.         *)
(*                                                                         *)
(* OrderPlan implements this module: see OrderPlan!Ledger.                 *)
(***************************************************************************)
EXTENDS Integers

CONSTANTS
  Plans,     \* identities of order plans
  Budgets    \* the budgets an approval may freeze: records [qty, amount]

VARIABLES
  phase,     \* [Plans -> {"none", "entry", "exit"}]
  budget,    \* what the approval froze
  spent,     \* shares and money used by buys so far
  held       \* shares in the paper position

ledgerVars == <<phase, budget, spent, held>>

Nothing == [qty |-> 0, amount |-> 0]

LedgerInit ==
  /\ phase  = [p \in Plans |-> "none"]
  /\ budget = [p \in Plans |-> Nothing]
  /\ spent  = [p \in Plans |-> Nothing]
  /\ held   = [p \in Plans |-> 0]

(* The user approves: the plan enters its entry phase with budget b. *)
Open(p, b) ==
  /\ phase[p] = "none"
  /\ phase'  = [phase EXCEPT ![p] = "entry"]
  /\ budget' = [budget EXCEPT ![p] = b]
  /\ UNCHANGED <<spent, held>>

(* n shares are bought for cost within what is left of the budget. *)
Buy(p, n, cost) ==
  /\ phase[p] = "entry"
  /\ spent[p].qty + n <= budget[p].qty
  /\ spent[p].amount + cost <= budget[p].amount
  /\ spent' = [spent EXCEPT ![p] = [qty    |-> spent[p].qty + n,
                                    amount |-> spent[p].amount + cost]]
  /\ held'  = [held EXCEPT ![p] = held[p] + n]
  /\ UNCHANGED <<phase, budget>>

(* n of the held shares are sold; the plan never buys again. *)
Sell(p, n) ==
  /\ phase[p] # "none"
  /\ n <= held[p]
  /\ held'  = [held EXCEPT ![p] = held[p] - n]
  /\ phase' = [phase EXCEPT ![p] = "exit"]
  /\ UNCHANGED <<budget, spent>>

(* The entry permission of every plan in S is withdrawn; positions stay. *)
Withdraw(S) ==
  /\ phase' = [p \in Plans |-> IF p \in S /\ phase[p] = "entry"
                                 THEN "exit" ELSE phase[p]]
  /\ UNCHANGED <<budget, spent, held>>

LedgerNext ==
  \/ \E p \in Plans, b \in Budgets : Open(p, b)
  \/ \E p \in Plans : \E n \in 1 .. budget[p].qty, cost \in 0 .. budget[p].amount :
        Buy(p, n, cost)
  \/ \E p \in Plans : \E n \in 1 .. held[p] : Sell(p, n)
  \/ \E S \in SUBSET Plans : Withdraw(S)

LedgerSpec == LedgerInit /\ [][LedgerNext]_ledgerVars
=============================================================================
