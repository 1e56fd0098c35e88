--------------------------- MODULE MCResearchGate ---------------------------
(* Bounded instances of ResearchGate.  research_gate follows one supply      *)
(* contract filed on the day before the first run, so the database may hold  *)
(* a legacy row of it; research_discoveries takes a contract filed on day 1, *)
(* a report of another class filed the day before and one discovery.         *)
EXTENDS ResearchGate

CONSTANTS contract, other, news

OneReceipt == {contract}
TwoReceipts == {contract, other}
FiledBefore == [r \in OneReceipt |-> 0]
FiledApart == [r \in TwoReceipts |-> IF r = contract THEN 1 ELSE 0]
ClassOne == [r \in OneReceipt |-> "supply"]
ClassTwo == [r \in TwoReceipts |-> IF r = contract THEN "supply" ELSE "other"]
WithRerun == {<<1, 0>>, <<1, 1>>, <<2, 0>>}
TwoDays == {<<1, 0>>, <<2, 0>>}
FirstRun == {<<1, 0>>}
=============================================================================
