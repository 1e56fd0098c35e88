--------------------------- MODULE MCHybridEngine ---------------------------
EXTENDS HybridEngine, TLC

\* One cohort: the card to be judged, with two events and so ties of versions, and
\* the card whose outcomes become cases.
MCSubjects == {[card |-> "target", event |-> "contract", cohort |-> "cohort"],
               [card |-> "target", event |-> "dividend", cohort |-> "cohort"],
               [card |-> "case", event |-> "order", cohort |-> "cohort"]}

MCForecasts == {[prior |-> p, bands |->
   [BAD |-> [low |-> 11000, high |-> 12000],
             BASE |-> [low |-> 12000, high |-> 13000],
             GOOD |-> [low |-> 13000, high |-> 14000]]] : p \in {"BASE"}}
MCQuotes == {[verified |-> v, price |-> 13500, strong |-> FALSE] : v \in BOOLEAN}
MCContextQuotes == {[passes |-> TRUE, price |-> 13750], [passes |-> FALSE, price |-> 13750]}

Rise == [low |-> 13100, high |-> 13900, close |-> 13500]
Drift == [low |-> 12100, high |-> 12900, close |-> 12800]
Swing == [low |-> 11500, high |-> 13900, close |-> 13900]
MCCharts == {<<Rise>>, <<Swing, Rise>>, <<Drift, Swing>>}

\* No property tells one holdout key from another.
HoldoutSymmetry == Permutations(Holdouts)

MCWindows == {[isStart |-> 0, isEnd |-> 1, oosStart |-> 1, oosEnd |-> 3, cutoff |-> 3]}
=============================================================================
