---------------------------- MODULE HybridEngine ----------------------------
(***************************************************************************)
(* hybrid_recommendations.py over the scenario sets: market-context rows,   *)
(* the outcome ledger, calibration plans frozen ahead of the outcomes, the  *)
(* calibration snapshots, and the second-stage evaluations.  A bar's two    *)
(* times are the caller's: no handler compares them with the clock, so bars *)
(* may be dated in the future, and one bar may be reported for two sets.    *)
(* All cases have the baseline price Baseline, so returns compare as gains. *)
(* One policy version is in force.                                          *)
(***************************************************************************)
EXTENDS EventScenarios, FiniteSetsExt

CONSTANTS
  Judged,          \* bound: cards that plans and evaluations are asked for
  Followed,        \* bound: cards whose outcomes are posted
  ContextQuotes,   \* a 09:05 context: whether it passes the market checks, its price
  Charts,          \* outcome bars: non-empty sequences of [low, high, close]
  Cutoffs,         \* observation_cutoff_at of an outcome
  Windows,         \* IS and OOS windows with their cutoff
  Holdouts,        \* holdout keys
  Baseline,        \* price_krw of every scenario's baseline
  CostBps,         \* HYBRID_TRANSACTION_COST_BPS
  MinOverall, MinOos,   \* HYBRID_MIN_OVERALL_SAMPLES, HYBRID_MIN_OOS_SAMPLES
  ZSquared,        \* square of the Wilson z, in ten-thousandths
  LastBar,         \* bound: last instant a bar is dated
  MaxRows, MaxContexts, MaxOutcomes, MaxPlans, MaxSnapshots, MaxEvaluations   \* bounds

ASSUME ChartAssumption ==
  \A g \in Charts : DOMAIN g = 1..Len(g) /\ Len(g) \in Nat \ {0}
ASSUME ContextAssumption == ContextQuotes \subseteq [passes : BOOLEAN, price : Int]
ASSUME WindowAssumption ==
  \A w \in Windows :
    /\ DOMAIN w = {"isStart", "isEnd", "oosStart", "oosEnd", "cutoff"}
    /\ \A f \in DOMAIN w : w[f] \in Nat
    /\ w.isEnd <= w.oosStart
    /\ w.oosEnd <= w.cutoff
ASSUME RoleAssumption == Judged \cup Followed \subseteq Cards
ASSUME CutoffAssumption == Cutoffs \subseteq Nat
ASSUME HybridBounds ==
  {LastBar, MaxRows, MaxContexts, MaxOutcomes, MaxPlans, MaxSnapshots, MaxEvaluations} \subseteq Nat

VARIABLES
  contexts,      \* intraday_market_context_runs
  outcomes,      \* hybrid_outcome_ledger
  plans,         \* hybrid_calibration_plans
  snapshots,     \* hybrid_calibration_snapshots
  evaluations    \* hybrid_second_stage_evaluations

hybridVars == <<contexts, outcomes, plans, snapshots, evaluations>>
vars == <<scenarioVars, hybridVars>>

Id == Nat \ {0}
BarTimes == 0..LastBar
Contexts == [card : Cards, known : Times, quote : ContextQuotes]
\* Of the times of the bars: exchange_at and known_at of the first, and
\* observed_at, the known_at of the last.
Outcomes == [set : Id, chart : Charts, traded : BarTimes, seen : BarTimes,
             observed : BarTimes, cutoff : Nat, created : Times, qualified : BOOLEAN]
Plans == [target : Id, frozen : Times, window : Windows, holdout : Holdouts]
Snapshots == [plan : Id, cases : SUBSET Id, oos : SUBSET Id,
              bound : BOOLEAN, eligible : BOOLEAN]
\* WATCH, for an eligible snapshot below the bound, is never given.
Recommendations == {"BUY_REVIEW", "REDUCE_REVIEW", "NO_ACTION",
                    "HOLD_INSUFFICIENT_EVIDENCE"}
Lineages == [card : Cards, set : Id, context : Id, snapshot : Id, dead : BOOLEAN]
Evaluations == [lineage : Lineages, recommendation : Recommendations]

-----------------------------------------------------------------------------
(* What the bars of a case come to.                                         *)

EntryCost(price) == (price * CostBps) \div 10000
RoundTrip == (Baseline * 2 * CostBps) \div 10000

Touches(bar, band) == ~(bar.high < band.low \/ bar.low > band.high)

\* _label_for_price: outside every band counts as BAD.
LabelFor(price, bands) ==
  IF InBand(price, bands["GOOD"]) THEN "GOOD"
  ELSE IF InBand(price, bands["BASE"]) THEN "BASE" ELSE "BAD"

\* The price the first touching bar is closed at; a bar that touches both ends
\* is closed BAD.
GrossExit(bar, bands) ==
  IF Touches(bar, bands["BAD"]) THEN bar.low
  ELSE IF Touches(bar, bands["GOOD"]) THEN bar.high ELSE bar.close

Touching(chart, bands) ==
  {i \in DOMAIN chart : \E label \in Labels : Touches(chart[i], bands[label])}

\* _realize_case: the label and the gain over the baseline, net of costs.
RealizedIn(chart, bands) ==
  LET hits == Touching(chart, bands)
      net == GrossExit(chart[Min(hits)], bands) - RoundTrip
  IN IF hits = {} THEN [label |-> "BASE", gain |-> 0]
     ELSE [label |-> LabelFor(net, bands), gain |-> net - Baseline]
Realized(o) == RealizedIn(o.chart, Bands(o.set))

\* _entry_gate_snapshot, policy_qualified.
Qualified(s, quote, invalidated) ==
  /\ ~invalidated
  /\ quote.passes
  /\ InBand(quote.price + EntryCost(quote.price), Bands(s)["GOOD"])

-----------------------------------------------------------------------------
\* persist (intraday_market_context.py): the row an observed child leaves.
PersistContext(c, quote) ==
  /\ Len(contexts) < MaxContexts
  /\ c \notin dead
  /\ contexts' = Append(contexts, [card |-> c, known |-> clock, quote |-> quote])
  /\ UNCHANGED <<scenarioVars, outcomes, plans, snapshots, evaluations>>

\* _validate_outcome_rows: bars are traded and known in order, each known after it
\* is traded and between the freeze of the set and the cutoff.
BarsInOrder(traded, known, frozen, cutoff) ==
  \A i \in DOMAIN known :
    /\ traded[i] <= known[i]
    /\ frozen < known[i] /\ known[i] <= cutoff
    /\ \A j \in DOMAIN known : i < j => traded[i] < traded[j] /\ known[i] < known[j]

\* record_outcome, for the newest set of the event and any context of its card.
RecordOutcome(s, x, chart, cutoff) ==
  /\ Len(outcomes) < MaxOutcomes
  /\ CardOf(s) \in Followed
  /\ Newest(s)
  /\ contexts[x].card = CardOf(s)
  /\ \A i \in DOMAIN outcomes : outcomes[i].set # s
  /\ \E traded, known \in [DOMAIN chart -> BarTimes] :
       /\ contexts[x].known < traded[1]
       /\ BarsInOrder(traded, known, sets[s].frozen, cutoff)
       /\ outcomes' = Append(outcomes,
            [set |-> s, chart |-> chart, traded |-> traded[1], seen |-> known[1],
             observed |-> known[Len(chart)], cutoff |-> cutoff, created |-> clock,
             qualified |-> Qualified(s, contexts[x].quote, CardOf(s) \in dead)])
  /\ UNCHANGED <<scenarioVars, contexts, plans, snapshots, evaluations>>

\* create_calibration_plan: frozen_at is the server's clock.
CreatePlan(s, window, holdout) ==
  /\ CardOf(s) \in Judged
  /\ Len(plans) < MaxPlans
  /\ plans' = Append(plans, [target |-> s, frozen |-> clock,
                             window |-> window, holdout |-> holdout])
  /\ UNCHANGED <<scenarioVars, contexts, outcomes, snapshots, evaluations>>

-----------------------------------------------------------------------------
(* create_calibration_snapshot.                                             *)

SetCohort(s) == sets[s].about.cohort
PlanCohort(p) == SetCohort(plans[p].target)

\* The outcome is in the cohort and the windows of the plan, and not its target's.
InWindow(p, i) ==
  /\ SetCohort(outcomes[i].set) = PlanCohort(p)
  /\ outcomes[i].set # plans[p].target
  /\ outcomes[i].cutoff <= plans[p].window.cutoff
  /\ plans[p].window.isStart <= outcomes[i].observed
  /\ outcomes[i].observed < plans[p].window.oosEnd

SelectedUngated(p) ==               \* mutant: policy_qualified is not asked
  {i \in DOMAIN outcomes : InWindow(p, i)}
SelectedSurvivors(p) ==             \* mutant: invalidated cards drop out
  {i \in DOMAIN outcomes : InWindow(p, i) /\ outcomes[i].qualified
                            /\ CardOf(outcomes[i].set) \notin dead}
Selected(p) == {i \in DOMAIN outcomes : InWindow(p, i) /\ outcomes[i].qualified}
Oos(p) == {i \in Selected(p) : plans[p].window.oosStart <= outcomes[i].observed}

FrozenBeforeOrAt(p, i) == plans[p].frozen <= outcomes[i].observed   \* mutant: < for <=
FrozenBefore(p, i) == plans[p].frozen < outcomes[i].observed

\* uq_hybrid_calibration_holdout_use.
HoldoutFree(p) ==
  \A n \in DOMAIN snapshots :
    LET q == snapshots[n].plan IN
    <<PlanCohort(q), plans[q].holdout>> # <<PlanCohort(p), plans[p].holdout>>

SumOf(f) == MapThenSumSet(LAMBDA i : f[i], DOMAIN f)
Gain(cases) == SumOf([i \in cases |-> Realized(outcomes[i]).gain])
GoodCases(cases) == {i \in cases : Realized(outcomes[i]).label = "GOOD"}

\* _wilson_lower_bound(g, n) >= 1/2, which is the score test of p = 1/2.
LowerBoundAtHalf(g, n) ==
  /\ n > 0
  /\ 2 * g >= n
  /\ 10000 * (2 * g - n) * (2 * g - n) >= ZSquared * n

BoundReached(cases) ==
  LowerBoundAtHalf(Cardinality(GoodCases(cases)), Cardinality(cases))

\* failure_reasons is empty.  structural_prior_only trades the cases whose prior
\* is GOOD, hybrid_candidate every selected case.
Structural(cases) == {i \in cases : sets[outcomes[i].set].forecast.prior = "GOOD"}
EligibleAnyBound(p) ==                \* mutant: the lower bound is not asked
  /\ Cardinality(Selected(p)) >= MinOverall
  /\ Cardinality(Oos(p)) >= MinOos
  /\ Gain(Oos(p)) > 0
  /\ Gain(Oos(p)) > Gain(Structural(Oos(p)))
Eligible(p) ==
  /\ Cardinality(Selected(p)) >= MinOverall
  /\ Cardinality(Oos(p)) >= MinOos
  /\ BoundReached(Oos(p))
  /\ Gain(Oos(p)) > 0
  /\ Gain(Oos(p)) > Gain(Structural(Oos(p)))

CreateSnapshot(p) ==
  /\ Len(snapshots) < MaxSnapshots
  /\ \A i \in Selected(p) : FrozenBefore(p, i)
  /\ HoldoutFree(p)
  /\ snapshots' = Append(snapshots, [plan |-> p, cases |-> Selected(p), oos |-> Oos(p),
                                     bound |-> BoundReached(Oos(p)),
                                     eligible |-> Eligible(p)])
  /\ UNCHANGED <<scenarioVars, contexts, outcomes, plans, evaluations>>

-----------------------------------------------------------------------------
(* create_evaluation.                                                       *)

\* ORDER BY version DESC, id DESC, over all events of the card.
CurrentSet(c, s) ==
  /\ CardOf(s) = c
  /\ \A j \in DOMAIN sets \ {s} : CardOf(j) = c =>
       \/ sets[j].version < sets[s].version
       \/ sets[j].version = sets[s].version /\ j < s
LatestContext(c, x) ==
  /\ contexts[x].card = c
  /\ \A y \in DOMAIN contexts : contexts[y].card = c => y <= x

Recommended(l) ==
  IF l.dead THEN "REDUCE_REVIEW"
  ELSE IF ~snapshots[l.snapshot].eligible THEN "HOLD_INSUFFICIENT_EVIDENCE"
  ELSE IF ~Qualified(l.set, contexts[l.context].quote, l.dead) THEN "NO_ACTION"
  ELSE IF snapshots[l.snapshot].bound THEN "BUY_REVIEW" ELSE "WATCH"

\* What the request of card c with snapshot n is about, as of now.
Asked(c, n, l) ==
  /\ l.card = c /\ l.snapshot = n /\ l.dead = (c \in dead)
  /\ CurrentSet(c, l.set)
  /\ plans[snapshots[n].plan].target = l.set
  /\ LatestContext(c, l.context)

SameLineageBlind(l, m) ==             \* mutant: "invalidated" left out of the hash
  [l EXCEPT !.dead = FALSE] = [m EXCEPT !.dead = FALSE]
SameLineage(l, m) == l = m

Evaluate(c, n, l) ==
  /\ Len(evaluations) < MaxEvaluations
  /\ Asked(c, n, l)
  /\ \A e \in DOMAIN evaluations : ~SameLineage(evaluations[e].lineage, l)
  /\ evaluations' = Append(evaluations, [lineage |-> l, recommendation |-> Recommended(l)])
  /\ UNCHANGED <<scenarioVars, contexts, outcomes, plans, snapshots>>

-----------------------------------------------------------------------------
Init ==
  /\ ScenarioInit
  /\ contexts = <<>> /\ outcomes = <<>> /\ plans = <<>>
  /\ snapshots = <<>> /\ evaluations = <<>>

\* Bounds on the tables together.  No handler reads both the observations and
\* the tables of this module, so the instance fills one or the other.
Room == Len(sets) + Len(contexts) + Len(outcomes) + Len(plans)
          + 2 * Len(snapshots) + Len(evaluations) < MaxRows
Unused == hybridVars = <<<<>>, <<>>, <<>>, <<>>, <<>>>>

ScenarioNext ==
  /\ \/ /\ Room
        /\ \E u \in Subjects, v \in 1..MaxVersion, f \in Forecasts : CreateScenarioSet(u, v, f)
     \/ /\ Unused
        /\ \E s \in DOMAIN sets, t \in Times, q \in Quotes : Observe(s, t, q)
     \/ \E c \in Cards : Invalidate(c)
     \/ Pass
  /\ UNCHANGED hybridVars

HybridNext ==
  /\ Room /\ observations = <<>>
  /\ \/ \E c \in Cards, q \in ContextQuotes : PersistContext(c, q)
     \/ \E s \in DOMAIN sets, x \in DOMAIN contexts, g \in Charts, u \in Cutoffs :
          RecordOutcome(s, x, g, u)
     \/ \E s \in DOMAIN sets, w \in Windows, h \in Holdouts : CreatePlan(s, w, h)
     \/ \E p \in DOMAIN plans : CreateSnapshot(p)
     \/ \E c \in Judged, n \in DOMAIN snapshots, s \in DOMAIN sets, x \in DOMAIN contexts :
          Evaluate(c, n, [card |-> c, set |-> s, context |-> x, snapshot |-> n,
                          dead |-> c \in dead])

Next == ScenarioNext \/ HybridNext
Spec == Init /\ [][Next]_vars

TypeOK ==
  /\ clock \in Times
  /\ dead \subseteq Cards
  /\ sets \in Seq(ScenarioSets)
  /\ observations \in Seq(Observations)
  /\ contexts \in Seq(Contexts)
  /\ outcomes \in Seq(Outcomes)
  /\ plans \in Seq(Plans)
  /\ snapshots \in Seq(Snapshots)
  /\ evaluations \in Seq(Evaluations)

-----------------------------------------------------------------------------
\* Nobody draws up a plan over a result he has: when a qualified outcome of the
\* plan's windows was in the ledger before the plan was frozen, and its bars were
\* known by then, the plan never gets a snapshot, whether with that case or without
\* it.  Nothing compares the creation times of an outcome and a plan; and of bars
\* that were dated in the future when the plan was frozen no such thing holds.
NoLookAhead ==
  \A n \in DOMAIN snapshots : \A i \in DOMAIN outcomes :
    LET p == snapshots[n].plan IN
    InWindow(p, i) /\ outcomes[i].qualified /\ outcomes[i].created < plans[p].frozen
    => plans[p].frozen < outcomes[i].observed

\* The holdout key is the caller's, so a window may be tested again under another
\* key; but the cases are not the caller's to choose.  The later test has every
\* case of the earlier one, other than its own target, also those whose card has
\* been invalidated meanwhile.
CasesNeverDropOut ==
  \A m, n \in DOMAIN snapshots :
    LET p == snapshots[m].plan  q == snapshots[n].plan IN
    m < n /\ PlanCohort(p) = PlanCohort(q) /\ plans[p].window = plans[q].window
    => \A i \in snapshots[m].cases :
         outcomes[i].set # plans[q].target => i \in snapshots[n].cases

\* A version that was superseded when another of its event became a case stays
\* out of the ledger: nobody goes back to it once the result is known.
LedgerFollowsVersions ==
  \A i, j \in DOMAIN outcomes :
    i < j /\ SameEvent(outcomes[i].set, outcomes[j].set)
    => outcomes[i].set < outcomes[j].set

\* A stored evaluation that a repeated request would be answered with is the
\* one a computation from the present rows would give.
AnswerIsCurrent ==
  \A e \in DOMAIN evaluations :
    LET l == evaluations[e].lineage IN
    \A m \in {[l EXCEPT !.dead = l.card \in dead]} :
      Asked(l.card, l.snapshot, m) /\ SameLineage(l, m)
      => evaluations[e].recommendation = Recommended(m)

\* A buy review rests, end to end, on the ledger: enough out-of-sample cases of
\* other scenario sets, at least half of them GOOD, each entered on a context
\* that was known before its first bar and passed the market checks, together
\* gaining after costs.
BuyReviewIsBacked ==
  \A e \in DOMAIN evaluations : evaluations[e].recommendation = "BUY_REVIEW" =>
    LET l == evaluations[e].lineage
        oos == snapshots[l.snapshot].oos
    IN /\ Cardinality(oos) >= MinOos
       /\ 2 * Cardinality(GoodCases(oos)) >= Cardinality(oos)
       /\ Gain(oos) > 0
       /\ \A i \in oos :
            /\ outcomes[i].set # l.set
            /\ \E x \in DOMAIN contexts :
                 /\ contexts[x].card = CardOf(outcomes[i].set)
                 /\ contexts[x].known < outcomes[i].traded
                 /\ contexts[x].quote.passes

\* "calibration plan was frozen after eligible outcome evidence" refuses a
\* snapshot (line 941), so the bars of an accepted case all come after the plan.
FrozenBeforeEvidence ==
  \A n \in DOMAIN snapshots : \A i \in snapshots[n].cases :
    plans[snapshots[n].plan].frozen < outcomes[i].seen
=============================================================================
