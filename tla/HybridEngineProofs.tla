------------------------- MODULE HybridEngineProofs -------------------------
(***************************************************************************)
(* Proofs about EventScenarios and HybridEngine, for any cards, forecasts,  *)
(* charts, windows and bounds.                                              *)
(*                                                                         *)
(* Every table is append-only: the proofs first show that a step keeps all  *)
(* rows (RowsAreKept), so that what a row refers to never changes, and then *)
(* look, table by table, at the row a step may add.  The invariant adds to  *)
(* the properties that references point at rows (References), that a case   *)
(* of a snapshot still meets what it was selected by (CasesBelong), that no *)
(* snapshot left out what was in the ledger before its plan (NoneLeftOut),  *)
(* and what a snapshot and an evaluation owe to the rows they were computed *)
(* from.  Nothing is assumed of the times that callers give to bars.        *)
(***************************************************************************)
EXTENDS HybridEngine, SequenceTheorems, FiniteSetTheorems, TLAPS

References ==
  /\ \A i \in DOMAIN observations : observations[i].set \in DOMAIN sets
  /\ \A i \in DOMAIN outcomes : outcomes[i].set \in DOMAIN sets
  /\ \A p \in DOMAIN plans : plans[p].target \in DOMAIN sets
  /\ \A n \in DOMAIN snapshots :
       /\ snapshots[n].plan \in DOMAIN plans
       /\ snapshots[n].cases \subseteq DOMAIN outcomes
       /\ snapshots[n].oos \subseteq snapshots[n].cases
  /\ \A e \in DOMAIN evaluations :
       /\ evaluations[e].lineage.set \in DOMAIN sets
       /\ evaluations[e].lineage.context \in DOMAIN contexts
       /\ evaluations[e].lineage.snapshot \in DOMAIN snapshots

ExitMeansDead ==
  \A i \in DOMAIN observations :
    observations[i].action = "EXIT_REVIEW" => CardOf(observations[i].set) \in dead

Entered(i) ==
  \E x \in DOMAIN contexts :
    /\ contexts[x].card = CardOf(outcomes[i].set)
    /\ contexts[x].known < outcomes[i].traded
    /\ contexts[x].quote.passes
QualifiedEntered == \A i \in DOMAIN outcomes : outcomes[i].qualified => Entered(i)

CasesBelong ==
  \A n \in DOMAIN snapshots : \A i \in snapshots[n].cases :
    /\ InWindow(snapshots[n].plan, i) /\ outcomes[i].qualified
    /\ FrozenBefore(snapshots[n].plan, i)

PlansPast == \A p \in DOMAIN plans : plans[p].frozen <= clock
NoneLeftOut ==
  \A n \in DOMAIN snapshots : \A i \in DOMAIN outcomes :
    /\ InWindow(snapshots[n].plan, i) /\ outcomes[i].qualified
    /\ outcomes[i].created < plans[snapshots[n].plan].frozen
    => i \in snapshots[n].cases

Backed(n) ==
  /\ Cardinality(snapshots[n].oos) >= MinOos
  /\ 2 * Cardinality(GoodCases(snapshots[n].oos)) >= Cardinality(snapshots[n].oos)
  /\ Gain(snapshots[n].oos) > 0
  /\ \A i \in snapshots[n].oos :
       outcomes[i].qualified /\ outcomes[i].set # plans[snapshots[n].plan].target
EligibleBacked == \A n \in DOMAIN snapshots : snapshots[n].eligible => snapshots[n].bound /\ Backed(n)

EvaluationFrozen ==
  \A e \in DOMAIN evaluations :
    LET l == evaluations[e].lineage IN
    /\ evaluations[e].recommendation = Recommended(l)
    /\ plans[snapshots[l.snapshot].plan].target = l.set

EInv == TypeOK /\ References
HInv == EInv /\ LedgerFollowsVersions /\ ExitMeansDead /\ ExitReviewIsFinal
          /\ QualifiedEntered /\ CasesBelong /\ CasesNeverDropOut /\ EligibleBacked
          /\ EvaluationFrozen /\ PlansPast /\ NoneLeftOut

-----------------------------------------------------------------------------
(* Appending, and what a step may add to each table.                         *)

Kept(old, new) ==
  /\ DOMAIN old \subseteq DOMAIN new
  /\ \A i \in DOMAIN old : new[i] = old[i]

(* Append keeps every earlier row where it is. *)
LEMMA Appended ==
  ASSUME NEW S, NEW q \in Seq(S), NEW x \in S
  PROVE  /\ Append(q, x) \in Seq(S)
         /\ DOMAIN Append(q, x) = DOMAIN q \cup {Len(q) + 1}
         /\ Len(q) + 1 \notin DOMAIN q
         /\ DOMAIN q = 1..Len(q) /\ Len(q) \in Nat
         /\ Append(q, x)[Len(q) + 1] = x
         /\ \A i \in DOMAIN q : Append(q, x)[i] = q[i]
         /\ Kept(q, Append(q, x))
  BY DEF Kept

(* A row is an earlier one or the appended one. *)
LEMMA OldOrNew ==
  ASSUME NEW S, NEW q \in Seq(S), NEW x \in S, NEW new, new = Append(q, x)
  PROVE  \A i \in DOMAIN new :
           \/ i \in DOMAIN q /\ new[i] = q[i] /\ i < Len(q) + 1
           \/ i = Len(q) + 1 /\ new[i] = x
  OBVIOUS

(* A row number is at most the last one. *)
LEMMA Rows ==
  ASSUME NEW S, NEW q \in Seq(S)
  PROVE  /\ DOMAIN q = 1..Len(q) /\ Len(q) \in Nat /\ DOMAIN q \subseteq Id
         /\ \A i \in DOMAIN q : q[i] \in S
  BY DEF Id

(* The ten kinds of step. *)
SetAdded == \E u \in Subjects, v \in 1..MaxVersion, f \in Forecasts : CreateScenarioSet(u, v, f)
Observed == \E s \in DOMAIN sets, t \in Times, q \in Quotes : Observe(s, t, q)
Invalidated == \E c \in Cards : Invalidate(c)
ContextAdded == \E c \in Cards, q \in ContextQuotes : PersistContext(c, q)
OutcomeAdded ==
  \E s \in DOMAIN sets, x \in DOMAIN contexts, g \in Charts, u \in Cutoffs :
    RecordOutcome(s, x, g, u)
PlanAdded == \E s \in DOMAIN sets, w \in Windows, h \in Holdouts : CreatePlan(s, w, h)
SnapshotAdded == \E p \in DOMAIN plans : CreateSnapshot(p)
EvaluationAdded ==
  \E c \in Judged, n \in DOMAIN snapshots, s \in DOMAIN sets, x \in DOMAIN contexts :
    Evaluate(c, n, [card |-> c, set |-> s, context |-> x, snapshot |-> n, dead |-> c \in dead])

LEMMA StepCases ==
  ASSUME [Next]_vars
  PROVE  \/ UNCHANGED hybridVars /\ (SetAdded \/ Observed \/ Invalidated \/ Pass)
         \/ ContextAdded \/ OutcomeAdded \/ PlanAdded \/ SnapshotAdded \/ EvaluationAdded
         \/ UNCHANGED vars
<1>1. CASE ScenarioNext
  BY <1>1 DEF ScenarioNext, SetAdded, Observed, Invalidated
<1>2. CASE HybridNext
  BY <1>2 DEF HybridNext, ContextAdded, OutcomeAdded, PlanAdded, SnapshotAdded,
     EvaluationAdded
<1> QED BY <1>1, <1>2 DEF Next

(* What each kind leaves alone. *)
LEMMA Untouched ==
  /\ SetAdded => UNCHANGED <<clock, dead, observations>>
  /\ Observed => UNCHANGED <<clock, dead, sets>>
  /\ Invalidated => UNCHANGED <<clock, sets, observations>>
  /\ Pass => UNCHANGED <<dead, sets, observations>>
  /\ UNCHANGED hybridVars => UNCHANGED <<contexts, outcomes, plans, snapshots, evaluations>>
  /\ ContextAdded =>
       UNCHANGED <<clock, dead, sets, observations, outcomes, plans, snapshots, evaluations>>
  /\ OutcomeAdded =>
       UNCHANGED <<clock, dead, sets, observations, contexts, plans, snapshots, evaluations>>
  /\ PlanAdded =>
       UNCHANGED <<clock, dead, sets, observations, contexts, outcomes, snapshots, evaluations>>
  /\ SnapshotAdded =>
       UNCHANGED <<clock, dead, sets, observations, contexts, outcomes, plans, evaluations>>
  /\ EvaluationAdded =>
       UNCHANGED <<clock, dead, sets, observations, contexts, outcomes, plans, snapshots>>
  /\ UNCHANGED vars =>
       UNCHANGED <<clock, dead, sets, observations, contexts, outcomes, plans, snapshots,
                   evaluations>>
<1>1. SetAdded => UNCHANGED <<clock, dead, observations>>
  BY DEF SetAdded, CreateScenarioSet
<1>2. Observed => UNCHANGED <<clock, dead, sets>>
  BY DEF Observed, Observe
<1>3. Invalidated => UNCHANGED <<clock, sets, observations>>
  BY DEF Invalidated, Invalidate
<1>4. Pass => UNCHANGED <<dead, sets, observations>>
  BY DEF Pass
<1>5. ContextAdded =>
       UNCHANGED <<clock, dead, sets, observations, outcomes, plans, snapshots, evaluations>>
  BY DEF ContextAdded, PersistContext, scenarioVars
<1>6. OutcomeAdded =>
       UNCHANGED <<clock, dead, sets, observations, contexts, plans, snapshots, evaluations>>
  BY DEF OutcomeAdded, RecordOutcome, scenarioVars
<1>7. PlanAdded =>
       UNCHANGED <<clock, dead, sets, observations, contexts, outcomes, snapshots, evaluations>>
  BY DEF PlanAdded, CreatePlan, scenarioVars
<1>8. SnapshotAdded =>
       UNCHANGED <<clock, dead, sets, observations, contexts, outcomes, plans, evaluations>>
  BY DEF SnapshotAdded, CreateSnapshot, scenarioVars
<1>9. EvaluationAdded =>
       UNCHANGED <<clock, dead, sets, observations, contexts, outcomes, plans, snapshots>>
  BY DEF EvaluationAdded, Evaluate, scenarioVars
<1>10. UNCHANGED hybridVars => UNCHANGED <<contexts, outcomes, plans, snapshots, evaluations>>
  BY DEF hybridVars
<1>11. UNCHANGED vars =>
       UNCHANGED <<clock, dead, sets, observations, contexts, outcomes, plans, snapshots,
                   evaluations>>
  BY DEF vars, scenarioVars, hybridVars
<1> QED
  BY <1>1, <1>2, <1>3, <1>4, <1>5, <1>6, <1>7, <1>8, <1>9, <1>10, <1>11

(* Each table is changed by one kind of step. *)
LEMMA TableSteps ==
  ASSUME [Next]_vars
  PROVE  /\ clock' = clock \/ Pass
         /\ dead' = dead \/ Invalidated
         /\ sets' = sets \/ SetAdded
         /\ observations' = observations \/ Observed
         /\ contexts' = contexts \/ ContextAdded
         /\ outcomes' = outcomes \/ OutcomeAdded
         /\ plans' = plans \/ PlanAdded
         /\ snapshots' = snapshots \/ SnapshotAdded
         /\ evaluations' = evaluations \/ EvaluationAdded
  BY StepCases, Untouched

LEMMA ClockStep ==
  ASSUME TypeOK, [Next]_vars
  PROVE  /\ clock' \in Times /\ clock <= clock' /\ clock \in Nat /\ clock' \in Nat
         /\ dead \subseteq dead' /\ dead' \subseteq Cards
<1>1. clock \in Nat /\ MaxClock \in Nat /\ clock <= MaxClock /\ dead \subseteq Cards
  BY ScenarioBounds DEF TypeOK, Times
<1>2. Pass => clock' \in Times /\ clock <= clock' /\ clock' \in Nat
  BY <1>1 DEF Pass, Times
<1>3. Invalidated => dead \subseteq dead' /\ dead' \subseteq Cards
  BY <1>1 DEF Invalidated, Invalidate
<1>4. clock' = clock => clock' \in Times /\ clock <= clock' /\ clock' \in Nat
  BY <1>1 DEF Times
<1> QED BY <1>1, <1>2, <1>3, <1>4, TableSteps

-----------------------------------------------------------------------------
(* What is appended.                                                         *)

LEMMA SetRow ==
  ASSUME TypeOK, SetAdded
  PROVE  \E r \in ScenarioSets : sets' = Append(sets, r)
<1>1. PICK u \in Subjects, v \in 1..MaxVersion, f \in Forecasts : CreateScenarioSet(u, v, f)
  BY DEF SetAdded
<1>2. [about |-> u, version |-> v, frozen |-> clock, forecast |-> f] \in ScenarioSets
  BY DEF TypeOK, ScenarioSets
<1> QED BY <1>1, <1>2 DEF CreateScenarioSet

LEMMA ObservationRow ==
  ASSUME TypeOK, NEW s \in DOMAIN sets, NEW t \in Times, NEW q \in Quotes, Observe(s, t, q)
  PROVE  /\ [set |-> s, known |-> t, action |-> ObservedAction(s, q)] \in Observations
         /\ ObservedAction(s, q) = "EXIT_REVIEW" <=> CardOf(s) \in dead
<1>1. s \in Nat \ {0}
  BY Rows DEF TypeOK, Id
<1>2. \A m \in Labels \cup {"none"}, b \in BOOLEAN :
        ActionOfMatch(m, b) \in Actions \ {"EXIT_REVIEW"}
  BY DEF ActionOfMatch, Actions, Labels
<1>3. Matched(Bands(s), q.price) \in Labels \cup {"none"} /\ q.strong \in BOOLEAN
  BY QuoteAssumption DEF Matched, Labels
<1>4. /\ ObservedAction(s, q) \in Actions
      /\ ObservedAction(s, q) = "EXIT_REVIEW" <=> CardOf(s) \in dead
  BY <1>2, <1>3 DEF ObservedAction, Actions
<1> QED BY <1>1, <1>4 DEF Observations

LEMMA ContextRow ==
  ASSUME TypeOK, ContextAdded
  PROVE  \E r \in Contexts : contexts' = Append(contexts, r)
<1>1. PICK c \in Cards, q \in ContextQuotes : PersistContext(c, q)
  BY DEF ContextAdded
<1>2. [card |-> c, known |-> clock, quote |-> q] \in Contexts
  BY DEF TypeOK, Contexts
<1> QED BY <1>1, <1>2 DEF PersistContext

(* The row of a new outcome. *)
OutcomeRecorded(r) ==
  /\ r \in Outcomes /\ outcomes' = Append(outcomes, r)
  /\ r.set \in DOMAIN sets /\ Newest(r.set)
  /\ \A i \in DOMAIN outcomes : outcomes[i].set # r.set
  /\ r.created = clock
  /\ r.qualified => \E x \in DOMAIN contexts :
       /\ contexts[x].card = CardOf(r.set)
       /\ contexts[x].known < r.traded /\ contexts[x].quote.passes

LEMMA OutcomeRow ==
  ASSUME TypeOK, OutcomeAdded
  PROVE  \E r : OutcomeRecorded(r)
<1>1. PICK s \in DOMAIN sets, x \in DOMAIN contexts, g \in Charts, u \in Cutoffs :
         RecordOutcome(s, x, g, u)
  BY DEF OutcomeAdded
<1> DEFINE Row(traded, known) ==
             [set |-> s, chart |-> g, traded |-> traded[1], seen |-> known[1],
              observed |-> known[Len(g)], cutoff |-> u, created |-> clock,
              qualified |-> Qualified(s, contexts[x].quote, CardOf(s) \in dead)]
<1>2. PICK traded \in [DOMAIN g -> BarTimes], known \in [DOMAIN g -> BarTimes] :
         contexts[x].known < traded[1] /\ outcomes' = Append(outcomes, Row(traded, known))
  BY <1>1 DEF RecordOutcome
<1> DEFINE r == Row(traded, known)
<1>3. /\ traded[1] \in BarTimes /\ known[1] \in BarTimes /\ known[Len(g)] \in BarTimes
  BY <1>2, ChartAssumption
<1>4. s \in Id /\ u \in Nat /\ clock \in Times
  BY Rows, CutoffAssumption DEF TypeOK
<1>5. Qualified(s, contexts[x].quote, CardOf(s) \in dead) \in BOOLEAN
  BY DEF Qualified
<1>6. r \in Outcomes /\ r.set = s /\ r.traded = traded[1] /\ r.created = clock
      /\ (r.qualified => contexts[x].quote.passes)
  BY <1>3, <1>4, <1>5 DEF Outcomes, Qualified
<1>7. outcomes' = Append(outcomes, r)
  BY <1>2
<1> HIDE DEF r, Row
<1>8. OutcomeRecorded(r)
  BY <1>1, <1>2, <1>6, <1>7 DEF RecordOutcome, OutcomeRecorded
<1> QED BY <1>8

LEMMA PlanRow ==
  ASSUME TypeOK, NEW s \in DOMAIN sets, NEW w \in Windows, NEW h \in Holdouts
  PROVE  [target |-> s, frozen |-> clock, window |-> w, holdout |-> h] \in Plans
  BY Rows DEF TypeOK, Plans

LEMMA SnapshotRow ==
  ASSUME TypeOK, NEW p \in DOMAIN plans
  PROVE  /\ [plan |-> p, cases |-> Selected(p), oos |-> Oos(p),
             bound |-> BoundReached(Oos(p)), eligible |-> Eligible(p)] \in Snapshots
         /\ Selected(p) \subseteq DOMAIN outcomes /\ Oos(p) \subseteq Selected(p)
<1>1. p \in Id /\ DOMAIN outcomes \subseteq Id
  BY Rows DEF TypeOK
<1>2. Selected(p) \subseteq DOMAIN outcomes /\ Oos(p) \subseteq Selected(p)
  BY DEF Selected, Oos
<1>3. BoundReached(Oos(p)) \in BOOLEAN /\ Eligible(p) \in BOOLEAN
  BY DEF BoundReached, LowerBoundAtHalf, Eligible
<1> QED BY <1>1, <1>2, <1>3 DEF Snapshots

LEMMA EvaluationRow ==
  ASSUME TypeOK, EligibleBacked, NEW c \in Judged, NEW n \in DOMAIN snapshots,
         NEW s \in DOMAIN sets, NEW x \in DOMAIN contexts, NEW l,
         l = [card |-> c, set |-> s, context |-> x, snapshot |-> n, dead |-> c \in dead]
  PROVE  /\ [lineage |-> l, recommendation |-> Recommended(l)] \in Evaluations
         /\ l.card = c /\ l.set = s /\ l.context = x /\ l.snapshot = n
         /\ l.dead = (c \in dead)
<1>1. n \in Id /\ s \in Id /\ x \in Id /\ c \in Cards
  BY Rows, RoleAssumption DEF TypeOK
<1>2. l \in Lineages /\ l.snapshot = n
  BY <1>1 DEF Lineages
<1>3. snapshots[n].eligible => snapshots[n].bound
  BY DEF EligibleBacked
<1>4. Recommended(l) \in Recommendations
  BY <1>2, <1>3 DEF Recommended, Recommendations
<1> QED BY <1>2, <1>4 DEF Evaluations

(* No row is ever changed or removed. *)
RowsAreKept ==
  /\ Kept(sets, sets') /\ Kept(observations, observations') /\ Kept(contexts, contexts')
  /\ Kept(outcomes, outcomes') /\ Kept(plans, plans') /\ Kept(snapshots, snapshots')
  /\ Kept(evaluations, evaluations')

LEMMA TypesKept ==
  ASSUME TypeOK, EligibleBacked, [Next]_vars
  PROVE  TypeOK' /\ RowsAreKept
<1>s. sets' \in Seq(ScenarioSets) /\ Kept(sets, sets')
  <2>1. CASE sets' = sets
    BY <2>1 DEF TypeOK, Kept
  <2>2. CASE SetAdded
    <3>1. PICK r \in ScenarioSets : sets' = Append(sets, r)
      BY <2>2, SetRow
    <3> QED BY <3>1, Appended DEF TypeOK
  <2> QED BY <2>1, <2>2, TableSteps
<1>o. observations' \in Seq(Observations) /\ Kept(observations, observations')
  <2>1. CASE observations' = observations
    BY <2>1 DEF TypeOK, Kept
  <2>2. CASE Observed
    <3>1. PICK s \in DOMAIN sets, t \in Times, q \in Quotes : Observe(s, t, q)
      BY <2>2 DEF Observed
    <3>2. [set |-> s, known |-> t, action |-> ObservedAction(s, q)] \in Observations
      BY <3>1, ObservationRow
    <3> QED BY <3>1, <3>2, Appended DEF TypeOK, Observe
  <2> QED BY <2>1, <2>2, TableSteps
<1>x. contexts' \in Seq(Contexts) /\ Kept(contexts, contexts')
  <2>1. CASE contexts' = contexts
    BY <2>1 DEF TypeOK, Kept
  <2>2. CASE ContextAdded
    <3>1. PICK r \in Contexts : contexts' = Append(contexts, r)
      BY <2>2, ContextRow
    <3> QED BY <3>1, Appended DEF TypeOK
  <2> QED BY <2>1, <2>2, TableSteps
<1>u. outcomes' \in Seq(Outcomes) /\ Kept(outcomes, outcomes')
  <2>1. CASE outcomes' = outcomes
    BY <2>1 DEF TypeOK, Kept
  <2>2. CASE OutcomeAdded
    <3>1. PICK r : OutcomeRecorded(r)
      BY <2>2, OutcomeRow
    <3> QED BY <3>1, Appended DEF TypeOK, OutcomeRecorded
  <2> QED BY <2>1, <2>2, TableSteps
<1>p. plans' \in Seq(Plans) /\ Kept(plans, plans')
  <2>1. CASE plans' = plans
    BY <2>1 DEF TypeOK, Kept
  <2>2. CASE PlanAdded
    <3>1. PICK s \in DOMAIN sets, w \in Windows, h \in Holdouts : CreatePlan(s, w, h)
      BY <2>2 DEF PlanAdded
    <3>2. [target |-> s, frozen |-> clock, window |-> w, holdout |-> h] \in Plans
      BY PlanRow
    <3> QED BY <3>1, <3>2, Appended DEF TypeOK, CreatePlan
  <2> QED BY <2>1, <2>2, TableSteps
<1>n. snapshots' \in Seq(Snapshots) /\ Kept(snapshots, snapshots')
  <2>1. CASE snapshots' = snapshots
    BY <2>1 DEF TypeOK, Kept
  <2>2. CASE SnapshotAdded
    <3>1. PICK p \in DOMAIN plans : CreateSnapshot(p)
      BY <2>2 DEF SnapshotAdded
    <3>2. [plan |-> p, cases |-> Selected(p), oos |-> Oos(p),
           bound |-> BoundReached(Oos(p)), eligible |-> Eligible(p)] \in Snapshots
      BY SnapshotRow
    <3> QED BY <3>1, <3>2, Appended DEF TypeOK, CreateSnapshot
  <2> QED BY <2>1, <2>2, TableSteps
<1>e. evaluations' \in Seq(Evaluations) /\ Kept(evaluations, evaluations')
  <2>1. CASE evaluations' = evaluations
    BY <2>1 DEF TypeOK, Kept
  <2>2. CASE EvaluationAdded
    <3>1. PICK c \in Judged, n \in DOMAIN snapshots, s \in DOMAIN sets, x \in DOMAIN contexts :
            Evaluate(c, n, [card |-> c, set |-> s, context |-> x, snapshot |-> n,
                            dead |-> c \in dead])
      BY <2>2 DEF EvaluationAdded
    <3> DEFINE l == [card |-> c, set |-> s, context |-> x, snapshot |-> n, dead |-> c \in dead]
    <3>2. Evaluate(c, n, l) /\ l = [card |-> c, set |-> s, context |-> x, snapshot |-> n,
                                    dead |-> c \in dead]
      BY <3>1
    <3> HIDE DEF l
    <3>3. [lineage |-> l, recommendation |-> Recommended(l)] \in Evaluations
      BY <3>2, EvaluationRow
    <3>4. evaluations' = Append(evaluations, [lineage |-> l, recommendation |-> Recommended(l)])
      BY <3>2 DEF Evaluate
    <3> QED BY <3>3, <3>4, Appended DEF TypeOK
  <2> QED BY <2>1, <2>2, TableSteps
<1> QED
  BY <1>s, <1>o, <1>x, <1>u, <1>p, <1>n, <1>e, ClockStep DEF TypeOK, RowsAreKept

-----------------------------------------------------------------------------
(* References.                                                               *)

LEMMA ReferencesKept ==
  ASSUME TypeOK, EligibleBacked, References, [Next]_vars
  PROVE  References'
<1>k. RowsAreKept /\ TypeOK'
  BY TypesKept
<1>o. \A i \in DOMAIN observations' : observations'[i].set \in DOMAIN sets'
  <2>1. CASE observations' = observations
    BY <2>1, <1>k DEF References, RowsAreKept, Kept
  <2>2. CASE Observed
    <3>1. PICK s \in DOMAIN sets, t \in Times, q \in Quotes : Observe(s, t, q)
      BY <2>2 DEF Observed
    <3> DEFINE r == [set |-> s, known |-> t, action |-> ObservedAction(s, q)]
    <3>2. r \in Observations /\ r.set \in DOMAIN sets
      BY <3>1, ObservationRow
    <3>3. observations' = Append(observations, r)
      BY <3>1 DEF Observe
    <3> HIDE DEF r
    <3>4. \A i \in DOMAIN observations' :
            \/ i \in DOMAIN observations /\ observations'[i] = observations[i]
            \/ observations'[i] = r
      BY <3>2, <3>3, OldOrNew DEF TypeOK
    <3> QED BY <1>k, <3>2, <3>4 DEF References, RowsAreKept, Kept
  <2> QED BY <2>1, <2>2, TableSteps
<1>u. \A i \in DOMAIN outcomes' : outcomes'[i].set \in DOMAIN sets'
  <2>1. CASE outcomes' = outcomes
    BY <2>1, <1>k DEF References, RowsAreKept, Kept
  <2>2. CASE OutcomeAdded
    <3>1. PICK r : OutcomeRecorded(r)
      BY <2>2, OutcomeRow
    <3>2. r \in Outcomes /\ r.set \in DOMAIN sets /\ outcomes' = Append(outcomes, r)
      BY <3>1 DEF OutcomeRecorded
    <3>3. \A i \in DOMAIN outcomes' :
            \/ i \in DOMAIN outcomes /\ outcomes'[i] = outcomes[i]
            \/ outcomes'[i] = r
      BY <3>2, OldOrNew DEF TypeOK
    <3> QED BY <1>k, <3>2, <3>3 DEF References, RowsAreKept, Kept
  <2> QED BY <2>1, <2>2, TableSteps
<1>p. \A p \in DOMAIN plans' : plans'[p].target \in DOMAIN sets'
  <2>1. CASE plans' = plans
    BY <2>1, <1>k DEF References, RowsAreKept, Kept
  <2>2. CASE PlanAdded
    <3>1. PICK s \in DOMAIN sets, w \in Windows, h \in Holdouts : CreatePlan(s, w, h)
      BY <2>2 DEF PlanAdded
    <3> DEFINE r == [target |-> s, frozen |-> clock, window |-> w, holdout |-> h]
    <3>2. r \in Plans /\ r.target \in DOMAIN sets
      BY PlanRow
    <3>3. plans' = Append(plans, r)
      BY <3>1 DEF CreatePlan
    <3> HIDE DEF r
    <3>4. \A i \in DOMAIN plans' :
            \/ i \in DOMAIN plans /\ plans'[i] = plans[i]
            \/ plans'[i] = r
      BY <3>2, <3>3, OldOrNew DEF TypeOK
    <3> QED BY <1>k, <3>2, <3>4 DEF References, RowsAreKept, Kept
  <2> QED BY <2>1, <2>2, TableSteps
<1>n. \A n \in DOMAIN snapshots' :
        /\ snapshots'[n].plan \in DOMAIN plans'
        /\ snapshots'[n].cases \subseteq DOMAIN outcomes'
        /\ snapshots'[n].oos \subseteq snapshots'[n].cases
  <2>1. CASE snapshots' = snapshots
    BY <2>1, <1>k DEF References, RowsAreKept, Kept
  <2>2. CASE SnapshotAdded
    <3>1. PICK p \in DOMAIN plans : CreateSnapshot(p)
      BY <2>2 DEF SnapshotAdded
    <3> DEFINE r == [plan |-> p, cases |-> Selected(p), oos |-> Oos(p),
                     bound |-> BoundReached(Oos(p)), eligible |-> Eligible(p)]
    <3>2. /\ r \in Snapshots
          /\ r.plan \in DOMAIN plans /\ r.cases \subseteq DOMAIN outcomes /\ r.oos \subseteq r.cases
      BY SnapshotRow
    <3>3. snapshots' = Append(snapshots, r)
      BY <3>1 DEF CreateSnapshot
    <3> HIDE DEF r
    <3>4. \A i \in DOMAIN snapshots' :
            \/ i \in DOMAIN snapshots /\ snapshots'[i] = snapshots[i]
            \/ snapshots'[i] = r
      BY <3>2, <3>3, OldOrNew DEF TypeOK
    <3> QED BY <1>k, <3>2, <3>4 DEF References, RowsAreKept, Kept
  <2> QED BY <2>1, <2>2, TableSteps
<1>e. \A e \in DOMAIN evaluations' :
        /\ evaluations'[e].lineage.set \in DOMAIN sets'
        /\ evaluations'[e].lineage.context \in DOMAIN contexts'
        /\ evaluations'[e].lineage.snapshot \in DOMAIN snapshots'
  <2>1. CASE evaluations' = evaluations
    BY <2>1, <1>k DEF References, RowsAreKept, Kept
  <2>2. CASE EvaluationAdded
    <3>1. PICK c \in Judged, n \in DOMAIN snapshots, s \in DOMAIN sets, x \in DOMAIN contexts :
            Evaluate(c, n, [card |-> c, set |-> s, context |-> x, snapshot |-> n,
                            dead |-> c \in dead])
      BY <2>2 DEF EvaluationAdded
    <3> DEFINE l == [card |-> c, set |-> s, context |-> x, snapshot |-> n, dead |-> c \in dead]
               r == [lineage |-> l, recommendation |-> Recommended(l)]
    <3>2. Evaluate(c, n, l) /\ l = [card |-> c, set |-> s, context |-> x, snapshot |-> n,
                                    dead |-> c \in dead]
      BY <3>1
    <3> HIDE DEF l
    <3>3. r \in Evaluations /\ r.lineage.set = s /\ r.lineage.context = x
          /\ r.lineage.snapshot = n
      BY <3>2, EvaluationRow
    <3>4. evaluations' = Append(evaluations, r)
      BY <3>2 DEF Evaluate
    <3> HIDE DEF r
    <3>5. \A e \in DOMAIN evaluations' :
            \/ e \in DOMAIN evaluations /\ evaluations'[e] = evaluations[e]
            \/ evaluations'[e] = r
      BY <3>3, <3>4, OldOrNew DEF TypeOK
    <3> QED BY <1>k, <3>3, <3>5 DEF References, RowsAreKept, Kept
  <2> QED BY <2>1, <2>2, TableSteps
<1> QED BY <1>o, <1>u, <1>p, <1>n, <1>e DEF References

LEMMA EInvKept ==
  ASSUME EInv, EligibleBacked, [Next]_vars
  PROVE  EInv' /\ RowsAreKept
  BY TypesKept, ReferencesKept DEF EInv

-----------------------------------------------------------------------------
(* What depends on rows only stays.                                          *)

LEMMA SetsStay ==
  ASSUME EInv, RowsAreKept
  PROVE  /\ \A s \in DOMAIN sets : /\ s \in DOMAIN sets' /\ sets'[s] = sets[s]
                                   /\ Bands(s)' = Bands(s) /\ SetCohort(s)' = SetCohort(s)
                                   /\ CardOf(s)' = CardOf(s)
         /\ \A s, j \in DOMAIN sets : SameEvent(s, j)' = SameEvent(s, j)
         /\ \A p \in DOMAIN plans : plans'[p] = plans[p] /\ PlanCohort(p)' = PlanCohort(p)
<1>1. \A s \in DOMAIN sets : s \in DOMAIN sets' /\ sets'[s] = sets[s]
  BY DEF RowsAreKept, Kept
<1>2. \A p \in DOMAIN plans : plans'[p] = plans[p] /\ plans[p].target \in DOMAIN sets
  BY DEF RowsAreKept, Kept, EInv, References
<1> QED BY <1>1, <1>2 DEF Bands, SetCohort, CardOf, SameEvent, PlanCohort

LEMMA ResultsStay ==
  ASSUME EInv, RowsAreKept, NEW cases, cases \subseteq DOMAIN outcomes
  PROVE  GoodCases(cases)' = GoodCases(cases) /\ Gain(cases)' = Gain(cases)
<1>1. \A i \in cases : outcomes'[i] = outcomes[i] /\ Realized(outcomes[i])' = Realized(outcomes[i])
  <2>1. \A i \in cases : outcomes'[i] = outcomes[i] /\ outcomes[i].set \in DOMAIN sets
    BY DEF RowsAreKept, Kept, EInv, References
  <2> QED BY <2>1, SetsStay DEF Realized
<1>2. GoodCases(cases)' = GoodCases(cases)
  BY <1>1 DEF GoodCases
<1>3. [i \in cases |-> Realized(outcomes[i]).gain]' = [i \in cases |-> Realized(outcomes[i]).gain]
  BY <1>1
<1>4. Gain(cases)' = Gain(cases)
  BY <1>3 DEF Gain
<1> QED BY <1>2, <1>4

LEMMA RecommendationStays ==
  ASSUME EInv, RowsAreKept, NEW e \in DOMAIN evaluations
  PROVE  /\ Recommended(evaluations[e].lineage)' = Recommended(evaluations[e].lineage)
         /\ evaluations'[e] = evaluations[e]
<1> DEFINE l == evaluations[e].lineage
<1>1. /\ evaluations'[e] = evaluations[e] /\ l.set \in DOMAIN sets
      /\ snapshots'[l.snapshot] = snapshots[l.snapshot]
      /\ contexts'[l.context] = contexts[l.context]
  BY DEF RowsAreKept, Kept, EInv, References
<1>2. Bands(l.set)' = Bands(l.set)
  BY <1>1, SetsStay
<1> QED BY <1>1, <1>2 DEF Recommended, Qualified

-----------------------------------------------------------------------------
(* Outcomes.                                                                 *)

LEMMA CasesKept ==
  ASSUME EInv, EligibleBacked, LedgerFollowsVersions, QualifiedEntered, [Next]_vars
  PROVE  LedgerFollowsVersions' /\ QualifiedEntered'
<1>k. RowsAreKept /\ EInv' /\ TypeOK /\ TypeOK' /\ References
  BY EInvKept DEF EInv
<1>t. outcomes \in Seq(Outcomes) /\ sets \in Seq(ScenarioSets)
  BY <1>k DEF TypeOK
<1>d. /\ \A s \in DOMAIN sets : s \in Nat
      /\ \A i \in DOMAIN outcomes : outcomes[i].set \in DOMAIN sets /\ outcomes'[i] = outcomes[i]
  <2>1. \A s \in DOMAIN sets : s \in Nat
    BY <1>k, Rows DEF TypeOK, Id
  <2>2. \A i \in DOMAIN outcomes : outcomes[i].set \in DOMAIN sets /\ outcomes'[i] = outcomes[i]
    BY <1>k DEF References, RowsAreKept, Kept
  <2> QED BY <2>1, <2>2
<1>q. \A i \in DOMAIN outcomes : outcomes'[i].qualified => Entered(i)'
  <2> SUFFICES ASSUME NEW i \in DOMAIN outcomes, outcomes[i].qualified
      PROVE Entered(i)'
    BY <1>d
  <2>1. PICK x \in DOMAIN contexts : /\ contexts[x].card = CardOf(outcomes[i].set)
                                     /\ contexts[x].known < outcomes[i].traded
                                     /\ contexts[x].quote.passes
    BY DEF QualifiedEntered, Entered
  <2>2. x \in DOMAIN contexts' /\ contexts'[x] = contexts[x]
    BY <1>k DEF RowsAreKept, Kept
  <2>3. outcomes'[i] = outcomes[i] /\ CardOf(outcomes[i].set)' = CardOf(outcomes[i].set)
    BY <1>k, <1>d, SetsStay
  <2> QED BY <2>1, <2>2, <2>3 DEF Entered
<1>o. \A i, j \in DOMAIN outcomes :
        i < j /\ SameEvent(outcomes[i].set, outcomes[j].set)'
        => outcomes'[i].set < outcomes'[j].set
  <2> SUFFICES ASSUME NEW i \in DOMAIN outcomes, NEW j \in DOMAIN outcomes, i < j,
                      SameEvent(outcomes[i].set, outcomes[j].set)'
      PROVE outcomes[i].set < outcomes[j].set
    BY <1>d
  <2>1. SameEvent(outcomes[i].set, outcomes[j].set)
    BY <1>k, <1>d, SetsStay DEF SameEvent
  <2> QED BY <2>1 DEF LedgerFollowsVersions
<1>1. CASE outcomes' = outcomes
  BY <1>1, <1>q, <1>o DEF LedgerFollowsVersions, QualifiedEntered
<1>2. CASE OutcomeAdded
  <2>1. PICK r : OutcomeRecorded(r)
    BY <1>k, <1>2, OutcomeRow
  <2>2. sets' = sets /\ contexts' = contexts
    BY <1>2, Untouched
  <2> DEFINE k == Len(outcomes) + 1
  <2>3. \A i \in DOMAIN outcomes' :
          \/ i \in DOMAIN outcomes /\ outcomes'[i] = outcomes[i] /\ i < k
          \/ i = k /\ outcomes'[i] = r
    <3>1. r \in Outcomes /\ outcomes' = Append(outcomes, r)
      BY <2>1 DEF OutcomeRecorded
    <3> QED BY <1>t, <3>1, OldOrNew
  <2>4. k \in Nat /\ \A i \in DOMAIN outcomes : i \in Nat
    BY <1>t
  <2> HIDE DEF k
  <2>5. \A i \in DOMAIN outcomes : SameEvent(outcomes[i].set, r.set) => outcomes[i].set < r.set
    <3> SUFFICES ASSUME NEW i \in DOMAIN outcomes, SameEvent(outcomes[i].set, r.set)
        PROVE outcomes[i].set < r.set
      OBVIOUS
    <3>1. outcomes[i].set <= r.set /\ outcomes[i].set # r.set /\ r.set \in DOMAIN sets
      BY <1>d, <2>1 DEF OutcomeRecorded, Newest, SameEvent
    <3> QED BY <1>d, <3>1
  <2>6. LedgerFollowsVersions'
    <3> SUFFICES ASSUME NEW i \in DOMAIN outcomes', NEW j \in DOMAIN outcomes', i < j,
                        SameEvent(outcomes[i].set, outcomes[j].set)'
        PROVE outcomes'[i].set < outcomes'[j].set
      BY DEF LedgerFollowsVersions
    <3>1. CASE i \in DOMAIN outcomes /\ j \in DOMAIN outcomes
      BY <3>1, <1>o
    <3>2. CASE i \in DOMAIN outcomes /\ outcomes'[j] = r
      BY <3>2, <1>d, <2>2, <2>5 DEF SameEvent
    <3>3. CASE i = k
      BY <3>3, <2>3, <2>4
    <3> QED BY <2>3, <3>1, <3>2, <3>3
  <2>7. QualifiedEntered'
    <3> SUFFICES ASSUME NEW i \in DOMAIN outcomes', outcomes'[i].qualified PROVE Entered(i)'
      BY DEF QualifiedEntered
    <3>1. CASE i \in DOMAIN outcomes
      BY <3>1, <1>q
    <3>2. CASE outcomes'[i] = r
      BY <2>1, <2>2, <3>2 DEF OutcomeRecorded, Entered, CardOf
    <3> QED BY <2>3, <3>1, <3>2
  <2> QED BY <2>6, <2>7
<1> QED BY <1>1, <1>2, TableSteps

-----------------------------------------------------------------------------
(* Observations.                                                             *)

LEMMA ExitsKept ==
  ASSUME EInv, EligibleBacked, ExitMeansDead, ExitReviewIsFinal, [Next]_vars
  PROVE  ExitMeansDead' /\ ExitReviewIsFinal'
<1>k. /\ RowsAreKept /\ TypeOK /\ dead \subseteq dead'
      /\ \A i \in DOMAIN observations :
           /\ observations[i].set \in DOMAIN sets
           /\ CardOf(observations[i].set)' = CardOf(observations[i].set)
  <2>1. RowsAreKept /\ TypeOK /\ dead \subseteq dead'
    BY EInvKept, ClockStep DEF EInv
  <2>2. \A i \in DOMAIN observations :
          observations[i].set \in DOMAIN sets /\ observations'[i] = observations[i]
    BY <2>1 DEF EInv, References, RowsAreKept, Kept
  <2>3. \A s \in DOMAIN sets : sets'[s] = sets[s]
    BY <2>1 DEF RowsAreKept, Kept
  <2> QED BY <2>1, <2>2, <2>3 DEF CardOf
<1>1. CASE observations' = observations
  BY <1>1, <1>k DEF ExitMeansDead, ExitReviewIsFinal
<1>2. CASE Observed
  <2>1. PICK s \in DOMAIN sets, t \in Times, q \in Quotes : Observe(s, t, q)
    BY <1>2 DEF Observed
  <2> DEFINE r == [set |-> s, known |-> t, action |-> ObservedAction(s, q)]
             k == Len(observations) + 1
  <2>2. r \in Observations /\ r.set = s /\ (r.action = "EXIT_REVIEW" <=> CardOf(s) \in dead)
    BY <1>k, <2>1, ObservationRow
  <2>3. observations' = Append(observations, r) /\ sets' = sets /\ dead' = dead
    BY <2>1 DEF Observe
  <2> HIDE DEF r
  <2>4. /\ \A i \in DOMAIN observations' :
             \/ i \in DOMAIN observations /\ observations'[i] = observations[i] /\ i < k
             \/ i = k /\ observations'[i] = r
        /\ k \in Nat /\ \A i \in DOMAIN observations : i \in Nat
    <3>1. observations \in Seq(Observations)
      BY <1>k DEF TypeOK
    <3>2. k \in Nat /\ \A i \in DOMAIN observations : i \in Nat
      BY <3>1
    <3> QED BY <2>2, <2>3, <3>1, <3>2, OldOrNew
  <2> HIDE DEF k
  <2>5. ExitMeansDead'
    BY <2>2, <2>3, <2>4 DEF ExitMeansDead, CardOf
  <2>6. ExitReviewIsFinal'
    <3> SUFFICES ASSUME NEW i \in DOMAIN observations', NEW j \in DOMAIN observations', i < j,
                        CardOf(observations'[i].set) = CardOf(observations'[j].set),
                        observations'[i].action = "EXIT_REVIEW"
        PROVE observations'[j].action = "EXIT_REVIEW"
      BY <2>3 DEF ExitReviewIsFinal, CardOf
    <3>1. i \in DOMAIN observations /\ observations'[i] = observations[i]
      BY <2>4
    <3>2. CASE j \in DOMAIN observations /\ observations'[j] = observations[j]
      BY <3>1, <3>2 DEF ExitReviewIsFinal
    <3>3. CASE observations'[j] = r
      BY <3>1, <3>3, <2>2 DEF ExitMeansDead
    <3> QED BY <2>4, <3>2, <3>3
  <2> QED BY <2>5, <2>6
<1> QED BY <1>1, <1>2, TableSteps

-----------------------------------------------------------------------------
(* Snapshots.                                                                *)

SnapshotTaken(r) ==
  /\ r \in Snapshots /\ snapshots' = Append(snapshots, r)
  /\ r.plan \in DOMAIN plans /\ r.cases = Selected(r.plan) /\ r.oos = Oos(r.plan)
  /\ (r.bound = BoundReached(r.oos)) /\ (r.eligible = Eligible(r.plan))
  /\ \A i \in r.cases : FrozenBefore(r.plan, i)

LEMMA SnapshotFacts ==
  ASSUME TypeOK, SnapshotAdded
  PROVE  \E r : SnapshotTaken(r)
<1>1. PICK p \in DOMAIN plans : CreateSnapshot(p)
  BY DEF SnapshotAdded
<1> DEFINE r == [plan |-> p, cases |-> Selected(p), oos |-> Oos(p),
                 bound |-> BoundReached(Oos(p)), eligible |-> Eligible(p)]
<1>2. r \in Snapshots /\ r.plan = p /\ r.cases = Selected(p) /\ r.oos = Oos(p)
      /\ (r.bound = BoundReached(Oos(p))) /\ (r.eligible = Eligible(p))
  BY SnapshotRow
<1>3. snapshots' = Append(snapshots, r)
  BY <1>1 DEF CreateSnapshot
<1> HIDE DEF r
<1>4. SnapshotTaken(r)
  BY <1>1, <1>2, <1>3 DEF CreateSnapshot, SnapshotTaken
<1> QED BY <1>4

(* What holds of a case and a plan stays. *)
LEMMA WindowsStay ==
  ASSUME EInv, RowsAreKept, NEW p \in DOMAIN plans, NEW i \in DOMAIN outcomes
  PROVE  /\ InWindow(p, i)' <=> InWindow(p, i)
         /\ FrozenBefore(p, i)' <=> FrozenBefore(p, i)
<1>1. outcomes'[i] = outcomes[i] /\ outcomes[i].set \in DOMAIN sets /\ plans'[p] = plans[p]
  BY DEF RowsAreKept, Kept, EInv, References
<1>2. /\ SetCohort(outcomes[i].set)' = SetCohort(outcomes[i].set)
      /\ PlanCohort(p)' = PlanCohort(p)
  BY <1>1, SetsStay
<1> QED BY <1>1, <1>2 DEF InWindow, FrozenBefore

LEMMA SnapshotsKept ==
  ASSUME EInv, EligibleBacked, CasesBelong, CasesNeverDropOut, [Next]_vars
  PROVE  EligibleBacked' /\ CasesBelong' /\ CasesNeverDropOut'
<1>k. RowsAreKept /\ TypeOK
  BY EInvKept DEF EInv
<1>r. \A n \in DOMAIN snapshots :
        /\ snapshots'[n] = snapshots[n] /\ snapshots[n].plan \in DOMAIN plans
        /\ snapshots[n].cases \subseteq DOMAIN outcomes
        /\ snapshots[n].oos \subseteq snapshots[n].cases
  BY <1>k DEF RowsAreKept, Kept, EInv, References
<1>p. /\ \A i \in DOMAIN outcomes : outcomes'[i] = outcomes[i]
      /\ \A p \in DOMAIN plans : plans'[p] = plans[p]
      /\ \A p \in DOMAIN plans : PlanCohort(p)' = PlanCohort(p)
  BY <1>k, SetsStay DEF RowsAreKept, Kept
<1>b. \A n \in DOMAIN snapshots : Backed(n) => Backed(n)'
  <2> SUFFICES ASSUME NEW n \in DOMAIN snapshots, Backed(n) PROVE Backed(n)'
    OBVIOUS
  <2> DEFINE oos == snapshots[n].oos
  <2>1. snapshots'[n] = snapshots[n] /\ oos \subseteq DOMAIN outcomes
    BY <1>r
  <2>2. GoodCases(oos)' = GoodCases(oos) /\ Gain(oos)' = Gain(oos)
    BY <1>k, <2>1, ResultsStay
  <2> QED BY <1>r, <1>p, <2>1, <2>2 DEF Backed
<1>e. \A n \in DOMAIN snapshots : snapshots'[n].eligible => snapshots'[n].bound /\ Backed(n)'
  BY <1>r, <1>p, <1>b DEF EligibleBacked
<1>c. \A n \in DOMAIN snapshots : \A i \in snapshots[n].cases :
        /\ InWindow(snapshots[n].plan, i)' /\ outcomes'[i].qualified
        /\ FrozenBefore(snapshots[n].plan, i)'
  <2> SUFFICES ASSUME NEW n \in DOMAIN snapshots, NEW i \in snapshots[n].cases
      PROVE  /\ InWindow(snapshots[n].plan, i)' /\ outcomes'[i].qualified
             /\ FrozenBefore(snapshots[n].plan, i)'
    OBVIOUS
  <2>1. snapshots[n].plan \in DOMAIN plans /\ i \in DOMAIN outcomes
    BY <1>r
  <2>2. /\ InWindow(snapshots[n].plan, i) /\ outcomes[i].qualified
        /\ FrozenBefore(snapshots[n].plan, i)
    BY DEF CasesBelong
  <2>3. PICK p : p = snapshots[n].plan
    OBVIOUS
  <2>4. InWindow(p, i)' /\ FrozenBefore(p, i)'
    BY <1>k, <2>1, <2>2, <2>3, WindowsStay
  <2>5. snapshots'[n].plan = p /\ outcomes'[i].qualified
    BY <1>r, <1>p, <2>1, <2>2, <2>3
  <2> QED BY <2>4, <2>5 DEF InWindow, FrozenBefore
<1>1. CASE snapshots' = snapshots
  <2>1. CasesNeverDropOut'
    BY <1>1, <1>r, <1>p DEF CasesNeverDropOut
  <2> QED BY <1>1, <1>e, <1>c, <2>1 DEF EligibleBacked, CasesBelong
<1>2. CASE SnapshotAdded
  <2>1. PICK r : SnapshotTaken(r)
    BY <1>k, <1>2, SnapshotFacts
  <2>2. outcomes' = outcomes /\ plans' = plans /\ sets' = sets
    BY <1>2, Untouched
  <2> DEFINE k == Len(snapshots) + 1
  <2>3. /\ \A n \in DOMAIN snapshots' :
             \/ n \in DOMAIN snapshots /\ snapshots'[n] = snapshots[n] /\ n < k
             \/ n = k /\ snapshots'[n] = r
        /\ k \in Nat /\ \A n \in DOMAIN snapshots : n \in Nat
    <3>1. snapshots \in Seq(Snapshots)
      BY <1>k DEF TypeOK
    <3>2. r \in Snapshots /\ snapshots' = Append(snapshots, r)
      BY <2>1 DEF SnapshotTaken
    <3>3. k \in Nat /\ \A n \in DOMAIN snapshots : n \in Nat
      BY <3>1
    <3> QED BY <3>1, <3>2, <3>3, OldOrNew
  <2> HIDE DEF k
  <2>4. r.plan \in DOMAIN plans /\ r.cases \subseteq DOMAIN outcomes /\ r.oos \subseteq r.cases
    BY <1>k, <2>1, SnapshotRow DEF SnapshotTaken
  <2>5. \A i \in r.cases : /\ InWindow(r.plan, i)' /\ outcomes'[i].qualified
                           /\ FrozenBefore(r.plan, i)'
    <3>1. \A i \in r.cases : InWindow(r.plan, i) /\ outcomes[i].qualified
                             /\ FrozenBefore(r.plan, i)
      BY <2>1 DEF SnapshotTaken, Selected
    <3> QED BY <1>k, <1>p, <2>4, <3>1, WindowsStay
  <2>6. ASSUME NEW n \in DOMAIN snapshots', snapshots'[n] = r, r.eligible
        PROVE  r.bound /\ Backed(n)'
    <3>1. /\ Cardinality(r.oos) >= MinOos /\ BoundReached(r.oos) /\ Gain(r.oos) > 0
      BY <2>1, <2>6 DEF SnapshotTaken, Eligible
    <3>2. 2 * Cardinality(GoodCases(r.oos)) >= Cardinality(r.oos)
      BY <3>1 DEF BoundReached, LowerBoundAtHalf
    <3>3. \A i \in r.oos : outcomes[i].qualified /\ outcomes[i].set # plans[r.plan].target
      BY <2>1 DEF SnapshotTaken, Oos, Selected, InWindow
    <3>4. GoodCases(r.oos)' = GoodCases(r.oos) /\ Gain(r.oos)' = Gain(r.oos)
      BY <1>k, <2>4, ResultsStay
    <3>5. r.bound
      BY <2>1, <3>1 DEF SnapshotTaken
    <3> QED BY <2>2, <2>6, <3>1, <3>2, <3>3, <3>4, <3>5 DEF Backed
  <2>7. EligibleBacked'
    BY <1>e, <2>3, <2>6 DEF EligibleBacked
  <2>8. CasesBelong'
    <3> SUFFICES ASSUME NEW n \in DOMAIN snapshots', NEW i \in snapshots'[n].cases
        PROVE  /\ InWindow(snapshots[n].plan, i)' /\ outcomes'[i].qualified
               /\ FrozenBefore(snapshots[n].plan, i)'
      BY DEF CasesBelong
    <3>1. CASE n \in DOMAIN snapshots /\ snapshots'[n] = snapshots[n]
      BY <3>1, <1>c
    <3>2. CASE snapshots'[n] = r
      BY <3>2, <2>5
    <3> QED BY <2>3, <3>1, <3>2
  <2>9. CasesNeverDropOut'
    <3> SUFFICES ASSUME NEW m \in DOMAIN snapshots', NEW n \in DOMAIN snapshots', m < n,
                        PlanCohort(snapshots'[m].plan) = PlanCohort(snapshots'[n].plan),
                        plans[snapshots'[m].plan].window = plans[snapshots'[n].plan].window,
                        NEW i \in snapshots'[m].cases,
                        outcomes[i].set # plans[snapshots'[n].plan].target
        PROVE  i \in snapshots'[n].cases
      BY <2>2 DEF CasesNeverDropOut, PlanCohort, SetCohort
    <3>1. m \in DOMAIN snapshots /\ snapshots'[m] = snapshots[m]
      BY <2>3
    <3>2. snapshots'[m].plan \in DOMAIN plans /\ i \in DOMAIN outcomes
      BY <3>1, <1>r
    <3>3. CASE n \in DOMAIN snapshots /\ snapshots'[n] = snapshots[n]
      <4>1. PlanCohort(snapshots[m].plan) = PlanCohort(snapshots[n].plan)
        BY <1>r, <1>p, <3>1, <3>3
      <4> QED BY <3>1, <3>3, <4>1 DEF CasesNeverDropOut
    <3>4. CASE snapshots'[n] = r
      <4>1. InWindow(snapshots[m].plan, i) /\ outcomes[i].qualified
        BY <3>1 DEF CasesBelong
      <4>2. PlanCohort(snapshots[m].plan) = PlanCohort(r.plan)
        BY <1>p, <2>4, <3>1, <3>2, <3>4
      <4>3. InWindow(r.plan, i)
        BY <3>1, <3>4, <4>1, <4>2 DEF InWindow
      <4>4. r.cases = Selected(r.plan)
        BY <2>1 DEF SnapshotTaken
      <4> QED BY <3>2, <3>4, <4>1, <4>3, <4>4 DEF Selected
    <3> QED BY <2>3, <3>3, <3>4
  <2> QED BY <2>7, <2>8, <2>9
<1> QED BY <1>1, <1>2, TableSteps

-----------------------------------------------------------------------------
(* What was in the ledger before a plan.                                     *)

LEMMA FrozenIsNat ==
  ASSUME TypeOK
  PROVE  clock \in Nat /\ \A p \in DOMAIN plans : plans[p].frozen \in Nat
<1>1. MaxClock \in Nat
  BY ScenarioBounds
<1>2. Times \subseteq Nat
  BY <1>1 DEF Times
<1>3. plans \in Seq(Plans) /\ clock \in Times
  BY DEF TypeOK
<1>4. \A p \in DOMAIN plans : plans[p] \in Plans
  BY <1>3, Rows
<1>5. \A r \in Plans : r.frozen \in Times
  BY DEF Plans
<1> QED BY <1>2, <1>3, <1>4, <1>5

LEMMA PlansPastKept ==
  ASSUME EInv, EligibleBacked, PlansPast, [Next]_vars
  PROVE  PlansPast'
<1>k. TypeOK /\ RowsAreKept
  BY EInvKept DEF EInv
<1>1. clock <= clock' /\ clock \in Nat /\ clock' \in Nat
  BY <1>k, ClockStep
<1>2. \A p \in DOMAIN plans : plans[p].frozen \in Nat
  BY <1>k, FrozenIsNat
<1>3. \A p \in DOMAIN plans : plans'[p].frozen <= clock'
  BY <1>k, <1>1, <1>2 DEF PlansPast, RowsAreKept, Kept
<1>4. CASE plans' = plans
  BY <1>3, <1>4 DEF PlansPast
<1>5. CASE PlanAdded
  <2>1. PICK s \in DOMAIN sets, w \in Windows, h \in Holdouts : CreatePlan(s, w, h)
    BY <1>5 DEF PlanAdded
  <2> DEFINE r == [target |-> s, frozen |-> clock, window |-> w, holdout |-> h]
  <2>2. r \in Plans /\ r.frozen = clock
    BY <1>k, PlanRow
  <2>3. plans' = Append(plans, r)
    BY <2>1 DEF CreatePlan
  <2> HIDE DEF r
  <2>4. \A p \in DOMAIN plans' : p \in DOMAIN plans \/ plans'[p] = r
    BY <1>k, <2>2, <2>3, OldOrNew DEF TypeOK
  <2> QED BY <1>1, <1>3, <2>2, <2>4 DEF PlansPast
<1> QED BY <1>4, <1>5, TableSteps

LEMMA NoneLeftOutKept ==
  ASSUME EInv, EligibleBacked, PlansPast, NoneLeftOut, [Next]_vars
  PROVE  NoneLeftOut'
<1>k. RowsAreKept /\ TypeOK /\ References
  BY EInvKept DEF EInv
<1>1. /\ \A n \in DOMAIN snapshots : /\ snapshots'[n] = snapshots[n]
                                     /\ snapshots[n].plan \in DOMAIN plans
      /\ \A i \in DOMAIN outcomes : outcomes'[i] = outcomes[i]
      /\ \A p \in DOMAIN plans : plans'[p] = plans[p]
  BY <1>k DEF RowsAreKept, Kept, References
<1> SUFFICES ASSUME NEW n \in DOMAIN snapshots', NEW i \in DOMAIN outcomes',
                    InWindow(snapshots[n].plan, i)', outcomes'[i].qualified,
                    outcomes'[i].created < plans'[snapshots'[n].plan].frozen
    PROVE i \in snapshots'[n].cases
  BY DEF NoneLeftOut
<1>2. CASE n \in DOMAIN snapshots /\ i \in DOMAIN outcomes
  <2>1. PICK p \in DOMAIN plans : p = snapshots[n].plan /\ p = snapshots'[n].plan
    BY <1>1, <1>2
  <2>2. InWindow(p, i)'
    BY <2>1 DEF InWindow
  <2>3. InWindow(snapshots[n].plan, i)
    BY <1>k, <1>2, <2>1, <2>2, WindowsStay
  <2> QED BY <1>1, <1>2, <2>1, <2>3 DEF NoneLeftOut
<1>3. CASE n \in DOMAIN snapshots /\ i \notin DOMAIN outcomes
  <2>1. OutcomeAdded
    BY <1>3, TableSteps
  <2>2. PICK r : OutcomeRecorded(r)
    BY <1>k, <2>1, OutcomeRow
  <2>3. r \in Outcomes /\ outcomes' = Append(outcomes, r) /\ r.created = clock
    BY <2>2 DEF OutcomeRecorded
  <2>4. outcomes'[i].created = clock
    BY <1>k, <1>3, <2>3, OldOrNew DEF TypeOK
  <2>5. plans'[snapshots'[n].plan].frozen <= clock
    BY <1>1, <1>3 DEF PlansPast
  <2>6. plans'[snapshots'[n].plan].frozen \in Nat /\ clock \in Nat
    BY <1>k, <1>1, <1>3, FrozenIsNat
  <2> QED BY <2>4, <2>5, <2>6
<1>4. CASE n \notin DOMAIN snapshots
  <2>1. SnapshotAdded
    BY <1>4, TableSteps
  <2>2. PICK r : SnapshotTaken(r)
    BY <1>k, <2>1, SnapshotFacts
  <2>3. r \in Snapshots /\ snapshots' = Append(snapshots, r) /\ r.cases = Selected(r.plan)
        /\ r.plan \in DOMAIN plans
    BY <2>2 DEF SnapshotTaken
  <2>4. snapshots'[n] = r
    BY <1>k, <1>4, <2>3, OldOrNew DEF TypeOK
  <2>5. outcomes' = outcomes
    BY <2>1, Untouched
  <2>6. InWindow(r.plan, i)'
    BY <2>4 DEF InWindow
  <2>7. InWindow(r.plan, i) /\ outcomes[i].qualified
    BY <1>k, <2>3, <2>5, <2>6, WindowsStay
  <2> QED BY <2>3, <2>4, <2>5, <2>7 DEF Selected
<1> QED BY <1>2, <1>3, <1>4

-----------------------------------------------------------------------------
(* Evaluations.                                                              *)

LEMMA EvaluationsKept ==
  ASSUME EInv, EligibleBacked, EvaluationFrozen, [Next]_vars
  PROVE  EvaluationFrozen'
<1>k. RowsAreKept /\ TypeOK /\ References
  BY EInvKept DEF EInv
<1>o. \A e \in DOMAIN evaluations :
        /\ evaluations'[e] = evaluations[e]
        /\ evaluations'[e].recommendation = Recommended(evaluations[e].lineage)'
        /\ plans'[snapshots'[evaluations[e].lineage.snapshot].plan].target
             = evaluations[e].lineage.set
  <2>1. \A e \in DOMAIN evaluations :
          /\ evaluations[e].lineage.snapshot \in DOMAIN snapshots
          /\ snapshots[evaluations[e].lineage.snapshot].plan \in DOMAIN plans
    BY <1>k DEF References
  <2>2. /\ \A n \in DOMAIN snapshots : snapshots'[n] = snapshots[n]
        /\ \A p \in DOMAIN plans : plans'[p] = plans[p]
    BY <1>k DEF RowsAreKept, Kept
  <2>3. \A e \in DOMAIN evaluations :
          /\ evaluations'[e] = evaluations[e]
          /\ Recommended(evaluations[e].lineage)' = Recommended(evaluations[e].lineage)
    BY <1>k, RecommendationStays
  <2> QED BY <2>1, <2>2, <2>3 DEF EvaluationFrozen
<1>1. CASE evaluations' = evaluations
  BY <1>1, <1>o DEF EvaluationFrozen
<1>2. CASE EvaluationAdded
  <2>1. PICK c \in Judged, n \in DOMAIN snapshots, s \in DOMAIN sets, x \in DOMAIN contexts :
          Evaluate(c, n, [card |-> c, set |-> s, context |-> x, snapshot |-> n,
                          dead |-> c \in dead])
    BY <1>2 DEF EvaluationAdded
  <2>2. PICK l : Evaluate(c, n, l) /\ l = [card |-> c, set |-> s, context |-> x,
                                           snapshot |-> n, dead |-> c \in dead]
    BY <2>1
  <2> DEFINE r == [lineage |-> l, recommendation |-> Recommended(l)]
  <2>3. r \in Evaluations /\ l.set = s /\ l.snapshot = n
    BY <1>k, <2>2, EvaluationRow
  <2>4. evaluations' = Append(evaluations, r) /\ plans[snapshots[n].plan].target = s
    BY <2>2, <2>3 DEF Evaluate, Asked
  <2>5. r.lineage = l /\ r.recommendation = Recommended(l)
    OBVIOUS
  <2> HIDE DEF r
  <2>6. \A e \in DOMAIN evaluations' : e \in DOMAIN evaluations \/ evaluations'[e] = r
    BY <1>k, <2>3, <2>4, OldOrNew DEF TypeOK
  <2>7. plans' = plans /\ snapshots' = snapshots /\ sets' = sets /\ contexts' = contexts
    BY <1>2, Untouched
  <2>8. Recommended(l)' = Recommended(l)
    BY <2>7 DEF Recommended, Qualified, Bands
  <2>9. /\ r.recommendation = Recommended(l)' /\ r.lineage = l
        /\ plans'[snapshots'[l.snapshot].plan].target = l.set
    BY <2>3, <2>4, <2>5, <2>7, <2>8
  <2>10. SUFFICES ASSUME NEW e \in DOMAIN evaluations'
                  PROVE  /\ evaluations'[e].recommendation
                              = Recommended(evaluations[e].lineage)'
                         /\ plans'[snapshots'[evaluations'[e].lineage.snapshot].plan].target
                              = evaluations'[e].lineage.set
    BY DEF EvaluationFrozen
  <2>11. CASE e \in DOMAIN evaluations
    BY <1>o, <2>11
  <2>12. CASE evaluations'[e] = r
    <3>1. Recommended(evaluations[e].lineage)' = Recommended(l)'
      BY <2>9, <2>12 DEF Recommended, Qualified, Bands
    <3> QED BY <2>9, <2>12, <3>1
  <2> QED BY <2>6, <2>11, <2>12
<1> QED BY <1>1, <1>2, TableSteps

-----------------------------------------------------------------------------
LEMMA EngineInvariance == Spec => []HInv
<1>1. Init => HInv
  <2> SUFFICES ASSUME Init PROVE HInv
    OBVIOUS
  <2>1. /\ sets = <<>> /\ observations = <<>> /\ contexts = <<>> /\ outcomes = <<>>
        /\ plans = <<>> /\ snapshots = <<>> /\ evaluations = <<>> /\ dead = {} /\ clock = 0
    BY DEF Init, ScenarioInit
  <2>2. TypeOK
    BY <2>1, ScenarioBounds DEF TypeOK, Times
  <2>3. References
    BY <2>1 DEF References
  <2>4. LedgerFollowsVersions /\ ExitMeansDead /\ ExitReviewIsFinal /\ QualifiedEntered
    BY <2>1 DEF LedgerFollowsVersions, ExitMeansDead, ExitReviewIsFinal, QualifiedEntered
  <2>5. EligibleBacked /\ EvaluationFrozen /\ CasesBelong /\ CasesNeverDropOut
    BY <2>1 DEF EligibleBacked, EvaluationFrozen, CasesBelong, CasesNeverDropOut
  <2>6. PlansPast /\ NoneLeftOut
    BY <2>1 DEF PlansPast, NoneLeftOut
  <2> QED BY <2>2, <2>3, <2>4, <2>5, <2>6 DEF HInv, EInv
<1>2. HInv /\ [Next]_vars => HInv'
  BY EInvKept, CasesKept, ExitsKept, SnapshotsKept, EvaluationsKept,
     PlansPastKept, NoneLeftOutKept DEF HInv
<1> QED BY <1>1, <1>2, PTL DEF Spec

\* Rows are well formed, and WATCH is never recommended: an eligible snapshot has
\* reached the lower bound (create_evaluation).
THEOREM EngineTypes == Spec => []TypeOK
<1>1. HInv => TypeOK
  BY DEF HInv, EInv
<1> QED BY <1>1, EngineInvariance, PTL

\* A plan frozen after a result of its windows was recorded, and after that result's bars
\* were known, never gets a snapshot, neither with nor without the case
\* (create_calibration_snapshot).
THEOREM CalibrationLooksBackOnly == Spec => []NoLookAhead
<1>1. HInv => NoLookAhead
  BY DEF HInv, NoneLeftOut, CasesBelong, FrozenBefore, NoLookAhead
<1> QED BY <1>1, EngineInvariance, PTL

\* A window tested again, under whatever holdout key, is tested on every case of the
\* earlier test (create_calibration_snapshot).
THEOREM RetestKeepsItsCases == Spec => []CasesNeverDropOut
<1>1. HInv => CasesNeverDropOut
  BY DEF HInv
<1> QED BY <1>1, EngineInvariance, PTL

\* Cases of one event enter the ledger in the order of its versions (record_outcome).
THEOREM SupersededStaysOut == Spec => []LedgerFollowsVersions
<1>1. HInv => LedgerFollowsVersions
  BY DEF HInv
<1> QED BY <1>1, EngineInvariance, PTL

\* After an exit review of a card every observation of it is one (observe).
THEOREM ExitStays == Spec => []ExitReviewIsFinal
<1>1. HInv => ExitReviewIsFinal
  BY DEF HInv
<1> QED BY <1>1, EngineInvariance, PTL

\* The answer a repeated request gets is the one it would be computed today
\* (create_evaluation).
THEOREM ReplaysAreCurrent == Spec => []AnswerIsCurrent
<1>1. HInv => AnswerIsCurrent
  BY DEF HInv, EvaluationFrozen, AnswerIsCurrent, SameLineage
<1> QED BY <1>1, EngineInvariance, PTL

\* A buy review rests on qualified out-of-sample cases of other sets, half of them
\* GOOD, that gained after costs (create_evaluation, create_calibration_snapshot).
THEOREM BuyReviewsAreBacked == Spec => []BuyReviewIsBacked
<1>1. HInv => BuyReviewIsBacked
  <2> SUFFICES ASSUME HInv, NEW e \in DOMAIN evaluations,
                      evaluations[e].recommendation = "BUY_REVIEW"
      PROVE /\ Cardinality(snapshots[evaluations[e].lineage.snapshot].oos) >= MinOos
            /\ 2 * Cardinality(GoodCases(snapshots[evaluations[e].lineage.snapshot].oos))
                 >= Cardinality(snapshots[evaluations[e].lineage.snapshot].oos)
            /\ Gain(snapshots[evaluations[e].lineage.snapshot].oos) > 0
            /\ \A i \in snapshots[evaluations[e].lineage.snapshot].oos :
                 outcomes[i].set # evaluations[e].lineage.set /\ Entered(i)
    BY Zenon DEF BuyReviewIsBacked, Entered
  <2> DEFINE l == evaluations[e].lineage
  <2>1. /\ Recommended(l) = "BUY_REVIEW" /\ plans[snapshots[l.snapshot].plan].target = l.set
        /\ l.snapshot \in DOMAIN snapshots
    BY DEF HInv, EInv, References, EvaluationFrozen
  <2>2. snapshots[l.snapshot].eligible
    BY <2>1 DEF Recommended
  <2>3. Backed(l.snapshot)
    BY <2>1, <2>2 DEF HInv, EligibleBacked
  <2>4. snapshots[l.snapshot].oos \subseteq DOMAIN outcomes
    BY <2>1 DEF HInv, EInv, References
  <2> QED BY <2>1, <2>3, <2>4 DEF Backed, HInv, QualifiedEntered
<1> QED BY <1>1, EngineInvariance, PTL
=============================================================================
