--------------------------- MODULE EventScenarios ---------------------------
(***************************************************************************)
(* Frozen scenario sets and the observations appended to them               *)
(* (event_scenarios.py).  The price bands a profile's calculator yields are *)
(* data here: create stores one of Forecasts.  A repeated idempotency key   *)
(* changes nothing, whether it is answered or refused, and has no step.     *)
(***************************************************************************)
EXTENDS Integers, Sequences, FiniteSets

CONSTANTS
  Cards,            \* decision cards
  Subjects,         \* what clients ask sets for: a card, the event identity they
                    \* give it, and the cohort of the event type and profile
  Forecasts,        \* what a calculation may yield: the label of the highest
                    \* prior, and a price band per label
  Quotes,           \* observations: status, price, and whether flows are strong
  MaxClock,         \* bound: last instant
  MaxSets,          \* bound: scenario sets
  MaxVersion,       \* bound: version a client names
  MaxObservations   \* bound: observations

Labels == {"BAD", "BASE", "GOOD"}
Times == 0..MaxClock

ASSUME SubjectAssumption ==
  \A u \in Subjects : DOMAIN u = {"card", "event", "cohort"} /\ u.card \in Cards
ASSUME ForecastAssumption ==
  Forecasts \subseteq [prior : Labels, bands : [Labels -> [low : Int, high : Int]]]
ASSUME QuoteAssumption ==
  Quotes \subseteq [verified : BOOLEAN, price : Int, strong : BOOLEAN]
ASSUME ScenarioBounds == {MaxClock, MaxSets, MaxVersion, MaxObservations} \subseteq Nat

VARIABLES
  clock,         \* now_kst()
  dead,          \* cards invalidated, themselves or through their evidence
  sets,          \* event_scenario_sets in insertion order
  observations   \* event_scenario_observations in insertion order

scenarioVars == <<clock, dead, sets, observations>>

ScenarioSets == [about : Subjects, version : 1..MaxVersion, frozen : Times,
                 forecast : Forecasts]
Actions == {"NO_ACTION", "WATCH", "ENTRY_REVIEW", "ADD_REVIEW",
            "REDUCE_REVIEW", "EXIT_REVIEW"}
Observations == [set : Nat \ {0}, known : Times, action : Actions]

InBand(price, band) == band.low <= price /\ price <= band.high

CardOf(s) == sets[s].about.card
Bands(s) == sets[s].forecast.bands

\* detail_by_event_identity: the last inserted set of the event.
SameEvent(i, j) == sets[i].about.event = sets[j].about.event
NewestAnyVersion(s) == TRUE     \* mutant: no ORDER BY id DESC
Newest(s) == \A j \in DOMAIN sets : SameEvent(s, j) => j <= s

-----------------------------------------------------------------------------
\* create: the client names the version; UNIQUE(card_id, event_identity, version).
CreateScenarioSet(u, v, f) ==
  /\ Len(sets) < MaxSets
  /\ u.card \notin dead
  /\ \A i \in DOMAIN sets :
       <<CardOf(i), sets[i].about.event, sets[i].version>> # <<u.card, u.event, v>>
  /\ sets' = Append(sets, [about |-> u, version |-> v, frozen |-> clock,
                           forecast |-> f])
  /\ UNCHANGED <<clock, dead, observations>>

\* The first label, in the order BAD BASE GOOD, whose band holds the price.
Matched(bands, price) ==
  IF InBand(price, bands["BAD"]) THEN "BAD"
  ELSE IF InBand(price, bands["BASE"]) THEN "BASE"
  ELSE IF InBand(price, bands["GOOD"]) THEN "GOOD" ELSE "none"

ActionOfMatch(match, strong) ==
  CASE match = "BAD" -> "REDUCE_REVIEW"
    [] match = "BASE" -> "WATCH"
    [] match = "GOOD" -> IF strong THEN "ADD_REVIEW" ELSE "ENTRY_REVIEW"
    [] OTHER -> "NO_ACTION"

ObservedActionStatusFirst(s, q) ==    \* mutant: an unverified quote is seen first
  IF ~q.verified THEN "NO_ACTION"
  ELSE IF CardOf(s) \in dead THEN "EXIT_REVIEW"
  ELSE ActionOfMatch(Matched(Bands(s), q.price), q.strong)
ObservedAction(s, q) ==
  IF CardOf(s) \in dead THEN "EXIT_REVIEW"
  ELSE IF ~q.verified THEN "NO_ACTION"
  ELSE ActionOfMatch(Matched(Bands(s), q.price), q.strong)

Observe(s, known, q) ==
  /\ Len(observations) < MaxObservations
  /\ Newest(s)
  /\ sets[s].frozen <= known /\ known <= clock
  /\ \A i \in DOMAIN observations : observations[i].set = s => observations[i].known < known
  /\ observations' = Append(observations,
                       [set |-> s, known |-> known, action |-> ObservedAction(s, q)])
  /\ UNCHANGED <<clock, dead, sets>>

\* mutate_evidence, or save_card replacing the card: invalidated_at is never cleared.
Invalidate(c) ==
  /\ c \notin dead
  /\ dead' = dead \cup {c}
  /\ UNCHANGED <<clock, sets, observations>>

Pass ==
  /\ clock < MaxClock
  /\ clock' = clock + 1
  /\ UNCHANGED <<dead, sets, observations>>

ScenarioInit ==
  /\ clock = 0
  /\ dead = {}
  /\ sets = <<>>
  /\ observations = <<>>

-----------------------------------------------------------------------------
\* Once the thesis of a card is gone, every observation stored later says so,
\* whatever the quote is worth and whichever of the card's events it is of.  (A
\* repeated key is answered with the action stored when it first came.)
ExitReviewIsFinal ==
  \A i, j \in DOMAIN observations :
    (/\ i < j
     /\ CardOf(observations[i].set) = CardOf(observations[j].set)
     /\ observations[i].action = "EXIT_REVIEW")
    => observations[j].action = "EXIT_REVIEW"
=============================================================================
