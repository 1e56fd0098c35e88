--------------------------- MODULE FilterLineage ---------------------------
(***************************************************************************)
(* Evidence, the append-only lineage of its filter results, the decision   *)
(* cards generated from them and their conditional scenario sets:          *)
(* decision_cards.py and conditional_scenarios.py, up to the published     *)
(* card OrderPlan starts from.                                             *)
(*                                                                         *)
(* Every handler modelled here takes the database write lock before its    *)
(* first read (BEGIN IMMEDIATE, or an UPDATE as first statement), so each  *)
(* is one step also when two of them run in different threads.             *)
(*                                                                         *)
(* Abstractions.  A scope stands for the pair (as_of, known_at); the       *)
(* chronology checks that refuse a request do not depend on the lineage.   *)
(* An input stands for a canonical JSON body and its hash.  A card keeps   *)
(* whether its conditional scenario set can be built from its own text     *)
(* ("none" if not) and whether it has been stored ("frozen").              *)
(***************************************************************************)
EXTENDS Integers, Sequences, FiniteSetsExt

CONSTANTS
  Evidence,
  Scopes,
  Inputs,
  LineageKeys,     \* lineage_key is given by the caller of save_card
  MaxVersion,      \* bound: evidence version
  MaxBump,         \* bound: material fields in one PATCH
  MaxFilters,      \* bound: rows of deterministic_filter_results
  MaxCards         \* bound: rows of decision_cards

ASSUME LineageBounds ==
  /\ MaxVersion \in Nat \ {0} /\ MaxBump \in Nat
  /\ MaxFilters \in Nat /\ MaxCards \in Nat

VARIABLES
  status,    \* material_evidence.status, "absent" when there is no row
  version,   \* material_evidence.version
  filters,   \* deterministic_filter_results in insertion order
  cards      \* decision_cards in insertion order

vars == <<status, version, filters, cards>>

(* "new" stands for error too, "card_generated" for decision_pending:     *)
(* no handler tells the two of a pair apart.                              *)
Statuses       == {"new", "card_generated", "invalidated"}
ScenarioStates == {"none", "possible", "frozen"}

Filter == [ev : Evidence, version : Nat, scope : Scopes, input : Inputs,
           line : Nat, parent : Nat]       \* parent 0: no parent
Card   == [ev : Evidence, filter : Nat, key : LineageKeys, version : Nat,
           scenario : ScenarioStates, live : BOOLEAN]

Init ==
  /\ status  = [e \in Evidence |-> "absent"]
  /\ version = [e \in Evidence |-> 1]
  /\ filters = <<>>
  /\ cards   = <<>>

-----------------------------------------------------------------------------
(* create_evidence *)
CreateEvidence(e) ==
  /\ status[e] = "absent"
  /\ status' = [status EXCEPT ![e] = "new"]
  /\ UNCHANGED <<version, filters, cards>>

(* invalidate_lineage: the listed cards are dead for good. *)
Invalidated(S) ==
  [c \in DOMAIN cards |-> [cards[c] EXCEPT !.live = @ /\ c \notin S]]

CardsOf(e)      == {c \in DOMAIN cards : cards[c].ev = e}
CardsOfKey(k)   == {c \in DOMAIN cards : cards[c].key = k}

RevokesOnlyInvalidation(st, n) == st = "invalidated"     \* mutant: forgets a changed field
RevokesEntry(st, n) == st = "invalidated" \/ n > 0

(* mutate_evidence: a new status ("keep": none given) and n material      *)
(* fields.  Each counts one version; a status alone also brings an        *)
(* invalidated evidence back.                                             *)
MutateEvidence(e, st, n) ==
  LET bump == n + IF st = "invalidated" THEN 1 ELSE 0
  IN  /\ status[e] # "absent"
      /\ st # "keep" \/ n > 0
      /\ version[e] + bump <= MaxVersion
      /\ status'  = [status EXCEPT ![e] = IF st = "keep" THEN @ ELSE st]
      /\ version' = [version EXCEPT ![e] = @ + bump]
      /\ cards'   = IF RevokesEntry(st, n) THEN Invalidated(CardsOf(e)) ELSE cards
      /\ UNCHANGED filters

-----------------------------------------------------------------------------
(* Filter results of one evidence, scope and evidence version. *)

Scope(e, s, v) ==
  {f \in DOMAIN filters : filters[f].ev = e /\ filters[f].scope = s /\ filters[f].version = v}

Childless(f) == \A g \in DOMAIN filters : filters[g].parent # f
Heads(e, s, v) == {f \in Scope(e, s, v) : Childless(f)}
LinesOf(F) == {filters[f].line : f \in F}

Exact(e, s, v, i) == \E f \in Scope(e, s, v) : filters[f].input = i

(* Mutant: any row of the scope may be named, superseded or not. *)
NamesAnyRow(e, s, v, p) == IF Scope(e, s, v) = {} THEN p = 0 ELSE p \in Scope(e, s, v)

(* The parent a request must name: none for the first row, else the head. *)
NamesHead(e, s, v, p) ==
  LET heads == Heads(e, s, v)
  IN  IF heads = {} THEN p = 0
      ELSE p \in heads /\ filters[p].line = Max(LinesOf(heads))

NextLine(p) == IF p = 0 THEN 1 ELSE filters[p].line + 1

(* save_filter.  An exact retry is answered with the stored row, another  *)
(* parent than the head is refused: neither writes.  The status of the    *)
(* evidence is not looked at.                                             *)
SaveFilter(e, s, i, p) ==
  /\ status[e] # "absent"
  /\ Len(filters) < MaxFilters
  /\ ~Exact(e, s, version[e], i)
  /\ NamesHead(e, s, version[e], p)
  /\ filters' = Append(filters, [ev |-> e, version |-> version[e], scope |-> s,
                                 input |-> i, line |-> NextLine(p), parent |-> p])
  /\ UNCHANGED <<status, version, cards>>

-----------------------------------------------------------------------------
NextCardVersion(k) == Max({0} \cup {cards[c].version : c \in CardsOfKey(k)}) + 1

ReplacedOfEvidence(e, k) == CardsOf(e) \cap CardsOfKey(k)         \* mutant: same evidence only
Replaced(e, k) == CardsOfKey(k)

(* save_card: revokes the lineage, stores the card, marks the evidence    *)
(* and stores the card's scenario set ("possible": the verdict is neither *)
(* hold nor buy review, the set is not stored with the card).             *)
SaveCard(f, k, sc) ==
  LET e == filters[f].ev
  IN  /\ Len(cards) < MaxCards
      /\ status[e] # "invalidated"
      /\ filters[f].version = version[e]
      /\ Childless(f)
      /\ cards' = Append(Invalidated(Replaced(e, k)),
                         [ev |-> e, filter |-> f, key |-> k,
                          version |-> NextCardVersion(k), scenario |-> sc, live |-> TRUE])
      /\ status' = [status EXCEPT ![e] = "card_generated"]
      /\ UNCHANGED <<version, filters>>

(* Mutant: create() does not look at the card's invalidated_at. *)
AcceptsRevokedCard(c) == status[cards[c].ev] = "card_generated"

(* conditional_scenarios.create: the lineage must be active and current.  *)
ScenarioAllowed(c) ==
  /\ cards[c].live
  /\ status[cards[c].ev] = "card_generated"
  /\ \A d \in CardsOfKey(cards[c].key) : cards[d].live => cards[d].version <= cards[c].version

(* POST /api/internal/scenario-sets of kind CONDITIONAL. *)
FreezeScenario(c) ==
  /\ cards[c].scenario = "possible"
  /\ ScenarioAllowed(c)
  /\ cards' = [cards EXCEPT ![c].scenario = "frozen"]
  /\ UNCHANGED <<status, version, filters>>

Next ==
  \/ \E e \in Evidence : CreateEvidence(e)
  \/ \E e \in Evidence, st \in Statuses \cup {"keep"}, n \in 0 .. MaxBump : MutateEvidence(e, st, n)
  \/ \E e \in Evidence, s \in Scopes, i \in Inputs, p \in 0 .. Len(filters) : SaveFilter(e, s, i, p)
  \/ \E f \in DOMAIN filters, k \in LineageKeys, sc \in ScenarioStates : SaveCard(f, k, sc)
  \/ \E c \in DOMAIN cards : FreezeScenario(c)

Spec == Init /\ [][Next]_vars

-----------------------------------------------------------------------------
(***************************************************************************)
(* Properties.                                                             *)
(***************************************************************************)

(* Rows refer to rows inserted before them; no row is numbered beyond the *)
(* number of rows.                                                        *)
TypeOK ==
  /\ status  \in [Evidence -> Statuses \cup {"absent"}]
  /\ version \in [Evidence -> 1 .. MaxVersion]
  /\ filters \in Seq(Filter)
  /\ cards   \in Seq(Card)
  /\ \A f \in DOMAIN filters : filters[f].parent < f /\ filters[f].line \in 1 .. Len(filters)
  /\ \A c \in DOMAIN cards : cards[c].filter \in DOMAIN filters

(* The rows of one evidence, scope and evidence version are one chain:    *)
(* numbered without a gap or a fork, each the successor of the one        *)
(* numbered before it.  save_filter accepts a parent given by the caller; *)
(* current_filter_head and the card check rely on there being one head.   *)
LineageIsChain ==
  \A f \in DOMAIN filters :
    LET scope == Scope(filters[f].ev, filters[f].scope, filters[f].version)
    IN  /\ \A g \in scope : filters[f].line = filters[g].line => f = g
        /\ filters[f].line = 1 <=> filters[f].parent = 0
        /\ filters[f].line > 1 =>
             /\ filters[f].parent \in scope
             /\ filters[filters[f].parent].line = filters[f].line - 1

(* A request that is repeated, whatever came between, never leaves the    *)
(* same input twice in one chain.                                         *)
InputStoredOnce ==
  \A f, g \in DOMAIN filters :
    /\ filters[f].input = filters[g].input
    /\ g \in Scope(filters[f].ev, filters[f].scope, filters[f].version)
    => f = g

(* README.md: a mutation of the evidence invalidates every earlier filter *)
(* and card.  A card that is still live was generated from a filter of    *)
(* the present version of an evidence that is not invalidated: also after *)
(* the evidence was invalidated and its status set back.                  *)
LiveCardIsCurrent ==
  \A c \in DOMAIN cards : cards[c].live =>
    /\ status[cards[c].ev] \notin {"absent", "invalidated"}
    /\ filters[cards[c].filter].ev = cards[c].ev
    /\ filters[cards[c].filter].version = version[cards[c].ev]

(* A lineage key has one live card, the newest, even when the caller uses *)
(* one key for cards of several evidences.                                *)
OneLiveCardPerLineage ==
  \A c, d \in DOMAIN cards :
    cards[c].live /\ cards[d].key = cards[c].key /\ d # c =>
      ~cards[d].live /\ cards[d].version < cards[c].version

(* A scenario set is frozen only for the newest live card of its lineage, *)
(* and from the version of the evidence the card was generated from.      *)
ScenarioFrozenWhileCurrent ==
  [][\A c \in DOMAIN cards :
       cards[c].scenario # "frozen" /\ cards'[c].scenario = "frozen" =>
         /\ cards[c].live
         /\ filters[cards[c].filter].version = version[cards[c].ev]
         /\ \A d \in CardsOfKey(cards[c].key) : cards[d].version <= cards[c].version]_vars
=============================================================================
