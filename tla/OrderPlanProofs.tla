-------------------------- MODULE OrderPlanProofs --------------------------
(***************************************************************************)
(* Proofs about OrderPlan, for every number of users, cards and plans,     *)
(* every set of budgets and every set of ticks.                            *)
(***************************************************************************)
EXTENDS OrderPlan, TLAPS

-----------------------------------------------------------------------------
(* Arithmetic of a fill. *)

(* A number of shares that is at most the quotient of the money left and  *)
(* the price costs at most the money left (BuyQty).                       *)
LEMMA CostFits ==
  ASSUME NEW left \in Int, NEW price \in Nat \ {0}, NEW n \in Int, n <= left \div price
  PROVE  n * price <= left
  <1>1. (left \div price) * price <= left
    BY SMT
  <1>2. n * price <= (left \div price) * price
    BY SMT
  <1> QED
    BY <1>1, <1>2, SMT

(* A term of a sequence over S is in S. *)
LEMMA ElementOfSeq ==
  ASSUME NEW S, NEW s \in Seq(S), NEW i \in DOMAIN s
  PROVE  s[i] \in S
  OBVIOUS

(* The initial tables are well typed. *)
LEMMA TypeInit == Init => TypeOK
  BY BoundsAssumption, BudgetAssumption
     DEF Init, TypeOK, Cards, PlanIds, Existing, Statuses, Revocable, EntryStatuses

(* Revoking plans changes no absent row and yields only known statuses. *)
LEMMA RevokedType ==
  ASSUME TypeOK, NEW S
  PROVE  /\ Revoked(S) \in [PlanIds -> Statuses]
         /\ \A p \in PlanIds : Revoked(S)[p] = "absent" <=> status[p] = "absent"
  BY DEF TypeOK, Revoked, RevokedStatus, Statuses, Revocable, EntryStatuses

(* A stored row of an existing plan. *)
LEMMA RowFacts ==
  ASSUME TypeOK, NEW p \in Existing
  PROVE  /\ p \in PlanIds
         /\ terms[p] \in Terms
         /\ terms[p].card \in Cards
         /\ terms[p].user \in Users
         /\ terms[p].snap \in Snapshots
         /\ terms[p].snap.maxQty \in Nat \ {0}
         /\ terms[p].snap.maxAmount \in Nat \ {0}
         /\ status[p] \in Statuses \ {"absent"}
         /\ bought[p] \in Nat /\ amount[p] \in Nat /\ sold[p] \in Nat /\ position[p] \in Nat
         /\ Row(p).status = status[p] /\ Row(p).bought = bought[p]
         /\ Row(p).amount = amount[p] /\ Row(p).sold = sold[p]
  <1>1. p \in PlanIds /\ plans \in Nat
    BY BoundsAssumption DEF TypeOK, Existing, PlanIds
  <1>2. terms[p] \in Terms
    BY DEF TypeOK
  <1>3. status[p] # "absent"
    BY <1>1 DEF TypeOK, Existing
  <1> QED
    BY <1>1, <1>2, <1>3, BudgetAssumption DEF TypeOK, Terms, Snapshots, Row

(* The starting point of an edit or an approval is a well-formed draft    *)
(* row.                                                                   *)
LEMMA StartingRowsType ==
  ASSUME TypeOK, NEW c \in Cards, NEW u \in Users
  PROVE  StartingRows(c, u) \subseteq DraftRows
  <1>1. draft[<<c, u>>] \subseteq DraftRows
    BY DEF TypeOK
  <1>2. CardSnapshot(u) \in Snapshots
    BY CardAssumption DEF TypeOK, CardSnapshot, Snapshots
  <1>3. \A p \in PlansOf(c, u) : PlanSnapshot(p) \in Snapshots
    BY RowFacts DEF PlansOf, PlansOfCard, PlanSnapshot, Snapshots, Forms
  <1>4. \A s \in Snapshots : [snap |-> s, supersedes |-> 0] \in DraftRows
    BY BoundsAssumption DEF DraftRows
  <1> QED
    BY <1>1, <1>2, <1>3, <1>4 DEF StartingRows, NewestOf

(* An edit of a snapshot is a snapshot. *)
LEMMA OverriddenType ==
  ASSUME NEW s \in Snapshots, NEW o \in Overrides
  PROVE  Overridden(s, o) \in Snapshots
  BY InputAssumption DEF Overridden, Snapshots, OverrideType

-----------------------------------------------------------------------------
(***************************************************************************)
(* The inductive invariant.  Beside the properties of OrderPlan it says    *)
(* that a plan's card was published (an absent card could be published     *)
(* later, or be left out of an invalidation) and that the counters of an   *)
(* id not yet allocated are zero, the column defaults.                     *)
(***************************************************************************)
PlanCardPublished == \A p \in Existing : card[terms[p].card] # "absent"

CountersStartAtZero ==
  \A p \in PlanIds \ Existing :
    bought[p] = 0 /\ amount[p] = 0 /\ sold[p] = 0 /\ position[p] = 0

PlanInv ==
  /\ LedgerConsistent
  /\ SoldPlanNeverBuys
  /\ StatusMatchesPosition
  /\ OneEntryPerHash
  /\ CountersStartAtZero

CoreInv == TypeOK /\ PlanInv

IInv ==
  /\ CoreInv
  /\ PlanCardPublished
  /\ RevokedCardHasNoEntry
  /\ DecisionGovernsEntry

(* No plan exists yet: every part of the invariant holds. *)
LEMMA InitInv == Init => IInv
  <1> SUFFICES ASSUME Init PROVE IInv
    OBVIOUS
  <1>1. TypeOK
    BY TypeInit
  <1>2. Existing = {}
    BY DEF Init, Existing
  <1> QED
    BY <1>1, <1>2 DEF Init, IInv, CoreInv, PlanInv, LedgerConsistent, SoldPlanNeverBuys,
       StatusMatchesPosition, OneEntryPerHash, CountersStartAtZero, PlanCardPublished,
       RevokedCardHasNoEntry, DecisionGovernsEntry

(* What a step that only revokes the plans of S does: every plan that may *)
(* still enter could enter before and is not in S.                        *)
LEMMA RevocationStep ==
  ASSUME CoreInv, NEW S, status' = Revoked(S),
         UNCHANGED <<setting, draft, archived, plans, terms, execVars>>,
         card' \in [Cards -> {"absent", "live", "revoked"}],
         decision' \in [Cards \X Users -> {"none", "approve", "hold"}]
  PROVE  /\ CoreInv'
         /\ \A p \in Existing : IsEntry(p)' => IsEntry(p) /\ p \notin S
  <1> USE DEF CoreInv
  <1>0. UNCHANGED <<plans, terms, bought, amount, sold, position, stages, evaluated>>
    BY DEF execVars
  <1>1. Existing' = Existing /\ Existing \subseteq PlanIds
    BY <1>0, BoundsAssumption DEF Existing, TypeOK, PlanIds
  <1>2. ASSUME NEW p \in Existing
        PROVE  status'[p] = IF p \in S /\ status[p] \in Revocable
                              THEN RevokedStatus(p) ELSE status[p]
    BY <1>1, <1>2 DEF Revoked
  <1>3. ASSUME NEW p \in Existing
        PROVE  IsEntry(p)' => IsEntry(p) /\ p \notin S
    BY <1>2, <1>3 DEF IsEntry, RevokedStatus, Revocable, EntryStatuses
  <1>4. LedgerConsistent'
    BY <1>0, <1>1 DEF PlanInv, LedgerConsistent
  <1>5. SoldPlanNeverBuys'
    BY <1>0, <1>1, <1>3 DEF PlanInv, SoldPlanNeverBuys
  <1>6. StatusMatchesPosition'
    <2>1. ASSUME NEW p \in Existing
          PROVE  /\ status'[p] \in {"partial_or_filled", "exit_wait", "review_required"}
                      => position[p] > 0
                 /\ status'[p] \in {"approved", "closed", "entry_invalidated"}
                      => position[p] = 0
      <3>1. position[p] \in Nat
        BY <1>1 DEF TypeOK
      <3> QED
        BY <3>1, <2>1, <1>2 DEF PlanInv, StatusMatchesPosition, RevokedStatus
    <2> QED
      BY <2>1, <1>0, <1>1 DEF StatusMatchesPosition
  <1>7. OneEntryPerHash'
    BY <1>0, <1>1, <1>3 DEF PlanInv, OneEntryPerHash
  <1>8. CountersStartAtZero'
    BY <1>0, <1>1 DEF PlanInv, CountersStartAtZero
  <1>9. TypeOK'
    <2>1. /\ status' \in [PlanIds -> Statuses]
          /\ \A p \in PlanIds : status'[p] = "absent" <=> status[p] = "absent"
      BY RevokedType
    <2> QED
      BY <2>1, <1>0, <1>1 DEF TypeOK
  <1> QED
    BY <1>3, <1>4, <1>5, <1>6, <1>7, <1>8, <1>9 DEF PlanInv

(* save_card: the plans of the card's lineage are revoked. *)
LEMMA PublishCardCore ==
  ASSUME CoreInv, NEW c \in Cards, PublishCard(c)
  PROVE  LET old == {d \in Cards : d < c /\ LineageOf[d] = LineageOf[c]}
             S   == UNION {PlansOfCard(d) : d \in old}
         IN  CoreInv' /\ \A p \in Existing : IsEntry(p)' => IsEntry(p) /\ p \notin S
  <1> DEFINE old == {d \in Cards : d < c /\ LineageOf[d] = LineageOf[c]}
             S   == UNION {PlansOfCard(d) : d \in old}
  <1>1. /\ card' = [d \in Cards |-> IF d = c THEN "live"
                                    ELSE IF d \in old THEN "revoked" ELSE card[d]]
        /\ status' = Revoked(S)
        /\ UNCHANGED <<setting, draft, archived, plans, terms, execVars>>
        /\ UNCHANGED decision
    BY DEF PublishCard, userVars
  <1>2. card' \in [Cards -> {"absent", "live", "revoked"}]
    BY <1>1 DEF CoreInv, TypeOK
  <1>3. decision' \in [Cards \X Users -> {"none", "approve", "hold"}]
    BY <1>1 DEF CoreInv, TypeOK
  <1> HIDE DEF S
  <1>4. CoreInv' /\ \A p \in Existing : IsEntry(p)' => IsEntry(p) /\ p \notin S
    BY <1>1, <1>2, <1>3, RevocationStep
  <1> QED
    BY <1>4 DEF S

(* save_card: publishing a card leaves no entry on the cards it revokes. *)
LEMMA PublishCardInv ==
  ASSUME IInv, NEW c \in Cards, PublishCard(c)
  PROVE  IInv'
  <1> DEFINE old == {d \in Cards : d < c /\ LineageOf[d] = LineageOf[c]}
             S   == UNION {PlansOfCard(d) : d \in old}
  <1>1. /\ card' = [d \in Cards |-> IF d = c THEN "live"
                                    ELSE IF d \in old THEN "revoked" ELSE card[d]]
        /\ UNCHANGED <<decision, plans, terms>>
    BY DEF PublishCard, userVars
  <1>2. CoreInv' /\ \A p \in Existing : IsEntry(p)' => IsEntry(p) /\ p \notin S
    BY PublishCardCore DEF IInv
  <1>4. Existing' = Existing
    BY <1>1 DEF Existing
  <1>5. \A p \in Existing : terms[p].card \in Cards
    BY RowFacts DEF IInv, CoreInv
  <1>6. PlanCardPublished'
    BY <1>1, <1>4, <1>5 DEF IInv, PlanCardPublished
  <1>7. RevokedCardHasNoEntry'
    <2> SUFFICES ASSUME NEW p \in Existing, card'[terms[p].card] = "revoked"
                 PROVE  ~IsEntry(p)'
      BY <1>1, <1>4 DEF RevokedCardHasNoEntry
    <2>1. CASE terms[p].card \in old
      <3>1. p \in S
        BY <2>1 DEF PlansOfCard
      <3> QED
        BY <3>1, <1>2
    <2>2. CASE terms[p].card \notin old
      <3>1. card[terms[p].card] = "revoked"
        BY <2>2, <1>1, <1>5
      <3> QED
        BY <3>1, <1>2 DEF IInv, RevokedCardHasNoEntry
    <2> QED
      BY <2>1, <2>2
  <1>8. DecisionGovernsEntry'
    BY <1>1, <1>2, <1>4 DEF IInv, DecisionGovernsEntry
  <1> QED
    BY <1>2, <1>6, <1>7, <1>8 DEF IInv

(* mutate_evidence: every plan of a published card is revoked. *)
LEMMA InvalidateEvidenceCore ==
  ASSUME CoreInv, InvalidateEvidence
  PROVE  /\ CoreInv'
         /\ \A p \in Existing : IsEntry(p)' => IsEntry(p) /\ card[terms[p].card] = "absent"
  <1> DEFINE known == {c \in Cards : card[c] # "absent"}
             S     == UNION {PlansOfCard(c) : c \in known}
  <1>1. /\ card' = [c \in Cards |-> IF c \in known THEN "revoked" ELSE card[c]]
        /\ status' = Revoked(S)
        /\ UNCHANGED <<setting, draft, archived, plans, terms, execVars>>
        /\ UNCHANGED decision
    BY DEF InvalidateEvidence, userVars
  <1>2. card' \in [Cards -> {"absent", "live", "revoked"}]
    BY <1>1 DEF CoreInv, TypeOK
  <1>3. decision' \in [Cards \X Users -> {"none", "approve", "hold"}]
    BY <1>1 DEF CoreInv, TypeOK
  <1>4. \A p \in Existing : terms[p].card \in Cards
    BY RowFacts DEF CoreInv
  <1>5. \A p \in Existing : p \notin S => card[terms[p].card] = "absent"
    BY <1>4 DEF PlansOfCard
  <1> HIDE DEF S
  <1>6. CoreInv' /\ \A p \in Existing : IsEntry(p)' => IsEntry(p) /\ p \notin S
    BY <1>1, <1>2, <1>3, RevocationStep
  <1> QED
    BY <1>5, <1>6

(* mutate_evidence: no plan may enter any more. *)
LEMMA InvalidateEvidenceInv ==
  ASSUME IInv, InvalidateEvidence
  PROVE  IInv'
  <1>1. /\ card' = [c \in Cards |-> IF card[c] # "absent" THEN "revoked" ELSE card[c]]
        /\ UNCHANGED <<plans, terms>>
    BY DEF InvalidateEvidence
  <1>2. /\ CoreInv'
        /\ \A p \in Existing : ~IsEntry(p)'
    BY InvalidateEvidenceCore DEF IInv, PlanCardPublished
  <1>3. Existing' = Existing
    BY <1>1 DEF Existing
  <1>4. PlanCardPublished'
    BY <1>1, <1>3, RowFacts DEF IInv, CoreInv, PlanCardPublished
  <1> QED
    BY <1>2, <1>3, <1>4 DEF IInv, RevokedCardHasNoEntry, DecisionGovernsEntry

(* user_decision, hold or reject: the plans of the card and user lose     *)
(* their entry permission.                                                *)
LEMMA HoldCore ==
  ASSUME CoreInv, NEW c \in Cards, NEW u \in Users, Hold(c, u)
  PROVE  /\ CoreInv'
         /\ \A p \in Existing : IsEntry(p)' => IsEntry(p) /\ p \notin PlansOf(c, u)
  <1> DEFINE S == PlansOf(c, u)
  <1>1. /\ decision' = [decision EXCEPT ![<<c, u>>] = "hold"]
        /\ status' = Revoked(S)
        /\ UNCHANGED <<setting, draft, archived, plans, terms, execVars>>
        /\ UNCHANGED card
    BY DEF Hold, cardVars
  <1>2. card' \in [Cards -> {"absent", "live", "revoked"}]
    BY <1>1 DEF CoreInv, TypeOK
  <1>3. decision' \in [Cards \X Users -> {"none", "approve", "hold"}]
    BY <1>1 DEF CoreInv, TypeOK
  <1> HIDE DEF S
  <1>4. CoreInv' /\ \A p \in Existing : IsEntry(p)' => IsEntry(p) /\ p \notin S
    BY <1>1, <1>2, <1>3, RevocationStep
  <1> QED
    BY <1>4 DEF S

(* user_decision, hold or reject. *)
LEMMA HoldInv ==
  ASSUME IInv, NEW c \in Cards, NEW u \in Users, Hold(c, u)
  PROVE  IInv'
  <1>1. /\ decision' = [decision EXCEPT ![<<c, u>>] = "hold"]
        /\ UNCHANGED <<card, plans, terms>>
    BY DEF Hold, cardVars
  <1>2. /\ CoreInv'
        /\ \A p \in Existing : IsEntry(p)' => IsEntry(p) /\ p \notin PlansOf(c, u)
    BY HoldCore DEF IInv
  <1>4. Existing' = Existing
    BY <1>1 DEF Existing
  <1>5. PlanCardPublished' /\ RevokedCardHasNoEntry'
    BY <1>1, <1>2, <1>4 DEF IInv, PlanCardPublished, RevokedCardHasNoEntry
  <1>6. DecisionGovernsEntry'
    <2> SUFFICES ASSUME NEW p \in Existing, IsEntry(p)'
                 PROVE  decision'[<<terms[p].card, terms[p].user>>] = "approve"
      BY <1>1, <1>4 DEF DecisionGovernsEntry
    <2>1. IsEntry(p) /\ p \notin PlansOf(c, u)
      BY <1>2
    <2>2. terms[p].card # c \/ terms[p].user # u
      BY <2>1 DEF PlansOf, PlansOfCard
    <2>3. <<terms[p].card, terms[p].user>> # <<c, u>>
      BY <2>2
    <2>4. <<terms[p].card, terms[p].user>> \in Cards \X Users
      BY RowFacts DEF IInv, CoreInv
    <2>5. decision'[<<terms[p].card, terms[p].user>>] = decision[<<terms[p].card, terms[p].user>>]
      BY <1>1, <2>3, <2>4 DEF IInv, CoreInv, TypeOK
    <2> QED
      BY <2>1, <2>5 DEF IInv, DecisionGovernsEntry
  <1> QED
    BY <1>2, <1>5, <1>6 DEF IInv

(* A step that leaves every column of order_plans and positions alone     *)
(* preserves everything but the types.                                    *)
LEMMA UntouchedPlans ==
  ASSUME CoreInv, TypeOK', UNCHANGED <<plans, terms, status, execVars>>
  PROVE  CoreInv' /\ Existing' = Existing /\ \A p \in Existing : IsEntry(p)' = IsEntry(p)
  <1>1. Existing' = Existing /\ \A p \in Existing : IsEntry(p)' = IsEntry(p)
    BY DEF Existing, IsEntry
  <1>2. PlanInv'
    BY <1>1 DEF CoreInv, PlanInv, LedgerConsistent, SoldPlanNeverBuys,
       StatusMatchesPosition, OneEntryPerHash, CountersStartAtZero, execVars
  <1> QED
    BY <1>1, <1>2 DEF CoreInv

(* A step that leaves the cards, the decisions and the terms alone and    *)
(* gives no plan an entry permission preserves the rest of the invariant. *)
LEMMA NoNewEntry ==
  ASSUME IInv, CoreInv', UNCHANGED <<card, decision, plans, terms>>,
         \A p \in Existing : IsEntry(p)' => IsEntry(p)
  PROVE  IInv'
  <1>1. Existing' = Existing
    BY DEF Existing
  <1> QED
    BY <1>1 DEF IInv, PlanCardPublished, RevokedCardHasNoEntry, DecisionGovernsEntry

(* A step that changes nothing preserves the core of the invariant. *)
LEMMA StutterCore == CoreInv /\ UNCHANGED vars => CoreInv'
  <1> SUFFICES ASSUME CoreInv, UNCHANGED vars PROVE CoreInv'
    OBVIOUS
  <1>1. TypeOK'
    BY DEF CoreInv, TypeOK, vars, cardVars, userVars, execVars, Existing
  <1> QED
    BY <1>1, UntouchedPlans DEF vars

(* update_paper_settings touches no plan. *)
LEMMA SetPaperAmountCore ==
  ASSUME CoreInv, NEW u \in Users, NEW a \in Amounts, SetPaperAmount(u, a)
  PROVE  CoreInv' /\ \A p \in Existing : IsEntry(p)' = IsEntry(p)
  <1>1. TypeOK'
    BY DEF SetPaperAmount, CoreInv, TypeOK, userVars, execVars, Existing
  <1> QED
    BY <1>1, UntouchedPlans DEF SetPaperAmount

(* edit_draft touches no plan. *)
LEMMA EditDraftCore ==
  ASSUME CoreInv, NEW c \in Cards, NEW u \in Users, NEW o \in Overrides, EditDraftWith(c, u, o)
  PROVE  CoreInv' /\ \A p \in Existing : IsEntry(p)' = IsEntry(p)
  <1>1. PICK d \in StartingRows(c, u) :
          draft' = [draft EXCEPT ![<<c, u>>] = {[d EXCEPT !.snap = Overridden(@, o)]}]
    BY DEF EditDraftWith
  <1>2. d \in DraftRows
    BY StartingRowsType DEF CoreInv
  <1>3. Overridden(d.snap, o) \in Snapshots
    BY <1>2, OverriddenType DEF DraftRows
  <1>4. [d EXCEPT !.snap = Overridden(@, o)] \in DraftRows
    BY <1>2, <1>3 DEF DraftRows
  <1>5. draft' \in [Cards \X Users -> SUBSET DraftRows]
    BY <1>1, <1>4 DEF CoreInv, TypeOK
  <1>6. TypeOK'
    BY <1>5 DEF EditDraftWith, CoreInv, TypeOK, cardVars, execVars, Existing
  <1> QED
    BY <1>6, UntouchedPlans DEF EditDraftWith

(* The inserted row takes the next id, empty columns and a snapshot no    *)
(* entry-capable plan of the card and user has.                           *)
LEMMA InsertPlanCore ==
  ASSUME CoreInv, NEW c \in Cards, NEW u \in Users, NEW s \in Snapshots,
         ~SameLivePlan(c, u, s), InsertPlan(c, u, s)
  PROVE  CoreInv'
  <1> DEFINE new == [card |-> c, user |-> u, snap |-> s]
  <1>0. PICK n : n = plans + 1
    OBVIOUS
  <1>1. /\ n \in PlanIds /\ n \notin Existing
        /\ Existing' = Existing \cup {n} /\ Existing \subseteq PlanIds
        /\ plans' = n
    BY <1>0, BoundsAssumption DEF CoreInv, TypeOK, InsertPlan, Existing, PlanIds
  <1>2. /\ terms' = [terms EXCEPT ![n] = new]
        /\ status' = [status EXCEPT ![n] = "approved"]
        /\ decision' = [decision EXCEPT ![<<c, u>>] = "approve"]
        /\ UNCHANGED <<card, setting, execVars>>
    BY <1>0 DEF InsertPlan, cardVars
  <1>3. new \in Terms
    BY DEF Terms
  <1>4. /\ terms'[n] = new /\ status'[n] = "approved"
        /\ \A p \in Existing : terms'[p] = terms[p] /\ status'[p] = status[p]
    BY <1>1, <1>2 DEF CoreInv, TypeOK
  <1>5. TypeOK'
    <2>1. terms' \in [PlanIds -> Terms \cup {NoTerms}] /\ \A p \in Existing' : terms'[p] \in Terms
      BY <1>1, <1>2, <1>3, <1>4 DEF CoreInv, TypeOK
    <2>2. status' \in [PlanIds -> Statuses] /\ \A p \in PlanIds : status'[p] = "absent" <=> p > plans'
      <3>1. status \in [PlanIds -> Statuses] /\ \A p \in PlanIds : status[p] = "absent" <=> p > plans
        BY DEF CoreInv, TypeOK
      <3>2. "approved" \in Statuses \ {"absent"}
        BY DEF Statuses, Revocable, EntryStatuses
      <3>3. plans \in Nat /\ PlanIds \subseteq Nat
        BY BoundsAssumption DEF CoreInv, TypeOK, PlanIds
      <3> QED
        BY <3>1, <3>2, <3>3, <1>0, <1>1, <1>2
    <2>3. plans' \in 0 .. NumPlans
      BY <1>1, BoundsAssumption DEF PlanIds
    <2>4. decision' \in [Cards \X Users -> {"none", "approve", "hold"}]
      BY <1>2 DEF CoreInv, TypeOK
    <2>5. draft' \in [Cards \X Users -> SUBSET DraftRows]
      BY DEF InsertPlan, CoreInv, TypeOK
    <2>6. archived' \in [Cards \X Users -> SUBSET {"approved", "superseded"}]
      BY DEF InsertPlan, CoreInv, TypeOK
    <2> QED
      BY <2>1, <2>2, <2>3, <2>4, <2>5, <2>6, <1>2 DEF CoreInv, TypeOK, execVars
  <1>6. bought[n] = 0 /\ amount[n] = 0 /\ sold[n] = 0 /\ position[n] = 0
    BY <1>1 DEF CoreInv, PlanInv, CountersStartAtZero
  <1>7. /\ IsEntry(n)'
        /\ \A p \in Existing : IsEntry(p)' = IsEntry(p)
    <2>1. IsEntry(n)'
      BY <1>4 DEF IsEntry, EntryStatuses
    <2>2. ASSUME NEW p \in Existing PROVE IsEntry(p)' = IsEntry(p)
      BY <1>4, <2>2 DEF IsEntry
    <2> QED
      BY <2>1, <2>2
  <1>8. s.maxQty \in Nat /\ s.maxAmount \in Nat
    BY BudgetAssumption DEF Snapshots
  <1>9. LedgerConsistent'
    BY <1>1, <1>2, <1>4, <1>6, <1>8 DEF CoreInv, PlanInv, LedgerConsistent, execVars
  <1>10. SoldPlanNeverBuys'
    BY <1>1, <1>2, <1>6, <1>7 DEF CoreInv, PlanInv, SoldPlanNeverBuys, execVars
  <1>11. StatusMatchesPosition'
    BY <1>1, <1>2, <1>4, <1>6 DEF CoreInv, PlanInv, StatusMatchesPosition, execVars
  <1>12. OneEntryPerHash'
    <2>1. \A p \in Existing : IsEntry(p) => terms[p] # new
      BY DEF SameLivePlan, PlansOf, PlansOfCard
    <2> QED
      BY <2>1, <1>1, <1>4, <1>7 DEF CoreInv, PlanInv, OneEntryPerHash
  <1>13. CountersStartAtZero'
    BY <1>1, <1>2 DEF CoreInv, PlanInv, CountersStartAtZero, execVars
  <1> QED
    BY <1>5, <1>9, <1>10, <1>11, <1>12, <1>13 DEF CoreInv, PlanInv

(* The inserted plan belongs to a live card and to the decision its       *)
(* transaction records.                                                   *)
LEMMA InsertPlanInv ==
  ASSUME IInv, NEW c \in Cards, NEW u \in Users, NEW s \in Snapshots,
         Approvable(c), ~SameLivePlan(c, u, s), InsertPlan(c, u, s)
  PROVE  IInv'
  <1> DEFINE n == plans + 1
  <1>1. /\ Existing' = Existing \cup {n}
        /\ n \in PlanIds /\ Existing \subseteq PlanIds /\ n \notin Existing
    BY BoundsAssumption DEF IInv, CoreInv, TypeOK, InsertPlan, Existing, PlanIds
  <1>2. /\ terms' = [terms EXCEPT ![n] = [card |-> c, user |-> u, snap |-> s]]
        /\ status' = [status EXCEPT ![n] = "approved"]
        /\ decision' = [decision EXCEPT ![<<c, u>>] = "approve"]
        /\ UNCHANGED card
    BY DEF InsertPlan, cardVars
  <1> HIDE DEF n
  <1>3. terms'[n].card = c /\ terms'[n].user = u
    BY <1>1, <1>2 DEF IInv, CoreInv, TypeOK
  <1>4. \A p \in Existing : terms'[p] = terms[p] /\ IsEntry(p)' = IsEntry(p)
    <2>1. \A p \in Existing : terms'[p] = terms[p] /\ status'[p] = status[p]
      BY <1>1, <1>2 DEF IInv, CoreInv, TypeOK
    <2> QED
      BY <2>1 DEF IsEntry
  <1>5. CoreInv'
    BY InsertPlanCore DEF IInv
  <1>6. PlanCardPublished'
    BY <1>1, <1>2, <1>3, <1>4 DEF IInv, PlanCardPublished, Approvable
  <1>7. RevokedCardHasNoEntry'
    BY <1>1, <1>2, <1>3, <1>4 DEF IInv, RevokedCardHasNoEntry, Approvable
  <1>8. DecisionGovernsEntry'
    <2>1. decision'[<<c, u>>] = "approve"
      BY <1>2 DEF IInv, CoreInv, TypeOK
    <2>2. \A x \in Cards \X Users : decision[x] = "approve" => decision'[x] = "approve"
      BY <1>2 DEF IInv, CoreInv, TypeOK
    <2>3. \A p \in Existing : <<terms[p].card, terms[p].user>> \in Cards \X Users
      BY RowFacts DEF IInv, CoreInv
    <2> QED
      BY <2>1, <2>2, <2>3, <1>1, <1>3, <1>4 DEF IInv, DecisionGovernsEntry
  <1> QED
    BY <1>5, <1>6, <1>7, <1>8 DEF IInv

(* user_decision, approve, after its card check: no write, or one         *)
(* inserted plan.                                                         *)
LEMMA ApproveCore ==
  ASSUME CoreInv, NEW c \in Cards, NEW u \in Users, ApproveWith(c, u)
  PROVE  \/ UNCHANGED vars
         \/ \E s \in Snapshots : ~SameLivePlan(c, u, s) /\ InsertPlan(c, u, s)
  <1>1. PICK s \in {d.snap : d \in StartingRows(c, u)} :
          \/ UNCHANGED vars
          \/ ~SameLivePlan(c, u, s) /\ ArchiveFits(c, u) /\ InsertPlan(c, u, s)
    BY DEF ApproveWith
  <1>2. s \in Snapshots
    BY StartingRowsType DEF CoreInv, DraftRows
  <1> QED
    BY <1>1, <1>2

(* No other entry-capable plan has the terms of p. *)
LoneEntry(p) == \A q \in Existing : IsEntry(q) /\ terms[q] = terms[p] => q = p

(* A step that changes only the status and the counters of one plan p and *)
(* makes it entry-capable only when it is the one with its terms          *)
(* preserves the core of the invariant when it preserves p's own row.     *)
LEMMA OnePlanStep ==
  ASSUME CoreInv, NEW p \in Existing,
         NEW st \in Statuses \ {"absent"}, status' = [status EXCEPT ![p] = st],
         st \in EntryStatuses => LoneEntry(p),
         UNCHANGED <<cardVars, decision, archived, plans, terms>>,
         draft' \in [Cards \X Users -> SUBSET DraftRows],
         bought'   \in [PlanIds -> Nat], amount' \in [PlanIds -> Nat],
         sold'     \in [PlanIds -> Nat], position' \in [PlanIds -> Nat],
         stages'    \in [PlanIds -> SUBSET DOMAIN TakeProfit],
         evaluated' \in [PlanIds -> SUBSET TickKeys],
         \A q \in PlanIds : q # p =>
            /\ bought'[q] = bought[q] /\ amount'[q] = amount[q]
            /\ sold'[q] = sold[q] /\ position'[q] = position[q],
         position'[p] = bought'[p] - sold'[p],
         bought'[p] <= terms[p].snap.maxQty,
         amount'[p] <= terms[p].snap.maxAmount,
         sold'[p] > 0 => st \notin EntryStatuses,
         st \in {"partial_or_filled", "exit_wait", "review_required"} => position'[p] > 0,
         st \in {"approved", "closed", "entry_invalidated"} => position'[p] = 0
  PROVE  /\ CoreInv'
         /\ \A q \in Existing : IsEntry(q)' => \/ q = p /\ st \in EntryStatuses
                                               \/ q # p /\ IsEntry(q)
  <1>1. Existing' = Existing /\ Existing \subseteq PlanIds /\ p \in PlanIds /\ p <= plans /\ plans \in Nat
    <2>1. plans \in 0 .. NumPlans /\ NumPlans \in Nat
      BY BoundsAssumption DEF CoreInv, TypeOK
    <2>2. Existing' = Existing
      BY DEF Existing
    <2> QED
      BY <2>1, <2>2 DEF Existing, PlanIds
  <1>2. status'[p] = st /\ \A q \in PlanIds : q # p => status'[q] = status[q]
    BY <1>1 DEF CoreInv, TypeOK
  <1>3. \A q \in Existing : IsEntry(q)' => \/ q = p /\ st \in EntryStatuses
                                           \/ q # p /\ IsEntry(q)
    BY <1>1, <1>2 DEF IsEntry
  <1>4. TypeOK'
    <2>1. status' \in [PlanIds -> Statuses]
      BY DEF CoreInv, TypeOK
    <2>2. \A q \in PlanIds : status'[q] = "absent" <=> q > plans
      <3>1. p \in Nat
        BY <1>1 DEF Existing
      <3>2. \A q \in PlanIds : status[q] = "absent" <=> q > plans
        BY DEF CoreInv, TypeOK
      <3> QED
        BY <1>1, <1>2, <3>1, <3>2
    <2> QED
      BY <2>1, <2>2, <1>1 DEF CoreInv, TypeOK, cardVars
  <1>5. LedgerConsistent'
    <2>1. sold'[p] <= bought'[p]
      BY <1>1
    <2> QED
      BY <2>1, <1>1 DEF CoreInv, PlanInv, LedgerConsistent
  <1>6. SoldPlanNeverBuys'
    BY <1>1, <1>2 DEF CoreInv, PlanInv, SoldPlanNeverBuys, IsEntry
  <1>7. StatusMatchesPosition'
    BY <1>1, <1>2 DEF CoreInv, PlanInv, StatusMatchesPosition
  <1>8. OneEntryPerHash'
    BY <1>1, <1>3 DEF CoreInv, PlanInv, OneEntryPerHash, LoneEntry
  <1>9. CountersStartAtZero'
    BY <1>1 DEF CoreInv, PlanInv, CountersStartAtZero
  <1>10. CoreInv'
    BY <1>4, <1>5, <1>6, <1>7, <1>8, <1>9 DEF CoreInv, PlanInv
  <1> QED
    BY <1>3, <1>10

(* A plan that may enter is the only one with its terms that may. *)
LEMMA EntryIsLone ==
  ASSUME CoreInv, NEW p \in Existing, IsEntry(p)
  PROVE  LoneEntry(p) /\ sold[p] = 0
  <1>1. sold[p] \in Nat
    BY RowFacts DEF CoreInv
  <1> QED
    BY <1>1 DEF CoreInv, PlanInv, OneEntryPerHash, SoldPlanNeverBuys, LoneEntry

(* edit_order_plan: the edited plan loses its entry permission. *)
LEMMA EditPlanCore ==
  ASSUME CoreInv, NEW u \in Users, NEW p \in PlanIds, NEW o \in Overrides, EditPlan(u, p, o)
  PROVE  CoreInv' /\ \A q \in Existing : IsEntry(q)' => IsEntry(q)
  <1> DEFINE c == terms[p].card
             base == IF draft[<<c, u>>] # {} THEN {d.snap : d \in draft[<<c, u>>]}
                     ELSE {PlanSnapshot(p)}
  <1>1. p \in Existing /\ c \in Cards
    BY RowFacts DEF EditPlan, CoreInv
  <1>2. PICK s \in base :
          draft' = [draft EXCEPT ![<<c, u>>] = {[snap |-> Overridden(s, o), supersedes |-> p]}]
    BY DEF EditPlan
  <1>3. base \subseteq Snapshots
    <2>1. draft[<<c, u>>] \subseteq DraftRows
      BY <1>1 DEF CoreInv, TypeOK
    <2>2. PlanSnapshot(p) \in Snapshots
      BY <1>1, RowFacts DEF CoreInv, PlanSnapshot, Snapshots, Forms
    <2> QED
      BY <2>1, <2>2 DEF DraftRows
  <1>4. [snap |-> Overridden(s, o), supersedes |-> p] \in DraftRows
    <2>1. p \in 0 .. NumPlans
      BY BoundsAssumption DEF PlanIds
    <2> QED
      BY <2>1, <1>3, OverriddenType DEF DraftRows
  <1>5. draft' \in [Cards \X Users -> SUBSET DraftRows]
    BY <1>2, <1>4 DEF CoreInv, TypeOK
  <1>6. RevokedStatus(p) \in Statuses \ ({"absent"} \cup EntryStatuses)
    BY DEF RevokedStatus, Statuses, Revocable, EntryStatuses
  <1>7. /\ RevokedStatus(p) \in {"partial_or_filled", "exit_wait", "review_required"}
             => position[p] > 0
        /\ RevokedStatus(p) \in {"approved", "closed", "entry_invalidated"}
             => position[p] = 0
    BY <1>1, RowFacts DEF CoreInv, RevokedStatus
  <1>8. /\ status' = [status EXCEPT ![p] = RevokedStatus(p)]
        /\ UNCHANGED <<cardVars, decision, archived, plans, terms, execVars>>
    BY DEF EditPlan
  <1>9. PICK st : st = RevokedStatus(p)
    OBVIOUS
  <1>10. /\ st \in Statuses \ {"absent"} /\ st \notin EntryStatuses
         /\ status' = [status EXCEPT ![p] = st]
         /\ st \in {"partial_or_filled", "exit_wait", "review_required"} => position[p] > 0
         /\ st \in {"approved", "closed", "entry_invalidated"} => position[p] = 0
    BY <1>6, <1>7, <1>8, <1>9
  <1> HIDE DEF c, base
  <1> QED
    BY <1>1, <1>5, <1>8, <1>10, OnePlanStep
       DEF CoreInv, TypeOK, PlanInv, LedgerConsistent, execVars

(***************************************************************************)
(* The evaluator, from a row r it has read.  The counters of r are those   *)
(* of the table, which only an evaluation changes; its status may be an    *)
(* older one.                                                              *)
(***************************************************************************)
Agrees(p, r) == r.bought = bought[p] /\ r.amount = amount[p] /\ r.sold = sold[p]

(* A row that allowed an entry when it was read still does no harm: the   *)
(* plan has not sold, and no other plan with its terms may enter.         *)
FreshRow(p, r) ==
  /\ Agrees(p, r)
  /\ r.status \in EntryStatuses => sold[p] = 0 /\ LoneEntry(p)

(* The row in the table is fresh. *)
LEMMA RowIsFresh ==
  ASSUME CoreInv, NEW p \in Existing
  PROVE  FreshRow(p, Row(p)) /\ (Row(p).status \in EntryStatuses <=> IsEntry(p))
  BY EntryIsLone DEF FreshRow, Agrees, Row, IsEntry

(* The shares a sale takes are positive and held. *)
LEMMA SaleCovered ==
  ASSUME CoreInv, NEW p \in Existing, NEW r, Agrees(p, r), NEW t \in TickType,
         NEW i \in FirstStage(p, t), CanExit(r, t)
  PROVE  /\ TrancheQty(r, i) \in 1 .. position[p]
         /\ Remaining(r) = position[p] /\ position[p] > 0
         /\ i \in DOMAIN TakeProfit
  <1>1. Remaining(r) = position[p] /\ position[p] > 0
    BY RowFacts DEF CoreInv, PlanInv, LedgerConsistent, Remaining, CanExit, Agrees
  <1>2. i \in DOMAIN TakeProfit
    BY DEF FirstStage, OpenStages
  <1>3. TakeProfit[i].qty \in Nat \ {0}
    <2>1. TakeProfit[i] \in [price : Nat \ {0}, qty : Nat \ {0}]
      BY <1>2, RuleAssumption, ElementOfSeq
    <2> QED
      BY <2>1
  <1> QED
    BY <1>1, <1>2, <1>3, RowFacts DEF CoreInv, TrancheQty, SmallerOf

(* What a buy adds stays within both budgets of its plan. *)
LEMMA BuyCovered ==
  ASSUME CoreInv, NEW p \in Existing, NEW r, Agrees(p, r), NEW t \in TickType,
         EntryOpen(r, t), BuyQty(p, r, t) > 0
  PROVE  /\ BuyQty(p, r, t) \in Nat \ {0}
         /\ t.price \in Nat \ {0}
         /\ bought[p] + BuyQty(p, r, t) <= terms[p].snap.maxQty
         /\ amount[p] + BuyQty(p, r, t) * t.price <= terms[p].snap.maxAmount
         /\ r.status \in EntryStatuses
  <1> DEFINE left == terms[p].snap.maxAmount - amount[p]
             n == BuyQty(p, r, t)
  <1>1. t.price \in Nat \ {0} /\ t.ask \in Nat
    BY DEF EntryOpen, TickType
  <1>2. left \in Int /\ left \div t.price \in Int
    BY <1>1, RowFacts DEF CoreInv
  <1>3. n = SmallerOf(t.ask, SmallerOf(terms[p].snap.maxQty - bought[p], left \div t.price))
    BY DEF Agrees, BuyQty
  <1>4. n \in Nat \ {0} /\ n <= terms[p].snap.maxQty - bought[p] /\ n <= left \div t.price
    BY <1>1, <1>2, <1>3, RowFacts DEF CoreInv, SmallerOf
  <1>5. n * t.price <= left
    BY <1>1, <1>2, <1>4, CostFits
  <1>6. n * t.price \in Nat
    BY <1>1, <1>4
  <1>7. r.status \in EntryStatuses
    BY DEF EntryOpen
  <1>8. bought[p] \in Nat /\ amount[p] \in Nat
        /\ terms[p].snap.maxQty \in Nat /\ terms[p].snap.maxAmount \in Nat
    BY RowFacts DEF CoreInv
  <1> HIDE DEF n
  <1> QED
    BY <1>1, <1>4, <1>5, <1>6, <1>7, <1>8 DEF n

(* A sale of at most the remaining shares. *)
LEMMA SellCore ==
  ASSUME CoreInv, NEW p \in Existing, NEW r, Agrees(p, r),
         NEW n \in 1 .. position[p], Sell(p, r, n),
         UNCHANGED <<cardVars, userVars, plans, terms>>,
         stages'    \in [PlanIds -> SUBSET DOMAIN TakeProfit],
         evaluated' \in [PlanIds -> SUBSET TickKeys]
  PROVE  CoreInv' /\ \A q \in Existing : IsEntry(q)' => IsEntry(q)
  <1> DEFINE st == IF Remaining(r) = n THEN "closed" ELSE "exit_wait"
  <1>1. /\ bought[p] \in Nat /\ amount[p] \in Nat /\ sold[p] \in Nat /\ position[p] \in Nat
        /\ p \in PlanIds /\ n \in Nat \ {0} /\ n <= position[p]
    BY RowFacts DEF CoreInv
  <1>2. /\ position[p] = bought[p] - sold[p]
        /\ bought[p] <= terms[p].snap.maxQty /\ amount[p] <= terms[p].snap.maxAmount
        /\ Remaining(r) = position[p]
    BY RowFacts DEF CoreInv, PlanInv, LedgerConsistent, Remaining, Agrees
  <1>3. /\ sold' = [sold EXCEPT ![p] = sold[p] + n]
        /\ position' = [position EXCEPT ![p] = position[p] - n]
        /\ status' = [status EXCEPT ![p] = st]
        /\ UNCHANGED <<bought, amount>>
    BY DEF Sell
  <1>4. st \in Statuses \ ({"absent"} \cup EntryStatuses)
    BY DEF Statuses, Revocable, EntryStatuses
  <1>5. /\ sold' \in [PlanIds -> Nat] /\ position' \in [PlanIds -> Nat]
        /\ sold'[p] = sold[p] + n /\ position'[p] = position[p] - n
        /\ \A q \in PlanIds : q # p => sold'[q] = sold[q] /\ position'[q] = position[q]
    BY <1>1, <1>3 DEF CoreInv, TypeOK
  <1>6. /\ st \in {"partial_or_filled", "exit_wait", "review_required"} => position'[p] > 0
        /\ st \in {"approved", "closed", "entry_invalidated"} => position'[p] = 0
    BY <1>1, <1>2, <1>5
  <1>7. position'[p] = bought'[p] - sold'[p]
    BY <1>1, <1>2, <1>3, <1>5
  <1>8. PICK s : s = st
    OBVIOUS
  <1>9. /\ s \in Statuses \ {"absent"} /\ s \notin EntryStatuses
        /\ status' = [status EXCEPT ![p] = s]
        /\ s \in {"partial_or_filled", "exit_wait", "review_required"} => position'[p] > 0
        /\ s \in {"approved", "closed", "entry_invalidated"} => position'[p] = 0
    BY <1>3, <1>4, <1>6, <1>8
  <1> HIDE DEF st
  <1> QED
    BY <1>1, <1>2, <1>3, <1>5, <1>7, <1>9, OnePlanStep
       DEF CoreInv, TypeOK, userVars

(* A buy through the entry gates. *)
LEMMA BuyCore ==
  ASSUME CoreInv, NEW p \in Existing, NEW r, Agrees(p, r),
         NEW n \in Nat \ {0}, NEW price \in Nat \ {0},
         sold[p] = 0, LoneEntry(p),
         bought[p] + n <= terms[p].snap.maxQty,
         amount[p] + n * price <= terms[p].snap.maxAmount,
         Buy(p, r, n, price),
         UNCHANGED <<cardVars, userVars, plans, terms>>,
         evaluated' \in [PlanIds -> SUBSET TickKeys]
  PROVE  CoreInv' /\ \A q \in Existing : IsEntry(q)' => q = p \/ IsEntry(q)
  <1>0. PICK cost : cost = n * price /\ cost \in Nat
    OBVIOUS
  <1>1. /\ bought[p] \in Nat /\ amount[p] \in Nat /\ sold[p] \in Nat /\ position[p] \in Nat
        /\ p \in PlanIds
    BY RowFacts DEF CoreInv
  <1>2. position[p] = bought[p] - sold[p] /\ sold[p] = 0
    BY <1>1 DEF CoreInv, PlanInv, LedgerConsistent
  <1>3. /\ bought' = [bought EXCEPT ![p] = bought[p] + n]
        /\ amount' = [amount EXCEPT ![p] = amount[p] + cost]
        /\ position' = [position EXCEPT ![p] = position[p] + n]
        /\ status' = [status EXCEPT ![p] = "partial_or_filled"]
        /\ UNCHANGED <<sold, stages>>
    BY <1>0 DEF Agrees, Buy
  <1>4. "partial_or_filled" \in Statuses \ {"absent"}
    BY DEF Statuses, Revocable, EntryStatuses
  <1>5. /\ bought' \in [PlanIds -> Nat] /\ bought'[p] = bought[p] + n
        /\ amount' \in [PlanIds -> Nat] /\ amount'[p] = amount[p] + cost
        /\ position' \in [PlanIds -> Nat] /\ position'[p] = position[p] + n
        /\ \A q \in PlanIds : q # p =>
              bought'[q] = bought[q] /\ amount'[q] = amount[q] /\ position'[q] = position[q]
    <2>1. \A f \in [PlanIds -> Nat], m \in Nat :
            LET g == [f EXCEPT ![p] = f[p] + m]
            IN  /\ g \in [PlanIds -> Nat] /\ g[p] = f[p] + m
                /\ \A q \in PlanIds : q # p => g[q] = f[q]
      BY <1>1
    <2>2. bought \in [PlanIds -> Nat] /\ amount \in [PlanIds -> Nat] /\ position \in [PlanIds -> Nat]
      BY DEF CoreInv, TypeOK
    <2>3. n \in Nat /\ cost \in Nat
      BY <1>0
    <2> QED
      BY <2>1, <2>2, <2>3, <1>3
  <1>6. position'[p] = bought'[p] - sold'[p] /\ position'[p] > 0 /\ sold'[p] = 0
    BY <1>1, <1>2, <1>3, <1>5
  <1>7. amount'[p] <= terms[p].snap.maxAmount
    BY <1>0, <1>5
  <1>8. /\ decision' = decision /\ archived' = archived /\ draft' = draft
        /\ stages' = stages /\ sold' = sold
    BY <1>3 DEF userVars
  <1>9. /\ sold' \in [PlanIds -> Nat]
        /\ draft' \in [Cards \X Users -> SUBSET DraftRows]
        /\ stages' \in [PlanIds -> SUBSET DOMAIN TakeProfit]
    BY <1>8 DEF CoreInv, TypeOK
  <1>10. PICK st : st = "partial_or_filled"
    OBVIOUS
  <1>11. bought'[p] <= terms[p].snap.maxQty
    BY <1>5
  <1>12. UNCHANGED <<cardVars, decision, archived, plans, terms>>
    BY DEF userVars
  <1>13. /\ st \in Statuses \ {"absent"} /\ status' = [status EXCEPT ![p] = st]
         /\ st \notin {"approved", "closed", "entry_invalidated"}
    BY <1>3, <1>4, <1>10
  <1>14. \A q \in PlanIds : q # p =>
            /\ bought'[q] = bought[q] /\ amount'[q] = amount[q]
            /\ sold'[q] = sold[q] /\ position'[q] = position[q]
    BY <1>5, <1>8
  <1>15. /\ sold'[p] > 0 => st \notin EntryStatuses
         /\ st \in {"partial_or_filled", "exit_wait", "review_required"} => position'[p] > 0
         /\ st \in {"approved", "closed", "entry_invalidated"} => position'[p] = 0
    BY <1>6, <1>13
  <1>16. st \in EntryStatuses => LoneEntry(p)
    OBVIOUS
  <1>17. /\ bought' \in [PlanIds -> Nat] /\ amount' \in [PlanIds -> Nat]
         /\ sold' \in [PlanIds -> Nat] /\ position' \in [PlanIds -> Nat]
         /\ position'[p] = bought'[p] - sold'[p]
    BY <1>5, <1>6, <1>9
  <1> QED
    BY <1>7, <1>9, <1>11, <1>12, <1>13, <1>14, <1>15, <1>16, <1>17, OnePlanStep

(* evaluate_order_plan, by its four outcomes: a plan may enter afterwards *)
(* that could not before only when it is the plan of the call, the row of *)
(* the call allowed it and the call bought.                               *)
LEMMA EvaluateCore ==
  ASSUME CoreInv, NEW p \in Existing, NEW r, FreshRow(p, r),
         NEW k \in TickKeys, NEW t \in TickType, EvaluateWith(p, r, k, t)
  PROVE  /\ CoreInv'
         /\ \A q \in Existing : IsEntry(q)' =>
              IsEntry(q) \/ (q = p /\ r.status \in EntryStatuses /\ bought'[p] > bought[p])
  <1>1. Agrees(p, r)
    BY DEF FreshRow
  <1>2. /\ UNCHANGED <<cardVars, userVars, plans, terms>>
        /\ evaluated' \in [PlanIds -> SUBSET TickKeys]
    BY DEF EvaluateWith, CoreInv, TypeOK
  <1>3. CASE ExitAll(p, r, t) /\ Sell(p, r, Remaining(r)) /\ UNCHANGED stages
    <2>1. Remaining(r) \in 1 .. position[p]
      BY <1>1, <1>3, RowFacts
         DEF CoreInv, PlanInv, LedgerConsistent, Remaining, ExitAll, CanExit, Agrees
    <2>2. stages' \in [PlanIds -> SUBSET DOMAIN TakeProfit]
      BY <1>3 DEF CoreInv, TypeOK
    <2> QED
      BY <2>1, <2>2, <1>1, <1>2, <1>3, SellCore
  <1>4. CASE /\ ExitStage(p, r, t)
             /\ \E i \in FirstStage(p, t) :
                  /\ Sell(p, r, TrancheQty(r, i))
                  /\ stages' = [stages EXCEPT ![p] = @ \cup {i}]
    <2>1. PICK i \in FirstStage(p, t) :
            Sell(p, r, TrancheQty(r, i)) /\ stages' = [stages EXCEPT ![p] = @ \cup {i}]
      BY <1>4
    <2>2. TrancheQty(r, i) \in 1 .. position[p] /\ i \in DOMAIN TakeProfit
      BY <1>1, <1>4, SaleCovered DEF ExitStage
    <2>3. stages' \in [PlanIds -> SUBSET DOMAIN TakeProfit]
      BY <2>1, <2>2 DEF CoreInv, TypeOK
    <2> QED
      BY <2>1, <2>2, <2>3, <1>1, <1>2, SellCore
  <1>5. CASE UNCHANGED <<status, bought, amount, sold, position, stages>>
    <2>1. TypeOK'
      BY <1>2, <1>5 DEF CoreInv, TypeOK, cardVars, userVars, Existing
    <2>2. Existing' = Existing /\ \A q \in Existing : IsEntry(q)' = IsEntry(q)
      BY <1>2, <1>5 DEF Existing, IsEntry
    <2>3. PlanInv'
      BY <1>2, <1>5, <2>2 DEF CoreInv, PlanInv, LedgerConsistent, SoldPlanNeverBuys,
         StatusMatchesPosition, OneEntryPerHash, CountersStartAtZero
    <2> QED
      BY <2>1, <2>2, <2>3 DEF CoreInv
  <1>6. CASE EntryOpen(r, t) /\ BuyQty(p, r, t) > 0 /\ Buy(p, r, BuyQty(p, r, t), t.price)
    <2> DEFINE n == BuyQty(p, r, t)
    <2>1. /\ n \in Nat \ {0} /\ t.price \in Nat \ {0}
          /\ bought[p] + n <= terms[p].snap.maxQty
          /\ amount[p] + n * t.price <= terms[p].snap.maxAmount
          /\ r.status \in EntryStatuses
      BY <1>1, <1>6, BuyCovered
    <2>2. bought' = [bought EXCEPT ![p] = bought[p] + n]
      BY <1>1, <1>6 DEF Buy, Agrees
    <2>3. p \in PlanIds /\ bought[p] \in Nat /\ bought \in [PlanIds -> Nat]
      BY RowFacts DEF CoreInv, TypeOK
    <2>4. Buy(p, r, n, t.price)
      BY <1>6
    <2> HIDE DEF n
    <2>5. bought'[p] > bought[p]
      BY <2>1, <2>2, <2>3
    <2>6. sold[p] = 0 /\ LoneEntry(p)
      BY <2>1 DEF FreshRow
    <2>7. CoreInv' /\ \A q \in Existing : IsEntry(q)' => q = p \/ IsEntry(q)
      BY <1>1, <1>2, <2>1, <2>4, <2>6, BuyCore
    <2> QED
      BY <2>1, <2>5, <2>7
  <1> QED
    BY <1>3, <1>4, <1>5, <1>6 DEF EvaluateWith

(* A handler that runs alone writes from the row in the table. *)
LEMMA EvaluateInv ==
  ASSUME IInv, NEW p \in PlanIds, NEW k \in TickKeys, NEW t \in TickType, Evaluate(p, k, t)
  PROVE  IInv'
  <1>1. p \in Existing /\ EvaluateWith(p, Row(p), k, t)
    BY DEF Evaluate
  <1>2. FreshRow(p, Row(p)) /\ (Row(p).status \in EntryStatuses <=> IsEntry(p))
    BY <1>1, RowIsFresh DEF IInv
  <1>3. CoreInv' /\ \A q \in Existing : IsEntry(q)' => IsEntry(q)
    BY <1>1, <1>2, EvaluateCore DEF IInv
  <1>4. UNCHANGED <<card, decision, plans, terms>>
    BY <1>1 DEF EvaluateWith, cardVars, userVars
  <1> QED
    BY <1>3, <1>4, NoNewEntry

-----------------------------------------------------------------------------
(* Every step of the engine preserves the invariant. *)
LEMMA NextInv == IInv /\ [Next]_vars => IInv'
  <1> SUFFICES ASSUME IInv, [Next]_vars PROVE IInv'
    OBVIOUS
  <1>1. CASE UNCHANGED vars
    <2>1. CoreInv'
      BY <1>1, StutterCore DEF IInv
    <2>2. \A p \in Existing : IsEntry(p)' => IsEntry(p)
      BY <1>1 DEF vars, IsEntry
    <2> QED
      BY <1>1, <2>1, <2>2, NoNewEntry DEF vars, cardVars, userVars
  <1>2. ASSUME NEW c \in Cards, PublishCard(c) PROVE IInv'
    BY <1>2, PublishCardInv
  <1>3. CASE InvalidateEvidence
    BY <1>3, InvalidateEvidenceInv
  <1>4. ASSUME NEW u \in Users, NEW a \in Amounts, SetPaperAmount(u, a) PROVE IInv'
    <2>1. CoreInv' /\ \A p \in Existing : IsEntry(p)' => IsEntry(p)
      BY <1>4, SetPaperAmountCore DEF IInv
    <2> QED
      BY <1>4, <2>1, NoNewEntry DEF SetPaperAmount, userVars
  <1>5. ASSUME NEW c \in Cards, NEW u \in Users, Hold(c, u) PROVE IInv'
    BY <1>5, HoldInv
  <1>6. ASSUME NEW c \in Cards, NEW u \in Users, Approve(c, u) PROVE IInv'
    <2>1. CASE UNCHANGED vars
      <3>1. CoreInv' /\ \A p \in Existing : IsEntry(p)' => IsEntry(p)
        BY <2>1, StutterCore DEF IInv, vars, IsEntry
      <3> QED
        BY <2>1, <3>1, NoNewEntry DEF vars, cardVars, userVars
    <2>2. CASE \E s \in Snapshots : ~SameLivePlan(c, u, s) /\ InsertPlan(c, u, s)
      BY <1>6, <2>2, InsertPlanInv DEF Approve
    <2> QED
      BY <1>6, <2>1, <2>2, ApproveCore DEF Approve, IInv
  <1>7. ASSUME NEW c \in Cards, NEW u \in Users, NEW o \in Overrides, EditDraft(c, u, o)
        PROVE  IInv'
    <2>1. CoreInv' /\ \A p \in Existing : IsEntry(p)' => IsEntry(p)
      BY <1>7, EditDraftCore DEF IInv, EditDraft
    <2> QED
      BY <1>7, <2>1, NoNewEntry DEF EditDraft, EditDraftWith, cardVars
  <1>8. ASSUME NEW u \in Users, NEW p \in PlanIds, NEW o \in Overrides, EditPlan(u, p, o)
        PROVE  IInv'
    <2>1. CoreInv' /\ \A q \in Existing : IsEntry(q)' => IsEntry(q)
      BY <1>8, EditPlanCore DEF IInv
    <2> QED
      BY <1>8, <2>1, NoNewEntry DEF EditPlan, cardVars
  <1>9. ASSUME NEW p \in PlanIds, NEW k \in TickKeys, NEW t \in Ticks, Evaluate(p, k, t)
        PROVE  IInv'
    BY <1>9, EvaluateInv, InputAssumption
  <1>10. ASSUME NEW u \in Users, NEW p \in PlanIds, NEW k \in TickKeys, NEW t \in Ticks,
                Close(u, p, k, t)
         PROVE  IInv'
    <2>1. [t EXCEPT !.flatten = TRUE] \in TickType
      BY InputAssumption DEF TickType
    <2> QED
      BY <1>10, <2>1, EvaluateInv DEF Close
  <1> QED
    BY <1>1, <1>2, <1>3, <1>4, <1>5, <1>6, <1>7, <1>8, <1>9, <1>10 DEF Next


(* The inductive invariant holds of every reachable state of the engine.  *)
THEOREM Invariance == Spec => []IInv
  BY InitInv, NextInv, PTL DEF Spec

(* Every table keeps its shape, whatever requests arrive. *)
THEOREM TypeSafety == Spec => []TypeOK
  <1>1. IInv => TypeOK
    BY DEF IInv, CoreInv
  <1> QED
    BY <1>1, Invariance, PTL

(* order_plans and positions agree share for share, and neither budget of *)
(* a plan is ever exceeded, whatever the ticks.                           *)
THEOREM LedgerSafety == Spec => []LedgerConsistent
  <1>1. IInv => LedgerConsistent
    BY DEF IInv, CoreInv, PlanInv
  <1> QED
    BY <1>1, Invariance, PTL

(* A plan that has sold never regains the permission to buy. *)
THEOREM NoBuyAfterSale == Spec => []SoldPlanNeverBuys
  <1>1. IInv => SoldPlanNeverBuys
    BY DEF IInv, CoreInv, PlanInv
  <1> QED
    BY <1>1, Invariance, PTL

(* The status column tells whether the position is open. *)
THEOREM StatusIsTruthful == Spec => []StatusMatchesPosition
  <1>1. IInv => StatusMatchesPosition
    BY DEF IInv, CoreInv, PlanInv
  <1> QED
    BY <1>1, Invariance, PTL

(* Without a concurrent thread, no plan of an invalidated card can enter. *)
THEOREM RevocationIsComplete == Spec => []RevokedCardHasNoEntry
  <1>1. IInv => RevokedCardHasNoEntry
    BY DEF IInv, CoreInv
  <1> QED
    BY <1>1, Invariance, PTL

(* A plan that can enter has the user's approval as the latest decision. *)
THEOREM ApprovalBehindEntry == Spec => []DecisionGovernsEntry
  <1>1. IInv => DecisionGovernsEntry
    BY DEF IInv, CoreInv
  <1> QED
    BY <1>1, Invariance, PTL

(* No snapshot hash is behind two plans that can enter. *)
THEOREM HashIsUnique == Spec => []OneEntryPerHash
  <1>1. IInv => OneEntryPerHash
    BY DEF IInv, CoreInv, PlanInv
  <1> QED
    BY <1>1, Invariance, PTL

-----------------------------------------------------------------------------
(***************************************************************************)
(* The engine implements the paper ledger.                                 *)
(***************************************************************************)

(* An empty table maps to an empty ledger. *)
LEMMA LedgerInitMap == Init => Ledger!LedgerInit
  <1> SUFFICES ASSUME Init PROVE Ledger!LedgerInit
    OBVIOUS
  <1>1. \A p \in PlanIds : status[p] = "absent" /\ bought[p] = 0 /\ amount[p] = 0
    BY DEF Init
  <1>2. \A p \in PlanIds : LedgerPhase(p) = "none" /\ LedgerBudget(p) = [qty |-> 0, amount |-> 0]
    BY <1>1 DEF LedgerPhase, LedgerBudget, IsEntry, EntryStatuses
  <1>3. position = [p \in PlanIds |-> 0]
    BY DEF Init
  <1> QED
    BY <1>1, <1>2, <1>3 DEF Ledger!LedgerInit, Ledger!Nothing

(* What the ledger sees of a step is determined by these tables. *)
LEMMA LedgerUnmoved ==
  ASSUME UNCHANGED <<terms, status, bought, amount, position>>
  PROVE  UNCHANGED Ledger!ledgerVars
  BY DEF Ledger!ledgerVars, LedgerPhase, LedgerBudget, IsEntry

(* Revoking the plans of S withdraws the entry permission of those of S   *)
(* that had it.                                                           *)
LEMMA RevocationWithdraws ==
  ASSUME CoreInv, NEW S, status' = Revoked(S), UNCHANGED <<plans, terms, execVars>>
  PROVE  Ledger!LedgerNext
  <1> DEFINE T == S \cap PlanIds
  <1>1. UNCHANGED <<terms, bought, amount, position>>
    BY DEF execVars
  <1>2. ASSUME NEW p \in PlanIds
        PROVE  /\ LedgerPhase(p)' = IF p \in T /\ LedgerPhase(p) = "entry"
                                      THEN "exit" ELSE LedgerPhase(p)
               /\ LedgerBudget(p)' = LedgerBudget(p)
    <2>1. status'[p] = IF p \in S /\ status[p] \in Revocable THEN RevokedStatus(p) ELSE status[p]
      BY DEF Revoked
    <2>2. status[p] \in Statuses
      BY DEF CoreInv, TypeOK
    <2> QED
      BY <1>1, <2>1, <2>2 DEF LedgerPhase, LedgerBudget, IsEntry, RevokedStatus,
         Revocable, EntryStatuses, Statuses
  <1>3. Ledger!Withdraw(T)
    BY <1>1, <1>2 DEF Ledger!Withdraw
  <1>4. T \in SUBSET PlanIds
    OBVIOUS
  <1> QED
    BY <1>3, <1>4 DEF Ledger!LedgerNext

(* Inserting a plan is the ledger step Open. *)
LEMMA InsertOpens ==
  ASSUME CoreInv, NEW c \in Cards, NEW u \in Users, NEW s \in Snapshots, InsertPlan(c, u, s)
  PROVE  Ledger!LedgerNext
  <1>1. PICK n : n = plans + 1
    OBVIOUS
  <1>2. n \in PlanIds /\ status[n] = "absent"
    BY <1>1, BoundsAssumption DEF CoreInv, TypeOK, InsertPlan, PlanIds
  <1>3. /\ terms' = [terms EXCEPT ![n] = [card |-> c, user |-> u, snap |-> s]]
        /\ status' = [status EXCEPT ![n] = "approved"]
        /\ UNCHANGED <<bought, amount, position>>
    BY <1>1 DEF InsertPlan, execVars
  <1>4. /\ terms'[n].snap = s /\ status'[n] = "approved"
        /\ \A p \in PlanIds : p # n => terms'[p] = terms[p] /\ status'[p] = status[p]
    BY <1>2, <1>3 DEF CoreInv, TypeOK
  <1>5. PICK b : b = [qty |-> s.maxQty, amount |-> s.maxAmount] /\ b \in [qty : Qtys, amount : Amounts]
    <2>1. s.maxQty \in Qtys /\ s.maxAmount \in Amounts
      BY DEF Snapshots
    <2>2. [qty |-> s.maxQty, amount |-> s.maxAmount] \in [qty : Qtys, amount : Amounts]
      BY <2>1
    <2> QED
      BY <2>2
  <1>6. \A p \in PlanIds : p # n => LedgerPhase(p)' = LedgerPhase(p) /\ LedgerBudget(p)' = LedgerBudget(p)
    BY <1>4 DEF LedgerPhase, LedgerBudget, IsEntry
  <1>7. LedgerPhase(n) = "none" /\ LedgerPhase(n)' = "entry" /\ LedgerBudget(n)' = b
    BY <1>2, <1>4, <1>5 DEF LedgerPhase, LedgerBudget, IsEntry, EntryStatuses
  <1>8. Ledger!Open(n, b)
    BY <1>2, <1>3, <1>6, <1>7 DEF Ledger!Open
  <1> QED
    BY <1>2, <1>5, <1>8 DEF Ledger!LedgerNext

(* Editing a plan withdraws its entry permission or moves nothing. *)
LEMMA EditPlanWithdraws ==
  ASSUME CoreInv, NEW u \in Users, NEW p \in PlanIds, NEW o \in Overrides, EditPlan(u, p, o)
  PROVE  Ledger!LedgerNext
  <1>1. p \in Existing /\ status[p] # "absent"
    BY RowFacts DEF EditPlan, CoreInv
  <1>2. /\ status' = [status EXCEPT ![p] = RevokedStatus(p)]
        /\ UNCHANGED <<terms, bought, amount, position>>
    BY DEF EditPlan, execVars
  <1>3. /\ status'[p] = RevokedStatus(p)
        /\ \A q \in PlanIds : q # p => status'[q] = status[q]
    BY <1>2 DEF CoreInv, TypeOK
  <1>4. LedgerPhase(p)' = "exit" /\ LedgerPhase(p) \in {"entry", "exit"}
    BY <1>1, <1>3 DEF LedgerPhase, IsEntry, RevokedStatus, EntryStatuses
  <1>5. \A q \in PlanIds : q # p => LedgerPhase(q)' = LedgerPhase(q)
    BY <1>3 DEF LedgerPhase, IsEntry
  <1>6. \A q \in PlanIds : LedgerBudget(q)' = LedgerBudget(q)
    BY <1>1, <1>2, <1>3 DEF LedgerBudget, RevokedStatus
  <1>7. Ledger!Withdraw({p})
    BY <1>2, <1>4, <1>5, <1>6 DEF Ledger!Withdraw
  <1> QED
    BY <1>7 DEF Ledger!LedgerNext

(* A paper sale is the ledger step Sell. *)
LEMMA SellIsLedgerSell ==
  ASSUME CoreInv, NEW p \in Existing, NEW n \in 1 .. position[p], Sell(p, Row(p), n),
         UNCHANGED terms
  PROVE  Ledger!LedgerNext
  <1> DEFINE st == IF Remaining(Row(p)) = n THEN "closed" ELSE "exit_wait"
  <1>1. p \in PlanIds /\ status[p] # "absent" /\ position[p] \in Nat /\ n \in Int
    BY RowFacts DEF CoreInv
  <1>2. /\ position' = [position EXCEPT ![p] = position[p] - n]
        /\ status' = [status EXCEPT ![p] = st]
        /\ UNCHANGED <<terms, bought, amount>>
    BY DEF Sell
  <1>3. status'[p] = st /\ \A q \in PlanIds : q # p => status'[q] = status[q]
    BY <1>1, <1>2 DEF CoreInv, TypeOK
  <1>4. LedgerPhase(p)' = "exit" /\ LedgerPhase(p) # "none"
    BY <1>1, <1>3 DEF LedgerPhase, IsEntry, EntryStatuses
  <1>5. \A q \in PlanIds : q # p => LedgerPhase(q)' = LedgerPhase(q)
    BY <1>3 DEF LedgerPhase, IsEntry
  <1>6. \A q \in PlanIds : LedgerBudget(q)' = LedgerBudget(q)
    BY <1>1, <1>2, <1>3 DEF LedgerBudget
  <1>7. Ledger!Sell(p, n)
    <2>1. [q \in PlanIds |-> LedgerPhase(q)]'
            = [[q \in PlanIds |-> LedgerPhase(q)] EXCEPT ![p] = "exit"]
      BY <1>1, <1>4, <1>5
    <2>2. UNCHANGED << [q \in PlanIds |-> LedgerBudget(q)],
                       [q \in PlanIds |-> [qty |-> bought[q], amount |-> amount[q]]] >>
      BY <1>2, <1>6
    <2>3. [q \in PlanIds |-> LedgerPhase(q)][p] # "none" /\ n <= position[p]
      BY <1>1, <1>4
    <2> QED
      BY <2>1, <2>2, <2>3, <1>2 DEF Ledger!Sell
  <1> QED
    BY <1>1, <1>7 DEF Ledger!LedgerNext

(* A paper buy is the ledger step Buy. *)
LEMMA BuyIsLedgerBuy ==
  ASSUME CoreInv, NEW p \in Existing, NEW n \in Nat \ {0}, NEW price \in Nat \ {0},
         IsEntry(p),
         bought[p] + n <= terms[p].snap.maxQty,
         amount[p] + n * price <= terms[p].snap.maxAmount,
         Buy(p, Row(p), n, price), UNCHANGED terms
  PROVE  Ledger!LedgerNext
  <1>0. PICK cost : cost = n * price /\ cost \in Nat
    OBVIOUS
  <1>1. /\ p \in PlanIds /\ status[p] # "absent"
        /\ bought[p] \in Nat /\ amount[p] \in Nat
        /\ terms[p].snap.maxQty \in Nat /\ terms[p].snap.maxAmount \in Nat
    BY RowFacts DEF CoreInv
  <1>2. /\ bought' = [bought EXCEPT ![p] = bought[p] + n]
        /\ amount' = [amount EXCEPT ![p] = amount[p] + cost]
        /\ position' = [position EXCEPT ![p] = position[p] + n]
        /\ status' = [status EXCEPT ![p] = "partial_or_filled"]
    BY <1>0, RowFacts DEF CoreInv, Buy
  <1>3. /\ status'[p] = "partial_or_filled"
        /\ bought'[p] = bought[p] + n /\ amount'[p] = amount[p] + cost
        /\ \A q \in PlanIds : q # p =>
              status'[q] = status[q] /\ bought'[q] = bought[q] /\ amount'[q] = amount[q]
    BY <1>1, <1>2 DEF CoreInv, TypeOK
  <1>4. \A q \in PlanIds : LedgerPhase(q)' = LedgerPhase(q)
    BY <1>1, <1>3 DEF LedgerPhase, IsEntry, EntryStatuses
  <1>5. LedgerPhase(p) = "entry"
    BY <1>1 DEF LedgerPhase
  <1>6. \A q \in PlanIds : LedgerBudget(q)' = LedgerBudget(q)
    BY <1>1, <1>3 DEF LedgerBudget
  <1>7. LedgerBudget(p).qty = terms[p].snap.maxQty /\ LedgerBudget(p).amount = terms[p].snap.maxAmount
    BY <1>1 DEF LedgerBudget
  <1>8. n \in 1 .. LedgerBudget(p).qty /\ cost \in 0 .. LedgerBudget(p).amount
    BY <1>0, <1>1, <1>7
  <1>9. amount[p] + cost <= LedgerBudget(p).amount /\ bought[p] + n <= LedgerBudget(p).qty
    BY <1>0, <1>7
  <1>10. Ledger!Buy(p, n, cost)
    BY <1>1, <1>2, <1>3, <1>4, <1>5, <1>6, <1>9 DEF Ledger!Buy
  <1> QED
    BY <1>1, <1>8, <1>10 DEF Ledger!LedgerNext

(* Every evaluation is a ledger step or moves nothing in the ledger. *)
LEMMA EvaluateRefines ==
  ASSUME CoreInv, NEW p \in PlanIds, NEW k \in TickKeys, NEW t \in TickType, Evaluate(p, k, t)
  PROVE  [Ledger!LedgerNext]_Ledger!ledgerVars
  <1> DEFINE r == Row(p)
  <1>1. p \in Existing /\ EvaluateWith(p, r, k, t)
    BY DEF Evaluate
  <1>2. UNCHANGED terms
    BY <1>1 DEF EvaluateWith
  <1>3. CASE ExitAll(p, r, t) /\ Sell(p, r, Remaining(r))
    <2>1. Remaining(r) \in 1 .. position[p]
      BY <1>1, <1>3, RowFacts DEF CoreInv, PlanInv, LedgerConsistent, Remaining, ExitAll, CanExit
    <2> QED
      BY <2>1, <1>1, <1>2, <1>3, SellIsLedgerSell
  <1>4. CASE ExitStage(p, r, t) /\ \E i \in FirstStage(p, t) : Sell(p, r, TrancheQty(r, i))
    <2>1. PICK i \in FirstStage(p, t) : Sell(p, r, TrancheQty(r, i))
      BY <1>4
    <2>2. TrancheQty(r, i) \in 1 .. position[p]
      BY <1>1, <1>4, RowIsFresh, SaleCovered DEF ExitStage, FreshRow
    <2> QED
      BY <2>1, <2>2, <1>1, <1>2, SellIsLedgerSell
  <1>5. CASE UNCHANGED <<status, bought, amount, sold, position, stages>>
    BY <1>2, <1>5, LedgerUnmoved
  <1>6. CASE EntryOpen(r, t) /\ BuyQty(p, r, t) > 0 /\ Buy(p, r, BuyQty(p, r, t), t.price)
    BY <1>1, <1>2, <1>6, RowIsFresh, BuyCovered, BuyIsLedgerBuy DEF FreshRow
  <1> QED
    BY <1>1, <1>3, <1>4, <1>5, <1>6 DEF EvaluateWith

(* Every step of the engine is a step of the ledger or leaves it alone. *)
LEMMA LedgerStep == CoreInv /\ [Next]_vars => [Ledger!LedgerNext]_Ledger!ledgerVars
  <1> SUFFICES ASSUME CoreInv, [Next]_vars PROVE [Ledger!LedgerNext]_Ledger!ledgerVars
    OBVIOUS
  <1>1. CASE UNCHANGED vars
    BY <1>1, LedgerUnmoved DEF vars, execVars
  <1>2. ASSUME NEW c \in Cards, PublishCard(c) PROVE Ledger!LedgerNext
    BY <1>2, RevocationWithdraws DEF PublishCard
  <1>3. CASE InvalidateEvidence
    BY <1>3, RevocationWithdraws DEF InvalidateEvidence
  <1>4. ASSUME NEW u \in Users, NEW a \in Amounts, SetPaperAmount(u, a)
        PROVE  UNCHANGED Ledger!ledgerVars
    BY <1>4, LedgerUnmoved DEF SetPaperAmount, execVars
  <1>5. ASSUME NEW c \in Cards, NEW u \in Users, Hold(c, u) PROVE Ledger!LedgerNext
    BY <1>5, RevocationWithdraws DEF Hold
  <1>6. ASSUME NEW c \in Cards, NEW u \in Users, Approve(c, u)
        PROVE  [Ledger!LedgerNext]_Ledger!ledgerVars
    <2>1. PICK s \in {d.snap : d \in StartingRows(c, u)} : UNCHANGED vars \/ InsertPlan(c, u, s)
      BY <1>6 DEF Approve, ApproveWith
    <2>2. s \in Snapshots
      BY StartingRowsType DEF CoreInv, DraftRows
    <2>3. CASE UNCHANGED vars
      BY <2>3, LedgerUnmoved DEF vars, execVars
    <2>4. CASE InsertPlan(c, u, s)
      BY <2>2, <2>4, InsertOpens
    <2> QED
      BY <2>1, <2>3, <2>4
  <1>7. ASSUME NEW c \in Cards, NEW u \in Users, NEW o \in Overrides, EditDraft(c, u, o)
        PROVE  UNCHANGED Ledger!ledgerVars
    BY <1>7, LedgerUnmoved DEF EditDraft, EditDraftWith, execVars
  <1>8. ASSUME NEW u \in Users, NEW p \in PlanIds, NEW o \in Overrides, EditPlan(u, p, o)
        PROVE  Ledger!LedgerNext
    BY <1>8, EditPlanWithdraws
  <1>9. ASSUME NEW p \in PlanIds, NEW k \in TickKeys, NEW t \in Ticks, Evaluate(p, k, t)
        PROVE  [Ledger!LedgerNext]_Ledger!ledgerVars
    BY <1>9, EvaluateRefines, InputAssumption
  <1>10. ASSUME NEW u \in Users, NEW p \in PlanIds, NEW k \in TickKeys, NEW t \in Ticks,
                Close(u, p, k, t)
         PROVE  [Ledger!LedgerNext]_Ledger!ledgerVars
    <2>1. [t EXCEPT !.flatten = TRUE] \in TickType
      BY InputAssumption DEF TickType
    <2> QED
      BY <1>10, <2>1, EvaluateRefines DEF Close
  <1> QED
    BY <1>1, <1>2, <1>3, <1>4, <1>5, <1>6, <1>7, <1>8, <1>9, <1>10 DEF Next

(* The engine implements the paper ledger: budgets are frozen at approval *)
(* and never exceeded, the entry permission is never regained, no plan    *)
(* sells more than it holds, and a revoked plan can still sell.           *)
THEOREM LedgerRefinement == Spec => ImplementsLedger
  <1>1. IInv => CoreInv
    BY DEF IInv
  <1> QED
    BY <1>1, LedgerInitMap, LedgerStep, Invariance, PTL
       DEF Spec, ImplementsLedger, Ledger!LedgerSpec
=============================================================================
