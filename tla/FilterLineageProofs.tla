------------------------ MODULE FilterLineageProofs ------------------------
(***************************************************************************)
(* Proofs about FilterLineage, for any number of evidences, scopes,        *)
(* inputs, keys, filters and cards.                                        *)
(*                                                                         *)
(* The properties are not inductive alone.  That a new row may start a     *)
(* chain needs a head in every chain that has a row (ScopeHasHead), that a *)
(* card's evidence exists needs the same of its filter (FilterHasEvidence),*)
(* and the version of a new card needs a newest card (KeyHasNewest).       *)
(***************************************************************************)
EXTENDS FilterLineage, SequenceTheorems, TLAPS

(* A chain with a row has a row without a successor. *)
ScopeHasHead ==
  \A f \in DOMAIN filters :
    Heads(filters[f].ev, filters[f].scope, filters[f].version) # {}

FilterHasEvidence == \A f \in DOMAIN filters : status[filters[f].ev] # "absent"

(* A key with a card has a card no other card of the key is newer than. *)
KeyHasNewest ==
  \A k \in LineageKeys : CardsOfKey(k) # {} =>
    \E c \in CardsOfKey(k) : \A d \in CardsOfKey(k) : cards[d].version <= cards[c].version

FilterInv == LineageIsChain /\ InputStoredOnce /\ ScopeHasHead /\ FilterHasEvidence
CardInv   == LiveCardIsCurrent /\ OneLiveCardPerLineage /\ KeyHasNewest
LInv      == TypeOK /\ FilterInv /\ CardInv

-----------------------------------------------------------------------------
(* Facts about appending and about the revoked cards. *)

(* Append keeps every earlier row where it is. *)
LEMMA Appended ==
  ASSUME NEW S, NEW q \in Seq(S), NEW x \in S
  PROVE  /\ Append(q, x) \in Seq(S)
         /\ Len(Append(q, x)) = Len(q) + 1
         /\ DOMAIN Append(q, x) = DOMAIN q \cup {Len(q) + 1}
         /\ Len(q) + 1 \notin DOMAIN q
         /\ Append(q, x)[Len(q) + 1] = x
         /\ \A i \in DOMAIN q : Append(q, x)[i] = q[i]
  OBVIOUS

(* What the type invariant says of one row. *)
LEMMA RowTypes ==
  ASSUME TypeOK
  PROVE  /\ \A c \in DOMAIN cards :
              /\ cards[c] \in Card
              /\ cards[c].ev \in Evidence /\ cards[c].key \in LineageKeys
              /\ cards[c].version \in Nat /\ cards[c].live \in BOOLEAN
              /\ cards[c].filter \in DOMAIN filters
         /\ \A f \in DOMAIN filters :
              /\ filters[f] \in Filter
              /\ filters[f].ev \in Evidence /\ filters[f].scope \in Scopes
              /\ filters[f].version \in Nat /\ filters[f].line \in Nat
              /\ filters[f].parent \in Nat /\ filters[f].input \in Inputs
         /\ DOMAIN filters = 1 .. Len(filters) /\ Len(filters) \in Nat
<1>1. /\ \A c \in DOMAIN cards : cards[c] \in Card /\ cards[c].filter \in DOMAIN filters
      /\ \A f \in DOMAIN filters : filters[f] \in Filter
      /\ DOMAIN filters = 1 .. Len(filters) /\ Len(filters) \in Nat
  BY DEF TypeOK
<1>2. QED
  BY <1>1 DEF Card, Filter

(* A revocation changes nothing of a card but whether it is live. *)
LEMMA InvalidatedCards ==
  ASSUME TypeOK, NEW S
  PROVE  /\ Invalidated(S) \in Seq(Card)
         /\ DOMAIN Invalidated(S) = DOMAIN cards
         /\ Len(Invalidated(S)) = Len(cards)
         /\ \A c \in DOMAIN cards :
              /\ Invalidated(S)[c].ev = cards[c].ev
              /\ Invalidated(S)[c].filter = cards[c].filter
              /\ Invalidated(S)[c].key = cards[c].key
              /\ Invalidated(S)[c].version = cards[c].version
              /\ Invalidated(S)[c].scenario = cards[c].scenario
              /\ Invalidated(S)[c].live <=> cards[c].live /\ c \notin S
<1> DEFINE I == Invalidated(S)
<1>1. cards \in Seq(Card) /\ DOMAIN cards = 1 .. Len(cards) /\ Len(cards) \in Nat
  BY DEF TypeOK
<1>2. \A c \in DOMAIN cards :
        /\ cards[c] \in Card
        /\ I[c] = [cards[c] EXCEPT !.live = @ /\ c \notin S]
  BY <1>1 DEF Invalidated
<1>3. \A c \in DOMAIN cards :
        /\ I[c] \in Card
        /\ I[c].ev = cards[c].ev /\ I[c].filter = cards[c].filter
        /\ I[c].key = cards[c].key /\ I[c].version = cards[c].version
        /\ I[c].scenario = cards[c].scenario
        /\ I[c].live = (cards[c].live /\ c \notin S)
  <2> SUFFICES ASSUME NEW c \in DOMAIN cards
               PROVE  /\ I[c] \in Card
                      /\ I[c].ev = cards[c].ev /\ I[c].filter = cards[c].filter
                      /\ I[c].key = cards[c].key /\ I[c].version = cards[c].version
                      /\ I[c].scenario = cards[c].scenario
                      /\ I[c].live = (cards[c].live /\ c \notin S)
    OBVIOUS
  <2>1. PICK card \in Card : card = cards[c]
    BY <1>2
  <2>2. PICK live \in BOOLEAN : live = (card.live /\ c \notin S)
    BY DEF Card
  <2>3. I[c] = [card EXCEPT !.live = live]
    BY <1>2, <2>1, <2>2
  <2> HIDE DEF I
  <2>4. I[c] \in Card /\ I[c].live = live /\ I[c].scenario = card.scenario
        /\ I[c].ev = card.ev /\ I[c].filter = card.filter
        /\ I[c].key = card.key /\ I[c].version = card.version
    BY <2>3 DEF Card
  <2> QED BY <2>1, <2>2, <2>4
<1>4. I \in [1 .. Len(cards) -> Card]
  BY <1>1, <1>3 DEF Invalidated
<1>5. I \in Seq(Card) /\ Len(I) = Len(cards) /\ DOMAIN I = DOMAIN cards
  BY <1>1, <1>4
<1>6. QED
  BY <1>3, <1>5

(* The version of a new card is above every version of its key. *)
LEMMA NextVersionIsNewest ==
  ASSUME TypeOK, KeyHasNewest, NEW k \in LineageKeys
  PROVE  /\ NextCardVersion(k) \in Nat
         /\ \A c \in CardsOfKey(k) : cards[c].version < NextCardVersion(k)
<1> DEFINE V == {cards[c].version : c \in CardsOfKey(k)}
           W == {0} \cup V
<1>1. \A c \in DOMAIN cards : cards[c].version \in Nat
  BY RowTypes
<1>2. W \subseteq Nat
  BY <1>1 DEF CardsOfKey
<1>3. \E m \in W : \A x \in W : x <= m
  <2>1. CASE CardsOfKey(k) = {}
    <3>1. \A x \in W : x = 0
      BY <2>1
    <3>2. 0 \in W
      OBVIOUS
    <3> HIDE DEF W
    <3>3. QED
      BY <3>1, <3>2
  <2>2. CASE CardsOfKey(k) # {}
    <3>1. PICK c \in CardsOfKey(k) : \A d \in CardsOfKey(k) : cards[d].version <= cards[c].version
      BY <2>2 DEF KeyHasNewest
    <3>2. cards[c].version \in W /\ cards[c].version \in Nat
      BY <1>2
    <3>3. QED
      BY <3>1, <3>2
  <2>3. QED
    BY <2>1, <2>2
<1>4. Max(W) \in W /\ \A x \in W : x <= Max(W)
  BY <1>2, <1>3 DEF Max
<1>5. NextCardVersion(k) = Max(W) + 1
  BY DEF NextCardVersion
<1>6. \A c \in CardsOfKey(k) : cards[c].version \in W
  OBVIOUS
<1> DEFINE m == Max(W)
<1>7. m \in Nat /\ NextCardVersion(k) = m + 1
  BY <1>2, <1>4, <1>5
<1>8. \A c \in CardsOfKey(k) : cards[c].version <= m /\ cards[c].version \in Nat
  BY <1>2, <1>4, <1>6
<1> HIDE DEF m
<1>9. QED
  BY <1>7, <1>8
-----------------------------------------------------------------------------
(* The initial state. *)

(* Empty tables satisfy the invariant. *)
LEMMA InitLInv == Init => LInv
  BY LineageBounds DEF Init, LInv, TypeOK, FilterInv, CardInv, LineageIsChain,
    InputStoredOnce, ScopeHasHead, FilterHasEvidence, LiveCardIsCurrent,
    OneLiveCardPerLineage, KeyHasNewest, CardsOfKey, Statuses

(* A step that leaves the filters alone leaves their chains alone. *)
LEMMA ChainsUnmoved ==
  ASSUME UNCHANGED filters
  PROVE  /\ LineageIsChain <=> LineageIsChain'
         /\ InputStoredOnce <=> InputStoredOnce'
         /\ ScopeHasHead <=> ScopeHasHead'
  BY DEF LineageIsChain, InputStoredOnce, ScopeHasHead, Scope, Heads, Childless

(* A step that leaves the cards alone keeps what is said of them alone. *)
LEMMA CardsUnmoved ==
  ASSUME UNCHANGED cards
  PROVE  /\ OneLiveCardPerLineage <=> OneLiveCardPerLineage'
         /\ KeyHasNewest <=> KeyHasNewest'
  BY DEF OneLiveCardPerLineage, KeyHasNewest, CardsOfKey

-----------------------------------------------------------------------------
(* create_evidence and mutate_evidence. *)

(* create_evidence: no filter and no card belongs to it yet. *)
LEMMA CreateEvidenceInv ==
  ASSUME LInv, NEW e \in Evidence, CreateEvidence(e)
  PROVE  LInv'
<1> USE DEF LInv, FilterInv, CardInv
<1>1. TypeOK'
  BY DEF TypeOK, CreateEvidence, Statuses
<1>2. FilterHasEvidence'
  BY RowTypes DEF FilterHasEvidence, CreateEvidence, TypeOK
<1>3. LiveCardIsCurrent'
  BY RowTypes DEF LiveCardIsCurrent, CreateEvidence, TypeOK
<1>4. UNCHANGED <<version, filters, cards>>
  BY DEF CreateEvidence
<1>5. QED
  BY <1>1, <1>2, <1>3, <1>4, ChainsUnmoved, CardsUnmoved

(* Revoking cards keeps one live card per key and the newest of each key. *)
LEMMA RevocationKeepsKeys ==
  ASSUME TypeOK, OneLiveCardPerLineage, KeyHasNewest, NEW S, cards' = Invalidated(S)
  PROVE  OneLiveCardPerLineage' /\ KeyHasNewest'
<1>1. OneLiveCardPerLineage'
  BY InvalidatedCards DEF OneLiveCardPerLineage
<1>2. \A k : CardsOfKey(k)' = CardsOfKey(k)
  BY InvalidatedCards DEF CardsOfKey
<1>3. \A k : \A c \in CardsOfKey(k) : cards'[c].version = cards[c].version
  BY InvalidatedCards DEF CardsOfKey
<1>4. KeyHasNewest'
  BY <1>2, <1>3 DEF KeyHasNewest
<1>5. QED
  BY <1>1, <1>4

(* mutate_evidence: a version moves only together with its cards. *)
LEMMA MutateEvidenceInv ==
  ASSUME LInv, NEW e \in Evidence, NEW st \in Statuses \cup {"keep"}, NEW n \in 0 .. MaxBump,
         MutateEvidence(e, st, n)
  PROVE  LInv'
<1> USE DEF LInv, FilterInv, CardInv
<1> DEFINE bump == n + IF st = "invalidated" THEN 1 ELSE 0
<1>1. /\ status[e] # "absent" /\ (st # "keep" \/ n > 0) /\ version[e] + bump <= MaxVersion
      /\ UNCHANGED filters
  BY DEF MutateEvidence
<1>2. /\ version[e] + bump <= MaxVersion
      /\ status'  = [status EXCEPT ![e] = IF st = "keep" THEN @ ELSE st]
      /\ version' = [version EXCEPT ![e] = @ + bump]
  BY DEF MutateEvidence
<1>3. \/ cards' = Invalidated(CardsOf(e))
      \/ UNCHANGED cards /\ st # "invalidated" /\ n = 0
  BY LineageBounds DEF MutateEvidence, RevokesEntry
<1>4. bump \in Nat /\ (st # "invalidated" /\ n = 0 => bump = 0)
  BY LineageBounds
<1>5. cards' \in Seq(Card) /\ DOMAIN cards' = DOMAIN cards
      /\ \A c \in DOMAIN cards : cards'[c].filter = cards[c].filter /\ cards'[c].ev = cards[c].ev
  BY <1>3, InvalidatedCards DEF TypeOK
<1>6. TypeOK'
  <2>1. version' \in [Evidence -> 1 .. MaxVersion]
    BY <1>2, <1>4, LineageBounds DEF TypeOK
  <2>2. status' \in [Evidence -> Statuses \cup {"absent"}]
    BY <1>2 DEF TypeOK
  <2>3. QED
    BY <1>1, <1>5, <2>1, <2>2 DEF TypeOK
<1>7. FilterHasEvidence'
  BY <1>1, <1>2, RowTypes DEF FilterHasEvidence, TypeOK, Statuses
<1>8. OneLiveCardPerLineage' /\ KeyHasNewest'
  BY <1>3, RevocationKeepsKeys, CardsUnmoved
<1>9. LiveCardIsCurrent'
  <2>1. CASE cards' = Invalidated(CardsOf(e))
    <3>1. \A c \in DOMAIN cards : cards'[c].live => cards[c].live /\ cards[c].ev # e
      BY <2>1, InvalidatedCards DEF CardsOf
    <3>2. \A d \in Evidence : d # e => status'[d] = status[d] /\ version'[d] = version[d]
      BY <1>2 DEF TypeOK
    <3>3. \A c \in DOMAIN cards : cards[c].ev \in Evidence
      BY RowTypes
    <3>4. QED
      BY <1>1, <1>5, <3>1, <3>2, <3>3 DEF LiveCardIsCurrent
  <2>2. CASE UNCHANGED cards /\ st # "invalidated" /\ n = 0
    <3>1. version' = version
      BY <1>2, <1>4, <2>2 DEF TypeOK
    <3>2. \A d \in Evidence : status[d] \notin {"absent", "invalidated"} =>
             status'[d] \notin {"absent", "invalidated"}
      BY <1>2, <2>2 DEF TypeOK, Statuses
    <3>3. \A c \in DOMAIN cards : cards[c].ev \in Evidence
      BY RowTypes
    <3>4. QED
      BY <1>1, <2>2, <3>1, <3>2, <3>3 DEF LiveCardIsCurrent
  <2>3. QED
    BY <1>3, <2>1, <2>2
<1>10. QED
  BY <1>1, <1>6, <1>7, <1>8, <1>9, ChainsUnmoved
-----------------------------------------------------------------------------
(* save_filter: the new row r continues the chain of its scope. *)

(* save_filter: the chain gets one successor of its head. *)
LEMMA SaveFilterInv ==
  ASSUME LInv, NEW e \in Evidence, NEW s \in Scopes, NEW i \in Inputs,
         NEW p \in 0 .. Len(filters), SaveFilter(e, s, i, p)
  PROVE  LInv'
<1> USE DEF LInv, FilterInv, CardInv
<1>0. PICK r \in Nat : r = Len(filters) + 1
  BY RowTypes
<1> DEFINE v == version[e]
           row == [ev |-> e, version |-> v, scope |-> s, input |-> i,
                   line |-> NextLine(p), parent |-> p]
           own == Scope(e, s, v)
<1>1. /\ status[e] # "absent" /\ ~Exact(e, s, v, i) /\ NamesHead(e, s, v, p)
      /\ filters' = Append(filters, row)
      /\ UNCHANGED <<status, version, cards>>
  BY DEF SaveFilter
<1>2. p \in Nat /\ v \in 1 .. MaxVersion /\ v \in Nat
  BY LineageBounds, RowTypes DEF TypeOK
<1>3. IF own = {} THEN p = 0
      ELSE p \in own /\ Childless(p)
  <2>1. own = {} <=> Heads(e, s, v) = {}
    BY DEF ScopeHasHead, Heads, Scope
  <2>2. QED
    BY <1>1, <2>1 DEF NamesHead, Heads
<1>4. own \subseteq DOMAIN filters /\ 0 \notin own
  BY RowTypes DEF Scope
<1>5. /\ NextLine(p) \in 1 .. r
      /\ p = 0 => NextLine(p) = 1
      /\ p # 0 => p \in own /\ NextLine(p) = filters[p].line + 1 /\ filters[p].line \in 1 .. Len(filters)
  <2>1. CASE p = 0
    BY <1>0, <2>1, RowTypes DEF NextLine
  <2>2. CASE p # 0
    <3>1. p \in own /\ p \in DOMAIN filters
      BY <1>3, <1>4, <2>2
    <3>2. filters[p].line \in 1 .. Len(filters)
      BY <3>1 DEF TypeOK
    <3>3. QED
      BY <1>0, <2>2, <3>1, <3>2, RowTypes DEF NextLine
  <2>3. QED
    BY <2>1, <2>2
<1>6. row \in Filter
  BY <1>2, <1>5, RowTypes DEF Filter
<1>7. /\ filters' \in Seq(Filter)
      /\ Len(filters') = r
      /\ DOMAIN filters' = DOMAIN filters \cup {r}
      /\ r \notin DOMAIN filters
      /\ filters'[r] = row
      /\ \A f \in DOMAIN filters : filters'[f] = filters[f]
  BY <1>0, <1>1, <1>6, Appended DEF TypeOK
<1> HIDE DEF row
<1>8. /\ filters'[r].ev = e /\ filters'[r].version = v /\ filters'[r].scope = s
      /\ filters'[r].input = i /\ filters'[r].line = NextLine(p) /\ filters'[r].parent = p
  BY <1>7 DEF row
<1>9. \A f \in DOMAIN filters : filters[f].parent # r
  BY <1>0, RowTypes DEF TypeOK
<1>10. TypeOK'
  <2>1. \A f \in DOMAIN filters' : filters'[f].parent < f /\ filters'[f].line \in 1 .. Len(filters')
    <3>1. TAKE f \in DOMAIN filters'
    <3>2. CASE f = r
      BY <1>0, <1>2, <1>5, <1>7, <1>8, <3>2, RowTypes
    <3>3. CASE f \in DOMAIN filters
      BY <1>0, <1>7, <3>3, RowTypes DEF TypeOK
    <3>4. QED
      BY <1>7, <3>2, <3>3
  <2>2. QED
    BY <1>1, <1>7, <2>1 DEF TypeOK
(* The scopes after the step. *)
<1>11. \A a, b, w :
         Scope(a, b, w)' = IF a = e /\ b = s /\ w = v THEN own \cup {r} ELSE Scope(a, b, w)
  BY <1>7, <1>8 DEF Scope
<1>12. Childless(r)' /\ \A f \in DOMAIN filters : Childless(f) /\ f # p => Childless(f)'
  <2>1. \A g \in DOMAIN filters' : filters'[g].parent # r
    <3>1. p # r
      BY <1>0, RowTypes
    <3>2. QED
      BY <1>7, <1>8, <1>9, <3>1
  <2>2. QED
    BY <1>7, <1>8, <2>1 DEF Childless
<1>13. LineageIsChain'
  <2>1. SUFFICES ASSUME NEW f \in DOMAIN filters'
                 PROVE  /\ \A g \in Scope(filters[f].ev, filters[f].scope, filters[f].version)' :
                              filters'[f].line = filters'[g].line => f = g
                        /\ filters'[f].line = 1 <=> filters'[f].parent = 0
                        /\ filters'[f].line > 1 =>
                             /\ filters'[f].parent \in Scope(filters[f].ev, filters[f].scope, filters[f].version)'
                             /\ filters'[filters'[f].parent].line = filters'[f].line - 1
    BY DEF LineageIsChain
  (* No row of the scope has the number the new row gets. *)
  <2>2. \A g \in own : filters[g].line # NextLine(p)
    <3>1. SUFFICES ASSUME NEW g \in own, filters[g].line = NextLine(p)
                   PROVE  FALSE
      OBVIOUS
    <3>2. p \in own /\ Childless(p)
      BY <1>3
    <3>3. filters[g].line = filters[p].line + 1 /\ filters[p].line \in 1 .. Len(filters)
      BY <1>4, <1>5, <3>1, <3>2
    <3>4. g \in DOMAIN filters /\ Scope(filters[g].ev, filters[g].scope, filters[g].version) = own
      BY DEF Scope
    <3>5. filters[g].line > 1 /\ filters[g].line \in Nat
      BY <3>3, <3>4, RowTypes
    <3>6. filters[g].parent \in own /\ filters[filters[g].parent].line = filters[p].line
      BY <3>3, <3>4, <3>5, RowTypes DEF LineageIsChain
    <3>7. p \in DOMAIN filters /\ Scope(filters[p].ev, filters[p].scope, filters[p].version) = own
      BY <3>2 DEF Scope
    <3>8. filters[g].parent = p
      BY <3>6, <3>7 DEF LineageIsChain
    <3>9. QED
      BY <3>2, <3>4, <3>8 DEF Childless
  <2>3. CASE f = r
    <3>1. Scope(filters[f].ev, filters[f].scope, filters[f].version)' = own \cup {r}
      BY <1>8, <1>11, <2>3
    <3>2. \A g \in own : filters'[g] = filters[g]
      BY <1>4, <1>7
    <3>3. QED
      BY <1>2, <1>4, <1>5, <1>8, <2>2, <2>3, <3>1, <3>2
  <2>4. CASE f \in DOMAIN filters
    <3> DEFINE old == Scope(filters[f].ev, filters[f].scope, filters[f].version)
    <3>1. filters'[f] = filters[f] /\ old \subseteq DOMAIN filters
      BY <1>7, <2>4 DEF Scope
    <3>2. /\ \A g \in old : filters[f].line = filters[g].line => f = g
          /\ filters[f].line = 1 <=> filters[f].parent = 0
          /\ filters[f].line > 1 =>
               filters[f].parent \in old /\ filters[filters[f].parent].line = filters[f].line - 1
      BY <2>4 DEF LineageIsChain
    <3>3. \A g \in old : filters'[g] = filters[g]
      BY <1>7, <3>1
    <3>4. \/ Scope(filters[f].ev, filters[f].scope, filters[f].version)' = old
          \/ /\ Scope(filters[f].ev, filters[f].scope, filters[f].version)' = own \cup {r}
             /\ old = own
      BY <1>11, <3>1
    <3>5. f \in old
      BY <2>4 DEF Scope
    <3>6. QED
      BY <1>8, <2>2, <3>1, <3>2, <3>3, <3>4, <3>5
  <2>5. QED
    BY <1>7, <2>3, <2>4
<1>14. InputStoredOnce'
  <2>1. \A g \in own : filters[g].input # i
    BY <1>1 DEF Exact
  <2>2. SUFFICES ASSUME NEW f \in DOMAIN filters', NEW g \in DOMAIN filters',
                        filters'[f].input = filters'[g].input,
                        filters'[f].ev = filters'[g].ev, filters'[f].scope = filters'[g].scope,
                        filters'[f].version = filters'[g].version
                 PROVE  f = g
    BY DEF InputStoredOnce, Scope
  <2>3. CASE f \in DOMAIN filters /\ g \in DOMAIN filters
    BY <1>7, <2>2, <2>3 DEF InputStoredOnce, Scope
  <2>4. ASSUME NEW x \in DOMAIN filters, filters'[x].input = i, filters'[x].ev = e,
               filters'[x].scope = s, filters'[x].version = v
        PROVE  FALSE
    BY <1>7, <2>1, <2>4 DEF Scope
  <2>5. QED
    BY <1>7, <1>8, <2>2, <2>3, <2>4
<1>15. ScopeHasHead'
  <2>1. SUFFICES ASSUME NEW f \in DOMAIN filters'
                 PROVE  \E h \in Scope(filters[f].ev, filters[f].scope, filters[f].version)' : Childless(h)'
    BY DEF ScopeHasHead, Heads
  <2>2. CASE r \in Scope(filters[f].ev, filters[f].scope, filters[f].version)'
    BY <1>12, <2>2
  <2>3. CASE r \notin Scope(filters[f].ev, filters[f].scope, filters[f].version)'
    <3>1. f \in DOMAIN filters /\ filters'[f] = filters[f]
      BY <1>7, <2>3 DEF Scope
    <3> DEFINE old == Scope(filters[f].ev, filters[f].scope, filters[f].version)
    <3>2. Scope(filters[f].ev, filters[f].scope, filters[f].version)' = old
          /\ ~(filters[f].ev = e /\ filters[f].scope = s /\ filters[f].version = v)
      BY <1>11, <2>3, <3>1
    <3>3. PICK h \in old : Childless(h)
      BY <3>1 DEF ScopeHasHead, Heads
    <3>4. h # p /\ h \in DOMAIN filters
      BY <1>3, <1>4, <3>2 DEF Scope
    <3>5. QED
      BY <1>12, <3>2, <3>3, <3>4
  <2>4. QED
    BY <2>2, <2>3
<1>16. FilterHasEvidence'
  BY <1>1, <1>7, <1>8 DEF FilterHasEvidence
<1>17. LiveCardIsCurrent'
  BY <1>1, <1>7, RowTypes DEF LiveCardIsCurrent
<1>18. QED
  BY <1>1, <1>10, <1>13, <1>14, <1>15, <1>16, <1>17, CardsUnmoved
-----------------------------------------------------------------------------
(* save_card: the new card is the only live one of its key. *)

(* save_card: the cards of the key give way to the new one. *)
LEMMA SaveCardInv ==
  ASSUME LInv, NEW f \in DOMAIN filters, NEW k \in LineageKeys, NEW sc \in ScenarioStates,
         SaveCard(f, k, sc)
  PROVE  LInv'
<1> USE DEF LInv, FilterInv, CardInv
<1>0. PICK r \in Nat : r = Len(cards) + 1
  BY DEF TypeOK
<1> DEFINE e == filters[f].ev
           row == [ev |-> e, filter |-> f, key |-> k, version |-> NextCardVersion(k),
                   scenario |-> sc, live |-> TRUE]
           old == Invalidated(CardsOfKey(k))
<1>1. /\ status[e] # "invalidated" /\ filters[f].version = version[e]
      /\ cards' = Append(old, row)
      /\ status' = [status EXCEPT ![e] = "card_generated"]
      /\ UNCHANGED <<version, filters>>
  BY DEF SaveCard, Replaced
<1>2. e \in Evidence /\ status[e] # "absent" /\ f \in Nat
  BY RowTypes DEF FilterHasEvidence
<1>3. NextCardVersion(k) \in Nat /\ \A c \in CardsOfKey(k) : cards[c].version < NextCardVersion(k)
  BY NextVersionIsNewest
<1>4. row \in Card
  BY <1>2, <1>3 DEF Card
<1>5. /\ old \in Seq(Card) /\ DOMAIN old = DOMAIN cards /\ Len(old) = Len(cards)
      /\ \A c \in DOMAIN cards :
           /\ old[c].ev = cards[c].ev /\ old[c].filter = cards[c].filter
           /\ old[c].key = cards[c].key /\ old[c].version = cards[c].version
           /\ old[c].live <=> cards[c].live /\ cards[c].key # k
  BY InvalidatedCards DEF CardsOfKey
<1> HIDE DEF old, row
<1>6. /\ cards' \in Seq(Card)
      /\ DOMAIN cards' = DOMAIN cards \cup {r}
      /\ r \notin DOMAIN cards
      /\ cards'[r] = row
      /\ \A c \in DOMAIN cards : cards'[c] = old[c]
  BY <1>0, <1>1, <1>4, <1>5, Appended
<1>7. /\ cards'[r].ev = e /\ cards'[r].filter = f /\ cards'[r].key = k
      /\ cards'[r].version = NextCardVersion(k) /\ cards'[r].live
  BY <1>6 DEF row
<1>8. \A c \in DOMAIN cards :
        /\ cards'[c].ev = cards[c].ev /\ cards'[c].filter = cards[c].filter
        /\ cards'[c].key = cards[c].key /\ cards'[c].version = cards[c].version
        /\ cards'[c].live <=> cards[c].live /\ cards[c].key # k
  BY <1>5, <1>6
<1>9. TypeOK'
  <2>1. \A c \in DOMAIN cards' : cards'[c].filter \in DOMAIN filters'
    BY <1>1, <1>6, <1>7, <1>8 DEF TypeOK
  <2>2. status' \in [Evidence -> Statuses \cup {"absent"}]
    BY <1>1 DEF TypeOK, Statuses
  <2>3. QED
    BY <1>1, <1>6, <2>1, <2>2 DEF TypeOK
<1>10. FilterHasEvidence'
  BY <1>1, <1>2, RowTypes DEF FilterHasEvidence, TypeOK
<1>11. LiveCardIsCurrent'
  <2>1. \A d \in Evidence : status[d] \notin {"absent", "invalidated"} =>
           status'[d] \notin {"absent", "invalidated"}
    BY <1>1 DEF TypeOK
  <2>2. status'[e] \notin {"absent", "invalidated"}
    BY <1>1, <1>2 DEF TypeOK
  <2>3. SUFFICES ASSUME NEW c \in DOMAIN cards', cards'[c].live
                 PROVE  /\ status'[cards'[c].ev] \notin {"absent", "invalidated"}
                        /\ filters'[cards'[c].filter].ev = cards'[c].ev
                        /\ filters'[cards'[c].filter].version = version'[cards'[c].ev]
    BY DEF LiveCardIsCurrent
  <2>4. CASE c = r
    BY <1>1, <1>7, <2>2, <2>4
  <2>5. CASE c \in DOMAIN cards
    BY <1>1, <1>8, <2>1, <2>3, <2>5, RowTypes DEF LiveCardIsCurrent
  <2>6. QED
    BY <1>6, <2>4, <2>5
<1>12. OneLiveCardPerLineage'
  <2>1. SUFFICES ASSUME NEW c \in DOMAIN cards', NEW d \in DOMAIN cards',
                        cards'[c].live, cards'[d].key = cards'[c].key, d # c
                 PROVE  ~cards'[d].live /\ cards'[d].version < cards'[c].version
    BY DEF OneLiveCardPerLineage
  <2>2. CASE c = r
    <3>1. d \in DOMAIN cards /\ d \in CardsOfKey(k)
      BY <1>6, <1>7, <1>8, <2>1, <2>2 DEF CardsOfKey
    <3>2. QED
      BY <1>3, <1>7, <1>8, <2>1, <2>2, <3>1
  <2>3. CASE c \in DOMAIN cards
    <3>1. cards[c].live /\ cards[c].key # k
      BY <1>8, <2>1, <2>3
    <3>2. d \in DOMAIN cards
      BY <1>6, <1>7, <1>8, <2>1, <2>3, <3>1
    <3>3. QED
      BY <1>8, <2>1, <2>3, <3>1, <3>2 DEF OneLiveCardPerLineage
  <2>4. QED
    BY <1>6, <2>2, <2>3
<1>13. KeyHasNewest'
  <2>1. SUFFICES ASSUME NEW j \in LineageKeys, CardsOfKey(j)' # {}
                 PROVE  \E c \in CardsOfKey(j)' : \A d \in CardsOfKey(j)' :
                          cards'[d].version <= cards'[c].version
    BY DEF KeyHasNewest
  <2>2. CASE j = k
    <3>1. r \in CardsOfKey(k)' /\ CardsOfKey(k)' \subseteq CardsOfKey(k) \cup {r}
      BY <1>6, <1>7, <1>8 DEF CardsOfKey
    <3>2. \A d \in CardsOfKey(k) : cards'[d].version = cards[d].version
                                  /\ cards[d].version \in Nat
      BY <1>8, RowTypes DEF CardsOfKey
    <3>3. \A d \in CardsOfKey(k)' : cards'[d].version <= cards'[r].version
      BY <1>3, <1>7, <3>1, <3>2
    <3>4. QED
      BY <2>2, <3>1, <3>3
  <2>3. CASE j # k
    <3>1. CardsOfKey(j)' = CardsOfKey(j)
      BY <1>6, <1>7, <1>8, <2>3 DEF CardsOfKey
    <3>2. \A d \in CardsOfKey(j) : cards'[d].version = cards[d].version
      BY <1>8 DEF CardsOfKey
    <3>3. QED
      BY <2>1, <3>1, <3>2 DEF KeyHasNewest
  <2>4. QED
    BY <2>2, <2>3
<1>14. QED
  BY <1>1, <1>9, <1>10, <1>11, <1>12, <1>13, ChainsUnmoved

(* Freezing a scenario set touches no other field of any card. *)
LEMMA FreezeScenarioInv ==
  ASSUME LInv, NEW x \in DOMAIN cards, FreezeScenario(x)
  PROVE  LInv'
<1> USE DEF LInv, FilterInv, CardInv
<1>1. /\ cards' = [cards EXCEPT ![x] = [cards[x] EXCEPT !.scenario = "frozen"]]
      /\ UNCHANGED <<status, version, filters>>
  BY DEF FreezeScenario
<1>2. [cards[x] EXCEPT !.scenario = "frozen"] \in Card
  BY RowTypes DEF Card, ScenarioStates
<1>3. cards' \in Seq(Card) /\ DOMAIN cards' = DOMAIN cards
  BY <1>1, <1>2 DEF TypeOK
<1>4. \A c \in DOMAIN cards :
        /\ cards'[c].ev = cards[c].ev /\ cards'[c].filter = cards[c].filter
        /\ cards'[c].key = cards[c].key /\ cards'[c].version = cards[c].version
        /\ cards'[c].live = cards[c].live
  BY <1>1, RowTypes DEF Card
<1>5. TypeOK'
  BY <1>1, <1>3, <1>4 DEF TypeOK
<1>6. FilterHasEvidence' /\ LiveCardIsCurrent'
  BY <1>1, <1>3, <1>4 DEF FilterHasEvidence, LiveCardIsCurrent
<1>7. OneLiveCardPerLineage'
  BY <1>3, <1>4 DEF OneLiveCardPerLineage
<1>8. KeyHasNewest'
  <2>1. \A k : CardsOfKey(k)' = CardsOfKey(k)
    BY <1>3, <1>4 DEF CardsOfKey
  <2>2. \A k : \A c \in CardsOfKey(k) : cards'[c].version = cards[c].version
    BY <1>4 DEF CardsOfKey
  <2>3. QED
    BY <2>1, <2>2 DEF KeyHasNewest
<1>9. QED
  BY <1>1, <1>5, <1>6, <1>7, <1>8, ChainsUnmoved

-----------------------------------------------------------------------------
(* One step per action. *)
LEMMA NextLInv ==
  ASSUME LInv, [Next]_vars
  PROVE  LInv'
<1>1. ASSUME NEW e \in Evidence, CreateEvidence(e) PROVE LInv'
  BY <1>1, CreateEvidenceInv
<1>2. ASSUME NEW e \in Evidence, NEW st \in Statuses \cup {"keep"}, NEW n \in 0 .. MaxBump,
             MutateEvidence(e, st, n)
      PROVE LInv'
  BY <1>2, MutateEvidenceInv
<1>3. ASSUME NEW e \in Evidence, NEW s \in Scopes, NEW i \in Inputs, NEW p \in 0 .. Len(filters),
             SaveFilter(e, s, i, p)
      PROVE LInv'
  BY <1>3, SaveFilterInv
<1>4. ASSUME NEW f \in DOMAIN filters, NEW k \in LineageKeys, NEW sc \in ScenarioStates,
             SaveCard(f, k, sc)
      PROVE LInv'
  BY <1>4, SaveCardInv
<1>5. ASSUME NEW c \in DOMAIN cards, FreezeScenario(c) PROVE LInv'
  BY <1>5, FreezeScenarioInv
<1>6. CASE UNCHANGED vars
  <2>1. TypeOK' /\ FilterHasEvidence' /\ LiveCardIsCurrent'
    BY <1>6 DEF LInv, FilterInv, CardInv, TypeOK, FilterHasEvidence, LiveCardIsCurrent, vars
  <2>2. QED
    BY <1>6, <2>1, ChainsUnmoved, CardsUnmoved DEF LInv, FilterInv, CardInv, vars
<1>7. QED
  BY <1>1, <1>2, <1>3, <1>4, <1>5, <1>6 DEF Next

(* The inductive invariant of every reachable state. *)
THEOREM LineageInvariance == Spec => []LInv
<1>1. QED
  BY InitLInv, NextLInv, PTL DEF Spec

(* Every table keeps its type: a row refers to rows stored before it, and *)
(* no row of save_filter is numbered beyond the rows there are.           *)
THEOREM LineageTypes == Spec => []TypeOK
<1>1. LInv => TypeOK
  BY DEF LInv
<1>2. QED
  BY <1>1, LineageInvariance, PTL

(* The filter results of an evidence version form one unforked chain.     *)
THEOREM FiltersFormChains == Spec => []LineageIsChain
<1>1. LInv => LineageIsChain
  BY DEF LInv, FilterInv
<1>2. QED
  BY <1>1, LineageInvariance, PTL

(* A repeated save_filter stores nothing twice. *)
THEOREM RetriesAreIdempotent == Spec => []InputStoredOnce
<1>1. LInv => InputStoredOnce
  BY DEF LInv, FilterInv
<1>2. QED
  BY <1>1, LineageInvariance, PTL

(* No mutation of an evidence leaves a card of an older version alive. *)
THEOREM CardsFollowEvidence == Spec => []LiveCardIsCurrent
<1>1. LInv => LiveCardIsCurrent
  BY DEF LInv, CardInv
<1>2. QED
  BY <1>1, LineageInvariance, PTL

(* One live card per lineage key, the newest. *)
THEOREM LineageHasOneLiveCard == Spec => []OneLiveCardPerLineage
<1>1. LInv => OneLiveCardPerLineage
  BY DEF LInv, CardInv
<1>2. QED
  BY <1>1, LineageInvariance, PTL

(* create of a conditional scenario set checks the card, not the version  *)
(* of its evidence: that the two agree is LiveCardIsCurrent.              *)
THEOREM ScenariosFrozenInTime == Spec => ScenarioFrozenWhileCurrent
<1> DEFINE Frozen ==
      \A c \in DOMAIN cards :
        cards[c].scenario # "frozen" /\ cards'[c].scenario = "frozen" =>
          /\ cards[c].live
          /\ filters[cards[c].filter].version = version[cards[c].ev]
          /\ \A d \in CardsOfKey(cards[c].key) : cards[d].version <= cards[c].version
<1>1. ASSUME LInv, [Next]_vars PROVE [Frozen]_vars
  <2> USE <1>1 DEF LInv, CardInv
  <2>1. ASSUME NEW x \in DOMAIN cards, FreezeScenario(x) PROVE Frozen
    <3>1. cards' = [cards EXCEPT ![x] = [cards[x] EXCEPT !.scenario = "frozen"]]
          /\ cards[x].live
      BY <2>1 DEF FreezeScenario, ScenarioAllowed
    <3>2. filters[cards[x].filter].version = version[cards[x].ev]
      BY <3>1 DEF LiveCardIsCurrent
    <3>3. \A d \in CardsOfKey(cards[x].key) : cards[d].version <= cards[x].version
      BY <3>1, RowTypes DEF OneLiveCardPerLineage, CardsOfKey
    <3>4. \A c \in DOMAIN cards : c # x => cards'[c] = cards[c]
      BY <3>1
    <3>5. QED
      BY <3>1, <3>2, <3>3, <3>4
  <2>2. ASSUME NEW S, cards' = Invalidated(S) PROVE Frozen
    BY <2>2, InvalidatedCards
  <2>3. ASSUME NEW f \in DOMAIN filters, NEW k \in LineageKeys, NEW sc \in ScenarioStates,
               SaveCard(f, k, sc)
        PROVE Frozen
    <3> DEFINE old == Invalidated(CardsOfKey(k))
    <3>1. PICK row : cards' = Append(old, row)
      BY <2>3 DEF SaveCard, Replaced
    <3>2. old \in Seq(Card) /\ DOMAIN old = DOMAIN cards
          /\ \A c \in DOMAIN cards : old[c].scenario = cards[c].scenario
      BY InvalidatedCards
    <3> HIDE DEF old
    <3>3. \A c \in DOMAIN cards : cards'[c] = old[c]
      BY <3>1, <3>2
    <3>4. QED
      BY <3>2, <3>3
  <2>4. CASE UNCHANGED cards
    BY <2>4
  <2>5. ASSUME NEW e \in Evidence, NEW st \in Statuses \cup {"keep"}, NEW n \in 0 .. MaxBump,
               MutateEvidence(e, st, n)
        PROVE Frozen
    BY <2>2, <2>4, <2>5 DEF MutateEvidence
  <2>6. QED
    BY <1>1, <2>1, <2>3, <2>4, <2>5 DEF Next, CreateEvidence, SaveFilter, vars
<1>2. QED
  BY <1>1, LineageInvariance, PTL DEF Spec, ScenarioFrozenWhileCurrent
=============================================================================
