--------------------------- MODULE ResearchBacklog ---------------------------
(***************************************************************************)
(* The server's side of the 07:00 research: the table                      *)
(* giraffe_research_backlog (rows), the research rows of scheduler_runs    *)
(* (runs) and the research evidence in material_evidence (evid).  The      *)
(* prehook registers a run under an immutable contract that lists every    *)
(* DART receipt to review; the agent finishes the run with one terminal    *)
(* item per receipt; what a run could not decide stays pending and is      *)
(* carried into the contract of a later run.                               *)
(*                                                                         *)
(* register, refresh and finish are coroutines without an await between    *)
(* their first read and their commit, so each is one step.  The readback   *)
(* of the backlog is a plain def and runs on a thread of its own: between  *)
(* its SELECT of the failures an old server closed and the UPDATE that     *)
(* reopens them (558, 562) another request may come.  Here it is one step  *)
(* too, so that window, which only rows of an old server open, is left out.*)
(***************************************************************************)
EXTENDS Integers, FiniteSets

CONSTANTS
  Receipts,     \* DART receipt numbers
  Finds,        \* discovery candidates (canonical url and announcement time)
  RunKeys,      \* <<d, n>>: research-<day d>-0700-kst, with -r<n> when n > 0
  FiledOn,      \* the receipt date, part of every receipt number
  Class,        \* authoritative_report_class, amendments told apart
  MaxGens       \* bound: captured packet generations of one receipt

Classes == {"supply", "amendment", "other"}

ASSUME RunKeysAssumption == RunKeys \subseteq (Nat \ {0}) \X Nat
ASSUME FiledOnAssumption == FiledOn \in [Receipts -> Int]
ASSUME ClassAssumption == Class \in [Receipts -> Classes]
ASSUME MaxGensAssumption == MaxGens \in Nat
ASSUME FindsAssumption == Finds \cap Receipts = {}

VARIABLES rows, runs, evid

serverVars == <<rows, runs, evid>>

-----------------------------------------------------------------------------
(* Run keys *)

LegacyKey == <<0, 0>>    \* a canonical key older than every key of RunKeys
PoisonKey == <<0, 1>>    \* a first_run_key outside the canonical grammar
AnyKey == RunKeys \cup {LegacyKey, PoisonKey}

\* _research_run_order compares (date, revision).
Before(j, k) == j[1] < k[1] \/ (j[1] = k[1] /\ j[2] < k[2])

\* admitted_backlog_dates: the control day before the run's day, and that day.
InWindow(k, d) == d \in {k[1] - 1, k[1]}

-----------------------------------------------------------------------------
(* Sources.  "failed" carries an error code and no packet; "core" is the   *)
(* packet provenance of a v2 contract; "full" adds class and name (v3).    *)

Gens == 0..MaxGens
Source == [rcp : Receipts, form : {"failed", "core", "full"}, gen : Gens]
NoSource == [rcp |-> "none", form |-> "none", gen |-> 0]

FailedMatches(f, s) == f.form = "failed" /\ s.form # "core" /\ f.rcp = s.rcp
SameCore(a, b) == a.rcp = b.rcp /\ a.gen = b.gen /\ b.form # "failed"

CarriedMatches(c, s) ==
  FailedMatches(c, s) \/ (c.form = "core" /\ SameCore(c, s))

TerminalMatches(t, s) ==
  \/ FailedMatches(t, s)
  \/ t.form = "core" /\ SameCore(t, s)
  \/ t.form = "full" /\ t = s

CorrectionMatches(p, s) ==
  \/ TerminalMatches(p, s)
  \/ p.form \in {"core", "full"} /\ s.form = "full" /\ p.rcp = s.rcp /\ p.gen # s.gen

-----------------------------------------------------------------------------
(* Rows.  A correction's identity hashes its source and the prior terminal *)
(* row; the prior of a receipt never changes, so (receipt, generation).    *)

Dart(r) == <<"dart", r, 0>>
Corr(s) == <<"corr", s.rcp, s.gen>>
Disc(f) == <<"disc", f, 0>>
DartIds == {Dart(r) : r \in Receipts}
CorrIds == {"corr"} \X Receipts \X Gens
DiscIds == {Disc(f) : f \in Finds}
Ident == DartIds \cup CorrIds \cup DiscIds

Retryable == {"source_error", "store_error"}
Stored == {"saved", "existing", "correction_stored"}
Unstored == {"rejected", "hold"}
Disposition == Stored \cup Unstored \cup Retryable

Evidence == [key : Receipts \cup Finds, src : Source \cup {NoSource},
             run : RunKeys, mode : {"scheduled", "manual"}, late : BOOLEAN]
NoEvidence == [key |-> "none", src |-> NoSource, run |-> LegacyKey,
               mode |-> "none", late |-> FALSE]

Row == [status : {"absent", "pending", "terminal"}, src : Source \cup {NoSource},
        first : AnyKey, disp : Disposition \cup {"none", "invalid_noncanonical_seed"},
        run : AnyKey, ev : Evidence \cup {NoEvidence}]
NoRow == [status |-> "absent", src |-> NoSource, first |-> LegacyKey,
          disp |-> "none", run |-> LegacyKey, ev |-> NoEvidence]
PendingRow(s, k) == [NoRow EXCEPT !.status = "pending", !.src = s, !.first = k]
Closed(row, item, k) ==
  [row EXCEPT !.status = "terminal", !.disp = item.disp, !.run = k, !.ev = item.ev]

-----------------------------------------------------------------------------
(* Contracts: the schema version, the sources, the carried pending rows,   *)
(* and the terminal rows quoted as exclusions and as the originals of      *)
(* corrections.  Version 1 has sources only; version 2 adds the carry; the *)
(* prehook of today writes version 3.  The server accepts all of them.     *)

Carry == [id : Ident, src : Source \cup {NoSource}]
Quote == [rcp : Receipts, row : Row]
Contract == [ver : 1..3, srcs : SUBSET Source, carry : SUBSET Carry,
             excl : SUBSET Quote, corr : SUBSET Quote]
NoContract == [ver |-> 3, srcs |-> {}, carry |-> {}, excl |-> {}, corr |-> {}]

\* The sources whose rows a run opens at registration and closes at its finish:
\* under version 1 the server does neither.
Enlisted(c) == IF c.ver = 1 THEN {} ELSE c.srcs

ReceiptsOf(quotes) == {q.rcp : q \in quotes}
Admitted(c) == {s.rcp : s \in c.srcs}
CarriedDart(c) == {i \in c.carry : i.id[1] # "disc"}
CarriedFinds(c) == {i.id[2] : i \in {x \in c.carry : x.id[1] = "disc"}}
IdOf(c, s) == IF s.rcp \in ReceiptsOf(c.corr) THEN Corr(s) ELSE Dart(s.rcp)
IsCarried(c, r) == \E i \in CarriedDart(c) : i.src.rcp = r

\* _research_commitment: every check that does not read the database.
LawfulContract(k, c) ==
  /\ \A s, t \in c.srcs : s.rcp = t.rcp => s = t
  /\ \A i, j \in CarriedDart(c) : i.src.rcp = j.src.rcp => i = j
  /\ \A i \in CarriedDart(c) :
       /\ i.id[2] = i.src.rcp
       /\ \E s \in c.srcs : CarriedMatches(i.src, s)
                            \/ (i.id[1] = "corr" /\ i.src = s)
  /\ \/ \A s \in c.srcs : s.form = "core" /\ InWindow(k, FiledOn[s.rcp])
     \/ /\ c.ver > 1
        /\ \A s \in c.srcs : /\ s.form \in (IF c.ver = 2 THEN {"core"} ELSE {"failed", "full"})
                             /\ InWindow(k, FiledOn[s.rcp]) \/ IsCarried(c, s.rcp)
  /\ c.ver = 1 => c.carry = {}
  /\ c.ver < 3 => c.excl = {} /\ c.corr = {} /\ \A i \in c.carry : i.id[1] # "corr"

\* _is_terminal_prior_research_run
TerminalPrior(j, k) ==
  j \in RunKeys /\ Before(j, k) /\ runs[j].status \in {"done", "error"}

\* _terminal_dart_history against the rows R of the same transaction.
HistoryAgrees(R, k, c) ==
  /\ \A q \in c.excl \cup c.corr : q.row = R[Dart(q.rcp)] /\ q.row.status = "terminal"
  /\ ReceiptsOf(c.excl) \cap ReceiptsOf(c.corr) = {}
  /\ ReceiptsOf(c.excl) \cap Admitted(c) = {}
  /\ \A q \in c.corr :
       /\ \E s \in c.srcs : s.rcp = q.rcp /\ CorrectionMatches(q.row.src, s)
       /\ q.row.disp \in {"rejected", "hold"}
       /\ TerminalPrior(q.row.run, k)
  /\ \A i \in c.carry : i.id[1] = "corr" =>
       \E s \in c.srcs : /\ s.rcp = i.src.rcp /\ s.rcp \in ReceiptsOf(c.corr)
                         /\ i.id = Corr(s)
                         /\ R[i.id].status = "pending" /\ R[i.id].src = s

-----------------------------------------------------------------------------
(* Seeding and registration *)

\* A source some run admitted and left unfinished, for a row that is missing.  The
\* runs are read without an order; which of two comes first is left to CHOOSE.
Unfinished(r) ==
  {x \in RunKeys \X Source :
     runs[x[1]].status \in {"started", "error"} /\ x[2] \in runs[x[1]].con.srcs /\ x[2].rcp = r}

\* A failure an old server recorded as terminal is pending again.
Reopened(row) ==
  IF row.status = "terminal" /\ row.disp \in Retryable /\ row.first # PoisonKey
  THEN [row EXCEPT !.status = "pending"] ELSE row

Quarantined(row) ==
  IF row.status = "pending" /\ row.first = PoisonKey
  THEN [row EXCEPT !.status = "terminal", !.disp = "invalid_noncanonical_seed",
                   !.run = row.first]
  ELSE row

Enqueued(id, row) ==
  IF row.status = "absent" /\ id \in DartIds /\ Unfinished(id[2]) # {}
  THEN LET ks == CHOOSE x \in Unfinished(id[2]) : TRUE IN PendingRow(ks[2], ks[1])
  ELSE row

Seeded == [id \in Ident |-> Enqueued(id, Quarantined(Reopened(rows[id])))]

EnrichedNever(id, row, s) == row     \* mutant: the failure is never replaced

\* An exact failed payload is enriched by a source that was captured.
Enriched(id, row, s) ==
  IF row.status = "pending" /\ id \in DartIds /\ FailedMatches(row.src, s) /\ s.form # "failed"
  THEN [row EXCEPT !.src = s] ELSE row

\* _enqueue_backlog ignores an existing row.
Enrolled(R, k, c) ==
  [id \in Ident |->
     LET mine == {s \in Enlisted(c) : IdOf(c, s) = id}
         s == CHOOSE x \in mine : TRUE
     IN IF mine = {} THEN R[id]
        ELSE IF R[id].status = "absent" THEN PendingRow(s, k)
        ELSE Enriched(id, R[id], s)]

NoBody == [kind |-> "none", items |-> <<>>, finds |-> <<>>, cands |-> {}]
NoRun == [status |-> "none", con |-> NoContract, body |-> NoBody]

Registrable(k, c) == runs[k].status = "none" /\ LawfulContract(k, c) /\ HistoryAgrees(Seeded, k, c)

Register(k, c) ==
  /\ Registrable(k, c)
  /\ rows' = Enrolled(Seeded, k, c)
  /\ runs' = [runs EXCEPT ![k] = [NoRun EXCEPT !.status = "started", !.con = c]]
  /\ UNCHANGED evid

\* GET research-backlog commits the seeding it reads back.
ReadBacklog == rows' = Seeded /\ UNCHANGED <<runs, evid>>

Pending(R) == {id \in Ident : R[id].status = "pending"}

\* refresh-dart-packets: U maps identities to new generations; all or nothing.
Refreshable(U, old) ==
  /\ DOMAIN U # {}
  /\ \A id \in DOMAIN U :
       /\ id \in DartIds \cup CorrIds
       /\ rows[id].status = "pending" /\ rows[id].src = old[id].src
       /\ rows[id].first = old[id].first
       /\ rows[id].src.form = "core" /\ U[id] # rows[id].src.gen

RefreshPackets(U, old) ==
  /\ Refreshable(U, old)
  /\ rows' = [id \in Ident |-> IF id \in DOMAIN U
                               THEN [rows[id] EXCEPT !.src.gen = U[id]] ELSE rows[id]]
  /\ UNCHANGED <<runs, evid>>

-----------------------------------------------------------------------------
(* Evidence *)

\* create_evidence with a research_mode; dedupe_key is unique.
CreateEvidence(e) ==
  /\ e \in Evidence
  /\ \A x \in evid : x.key # e.key
  /\ e.mode = "scheduled" =>
       ~e.late /\ (e.key \in Receipts => InWindow(e.run, FiledOn[e.key]))
  /\ evid' = evid \cup {e}
  /\ UNCHANGED <<rows, runs>>

-----------------------------------------------------------------------------
(* Finishing a run *)

Item == [disp : Disposition, ev : Evidence \cup {NoEvidence}]
EconomicDisposition ==
  {"qualifying_A_or_better", "below_threshold", "negative_risk", "timing_unresolved", "error"}

\* _valid_control_economic_audit: q is the threshold recomputed from the facts.
AuditHolds(r, econ, q) ==
  \/ econ = "error"
  \/ Class[r] = "other"
  \/ econ = "timing_unresolved" /\ q
  \/ /\ econ # "timing_unresolved" /\ Class[r] = "supply"
     /\ q => econ = "qualifying_A_or_better"
  \/ /\ econ # "timing_unresolved" /\ Class[r] = "amendment"
     /\ q <=> (econ = "qualifying_A_or_better")

\* _valid_v3_terminal_routing
Routed(r, econ, q, disp, isCorr) ==
  IF econ = "error" THEN disp \in Retryable
  ELSE IF Class[r] = "other"
  THEN IF isCorr /\ econ = "timing_unresolved" THEN disp = "hold"
       ELSE /\ disp \in {"rejected", "hold"}
            /\ econ \in {"negative_risk", "below_threshold", "timing_unresolved"}
  ELSE IF ~q THEN econ = "below_threshold" /\ disp = "rejected"
  ELSE IF econ = "timing_unresolved" THEN disp = "hold"
  ELSE econ = "qualifying_A_or_better" /\ disp \in Stored \cup {"store_error"}

\* The closing rule of one admitted receipt, evidence bindings included.
ItemAllowed(k, s, isCorr, item) ==
  /\ runs[k].con.ver = 3 => \E econ \in EconomicDisposition, q \in BOOLEAN :
       AuditHolds(s.rcp, econ, q) /\ Routed(s.rcp, econ, q, item.disp, isCorr)
  /\ s.form = "failed" => item.disp = "source_error"
  /\ isCorr => item.disp \in {"correction_stored", "rejected", "hold"} \cup Retryable
  /\ item.disp \in Stored <=> item.ev # NoEvidence
  /\ item.disp \in Stored =>
       item.ev \in evid /\ item.ev.key = s.rcp /\ item.ev.src = s

\* _valid_candidate_evidence_bindings: the coverage lanes bind evidence of this
\* run, late only for a stored correction, as many as the receipts stored.
\* Only the numbers are compared with the receipts' own evidence.
LaneEvidence(k, b) ==
  {e \in evid : /\ e.run = k
                /\ e.late => \E r \in ReceiptsOf(runs[k].con.corr) :
                               b.items[r].ev = e /\ b.items[r].disp = "correction_stored"}
BindingsHold(k, b) ==
  Cardinality({r \in DOMAIN b.items : b.items[r].disp \in Stored})
    <= Cardinality(LaneEvidence(k, b))

FindAllowedAnyMode(k, f, item) ==    \* mutant: late evidence of the run itself counts
  /\ item.disp \in Stored \cup Unstored
  /\ item.disp \in Stored <=> item.ev # NoEvidence
  /\ item.disp \in Stored =>
       /\ item.ev \in evid /\ item.ev.key = f
       /\ \/ item.ev.run = k
          \/ /\ item.disp = "existing" /\ item.ev.mode = "manual"
             /\ TerminalPrior(item.ev.run, k)

\* A carried discovery closes on evidence of this run, or as existing on
\* manual evidence of an earlier terminal run.
FindAllowed(k, f, item) ==
  /\ item.disp \in Stored \cup Unstored
  /\ item.disp \in Stored <=> item.ev # NoEvidence
  /\ item.disp \in Stored =>
       /\ item.ev \in evid /\ item.ev.key = f
       /\ \/ item.ev.mode = "scheduled" /\ item.ev.run = k
          \/ /\ item.disp = "existing" /\ item.ev.mode = "manual"
             /\ TerminalPrior(item.ev.run, k)

StillOpenAnyStatus(c, s) ==          \* mutant: a closed row may be closed again
  LET src == rows[IdOf(c, s)].src IN
  IF IsCarried(c, s.rcp) /\ s.rcp \notin ReceiptsOf(c.corr) THEN TerminalMatches(src, s) ELSE src = s

StillOpenAnyPayload(c, s) ==         \* mutant: a renewed payload is not noticed
  rows[IdOf(c, s)].status = "pending"

\* _terminalize_v2_backlog: the row is pending with the admitted payload.
StillOpen(c, s) ==
  LET row == rows[IdOf(c, s)] IN
  /\ row.status = "pending"
  /\ IF IsCarried(c, s.rcp) /\ s.rcp \notin ReceiptsOf(c.corr)
     THEN TerminalMatches(row.src, s) ELSE row.src = s

DoneAccepted(k, b) ==
  LET c == runs[k].con IN
  /\ DOMAIN b.items = Admitted(c)
  /\ BindingsHold(k, b)
  /\ HistoryAgrees(rows, k, c)
  /\ \A s \in c.srcs \ Enlisted(c) : b.items[s.rcp].disp \notin Retryable
  /\ \A s \in Enlisted(c) : /\ ItemAllowed(k, s, s.rcp \in ReceiptsOf(c.corr), b.items[s.rcp])
                            /\ StillOpen(c, s)
  /\ DOMAIN b.finds = CarriedFinds(c)
  /\ \A f \in CarriedFinds(c) : FindAllowed(k, f, b.finds[f]) /\ rows[Disc(f)].status = "pending"

CloseRowsStored(k, b) ==             \* mutant: a rejection or a hold stays pending
  LET c == runs[k].con IN
  [id \in Ident |->
     IF \E s \in Enlisted(c) : IdOf(c, s) = id /\ b.items[s.rcp].disp \in Stored
     THEN Closed(rows[id], b.items[id[2]], k)
     ELSE IF \E f \in CarriedFinds(c) : Disc(f) = id THEN Closed(rows[id], b.finds[id[2]], k)
     ELSE rows[id]]

CloseRowsOfReceipt(k, b) ==          \* mutant: the original of a correction closes with it
  LET c == runs[k].con IN
  [id \in Ident |->
     IF \E s \in Enlisted(c) : id[2] = s.rcp /\ b.items[s.rcp].disp \notin Retryable
     THEN Closed(rows[id], b.items[id[2]], k)
     ELSE IF \E f \in CarriedFinds(c) : Disc(f) = id THEN Closed(rows[id], b.finds[id[2]], k)
     ELSE rows[id]]

CloseRows(k, b) ==
  LET c == runs[k].con IN
  [id \in Ident |->
     IF \E s \in Enlisted(c) : IdOf(c, s) = id /\ b.items[s.rcp].disp \notin Retryable
     THEN Closed(rows[id], b.items[id[2]], k)
     ELSE IF \E f \in CarriedFinds(c) : Disc(f) = id THEN Closed(rows[id], b.finds[id[2]], k)
     ELSE rows[id]]

\* The UPDATE leaves a run that already reached done or error as it is.
Settle(k, status, b) ==
  runs' = IF runs[k].status \in {"done", "error"} THEN runs
          ELSE [runs EXCEPT ![k].status = status, ![k].body = b]

\* An exact repeat of the stored finish returns before any of this.
Repeats(k, b) == runs[k].status \in {"done", "error"} /\ runs[k].body = b

FinishDone(k, b) ==
  /\ b.kind = "done" /\ runs[k].status # "none" /\ ~Repeats(k, b)
  /\ DoneAccepted(k, b)
  /\ rows' = CloseRows(k, b)
  /\ Settle(k, "done", b)
  /\ UNCHANGED evid

FinishErrorForgets(k, b) ==          \* mutant: the reported candidates are dropped
  /\ b.kind = "error" /\ runs[k].status # "none" /\ ~Repeats(k, b)
  /\ Settle(k, "error", b)
  /\ UNCHANGED <<rows, evid>>

FinishError(k, b) ==
  /\ b.kind = "error" /\ runs[k].status # "none" /\ ~Repeats(k, b)
  /\ rows' = [id \in Ident |->
                IF rows[id].status = "absent" /\ \E f \in b.cands : Disc(f) = id
                THEN PendingRow(NoSource, k) ELSE rows[id]]
  /\ Settle(k, "error", b)
  /\ UNCHANGED evid

-----------------------------------------------------------------------------
Body(c) ==
  [kind : {"done"}, items : [Admitted(c) -> Item], finds : [CarriedFinds(c) -> Item],
   cands : {{}}]
  \cup [kind : {"error"}, items : {<<>>}, finds : {<<>>}, cands : SUBSET Finds]

\* What an upgraded database may already hold for a receipt filed before day 1.
LegacyRow(r) ==
  LET core == [rcp |-> r, form |-> "core", gen |-> 1] IN
  IF FiledOn[r] > 0 \/ MaxGens = 0 THEN {NoRow}
  ELSE {NoRow, PendingRow(core, LegacyKey), PendingRow(core, PoisonKey),
        [PendingRow(core, LegacyKey) EXCEPT !.status = "terminal", !.disp = "source_error"]}

ServerInit ==
  /\ \E old \in [Receipts -> UNION {LegacyRow(r) : r \in Receipts}] :
       /\ \A r \in Receipts : old[r] \in LegacyRow(r)
       /\ rows = [id \in Ident |-> IF id \in DartIds THEN old[id[2]] ELSE NoRow]
  /\ runs = [k \in RunKeys |-> NoRun]
  /\ evid = {}

ServerNext ==
  \/ ReadBacklog
  \/ \E k \in RunKeys, c \in Contract : Register(k, c)
  \/ \E ids \in SUBSET (DartIds \cup CorrIds) : \E U \in [ids -> Gens \ {0}] : RefreshPackets(U, rows)
  \/ \E e \in Evidence : CreateEvidence(e)
  \/ \E k \in RunKeys : \E b \in Body(runs[k].con) : FinishDone(k, b) \/ FinishError(k, b)

ServerSpec == ServerInit /\ [][ServerNext]_serverVars

-----------------------------------------------------------------------------
(* Properties *)

ServerTypeOK ==
  /\ rows \in [Ident -> Row]
  /\ \A k \in RunKeys : /\ runs[k].status \in {"none", "started", "done", "error"}
                         /\ runs[k].con.srcs \subseteq Source
                         /\ runs[k].body.kind \in {"none", "done", "error"}
  /\ evid \subseteq Evidence

Decided(row) == row.status = "terminal" /\ row.disp \in Stored \cup Unstored

\* A terminal decision is never taken back, rewritten or attributed to another
\* run: not by seeding, a later registration, a refresh or a repeated finish.
DecisionIsFinal ==
  [][\A id \in Ident : Decided(rows[id]) => rows'[id] = rows[id]]_serverVars

\* A DART decision was taken by a run whose contract enlisted that very row,
\* with the payload the row holds; a run of version 1 closes none.
ClosedUnderContract ==
  \A id \in DartIds \cup CorrIds : Decided(rows[id]) =>
    /\ rows[id].run \in RunKeys
    /\ \E s \in Enlisted(runs[rows[id].run].con) :
         IdOf(runs[rows[id].run].con, s) = id /\ TerminalMatches(rows[id].src, s)

\* A correction exists only behind a rejected or held original that an earlier,
\* finished run decided.
CorrectionHasOriginal ==
  \A id \in CorrIds : rows[id].status # "absent" =>
    LET prior == rows[Dart(id[2])] IN
    /\ prior.status = "terminal" /\ prior.disp \in Unstored
    /\ Before(prior.run, rows[id].first)

\* What a run registered under version 2 or 3 admitted is tracked: it has a row,
\* and a source that was captured is not still recorded as unavailable.  Version 1
\* promises no row: a later seeding makes one while the run is unfinished, and
\* once it is done none ever comes of it.
AdmittedWorkIsTracked ==
  \A k \in RunKeys : \A s \in Enlisted(runs[k].con) :
    LET row == rows[IdOf(runs[k].con, s)] IN
    row.status # "absent" /\ (s.form = "full" => row.src.form # "failed")

\* A done run accounts for every receipt it enlisted: each decision of its stored
\* finish is the row's, under this run.
DoneRunIsAccounted ==
  \A k \in RunKeys : runs[k].status = "done" =>
    \A s \in Enlisted(runs[k].con) :
      LET item == runs[k].body.items[s.rcp]  row == rows[IdOf(runs[k].con, s)] IN
      item.disp \notin Retryable => row.run = k /\ row.disp = item.disp /\ row.ev = item.ev

\* What a discovery sweep reported in an error finish stays tracked until a run
\* that carried it closes it.
FindIsTracked ==
  \A k \in RunKeys : \A f \in runs[k].body.cands :
    LET row == rows[Disc(f)] IN
    \/ row.status = "pending"
    \/ row.status = "terminal" /\ f \in CarriedFinds(runs[row.run].con)

\* A stored discovery names evidence the closing run stored within its cutoff,
\* or manual evidence of an earlier run that has ended: never late evidence of the
\* run itself, nor evidence of an unfinished or a later one.
FindClosedOnEvidence ==
  \A f \in Finds :
    LET row == rows[Disc(f)]  e == row.ev IN
    (row.status = "terminal" /\ row.disp \in Stored) =>
      /\ e \in evid /\ e.key = f
      /\ IF e.run = row.run THEN e.mode = "scheduled"
         ELSE /\ e.mode = "manual" /\ Before(e.run, row.run)
              /\ runs[e.run].status \in {"done", "error"}
=============================================================================
