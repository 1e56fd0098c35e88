--------------------------- MODULE ResearchProofs ---------------------------
(***************************************************************************)
(* Proofs about ResearchBacklog and ResearchGate.  The server's properties *)
(* are proved of the server alone, called by anyone (ServerSpec); the      *)
(* prehook and the agent then turn out to be such callers, so they hold of *)
(* Spec too.  The prehook's own invariant GInv adds what a running         *)
(* invocation remembers and what it left on disk.                          *)
(*                                                                         *)
(* A server step is first described row by row (RowStep) and run by run    *)
(* (RunStep): a decided row and a finished run do not change, a row that   *)
(* exists goes on existing, a registered run keeps its contract.  What     *)
(* these facts do not give, the step owes for the objects it makes (Owed). *)
(***************************************************************************)
EXTENDS ResearchGate, SequenceTheorems, TLAPS

-----------------------------------------------------------------------------
(* The invariant of the server, whoever calls it.                            *)

\* A registered run keeps its contract, and its body answers that contract.
RunProper(run) ==
  /\ DOMAIN run = {"status", "con", "body"}
  /\ run.status \in {"none", "started", "done", "error"} /\ run.con \in Contract
  /\ run.body.kind \in {"none", "done", "error"} /\ run.body.cands \subseteq Finds
  /\ run.status = "none" => run.con = NoContract /\ run.body = NoBody
  /\ run.status = "started" => run.body = NoBody
  /\ run.status = "done" => run.body \in Body(run.con) /\ run.body.kind = "done"
ServerTypes ==
  /\ rows \in [Ident -> Row]
  /\ DOMAIN runs = RunKeys /\ \A k \in RunKeys : RunProper(runs[k])
  /\ evid \subseteq Evidence

\* A receipt's rows hold that receipt's source; only a pending row can still be without a packet.
DartIdent == DartIds \cup CorrIds
SourceOfReceipt(id, row) ==
  id \in DartIdent /\ row.status # "absent" =>
    /\ row.src \in Source /\ row.src.rcp = id[2]
    /\ row.src.form = "failed" => id \in DartIds /\ row.status = "pending"
OnlyLegacyPoison(id, row) ==
  row.first = PoisonKey => id \in DartIds /\ row.src.form = "core"
FindClosedByCarrier(id, row) ==
  id \in DiscIds /\ row.status = "terminal" =>
    Decided(row) /\ row.run \in RunKeys /\ id[2] \in CarriedFinds(runs[row.run].con)
RowsProper ==
  \A id \in Ident : /\ SourceOfReceipt(id, rows[id])
                    /\ OnlyLegacyPoison(id, rows[id])
                    /\ FindClosedByCarrier(id, rows[id])

\* DoneRunIsAccounted, strengthened: the rows it names are closed.
DoneRunIsClosed ==
  \A k \in RunKeys : runs[k].status = "done" =>
    \A s \in Enlisted(runs[k].con) :
      LET item == runs[k].body.items[s.rcp]  row == rows[IdOf(runs[k].con, s)] IN
      item.disp \notin Retryable =>
        row.status = "terminal" /\ row.run = k /\ row.disp = item.disp /\ row.ev = item.ev

SInv == /\ ServerTypes /\ RowsProper
        /\ AdmittedWorkIsTracked /\ ClosedUnderContract /\ CorrectionHasOriginal
        /\ DoneRunIsClosed /\ FindIsTracked /\ FindClosedOnEvidence

-----------------------------------------------------------------------------
(* Keys, identities, sources and rows.                                       *)

LEMMA Keys ==
  /\ PoisonKey \notin RunKeys /\ LegacyKey \notin RunKeys /\ LegacyKey # PoisonKey
  /\ \A k \in RunKeys : k \in AnyKey /\ ~Before(k, k)
BY RunKeysAssumption DEF PoisonKey, LegacyKey, AnyKey, Before

LEMMA Identities ==
  /\ \A r \in Receipts : Dart(r) \in DartIds /\ Dart(r) \in Ident /\ Dart(r)[2] = r
  /\ \A s \in Source : Corr(s) \in CorrIds /\ Corr(s) \in Ident /\ Corr(s)[2] = s.rcp
  /\ \A f \in Finds : Disc(f) \in DiscIds /\ Disc(f) \in Ident /\ Disc(f)[2] = f
  /\ \A id \in DartIds : id[2] \in Receipts /\ id = Dart(id[2]) /\ id \notin CorrIds /\ id \notin DiscIds
  /\ \A id \in CorrIds : id[2] \in Receipts /\ id \notin DartIds /\ id \notin DiscIds
  /\ \A id \in DiscIds : id[2] \in Finds /\ id = Disc(id[2]) /\ id \notin DartIds /\ id \notin CorrIds
  /\ \A id \in Ident : id \in DartIds \/ id \in CorrIds \/ id \in DiscIds
BY DEF Dart, Corr, Disc, DartIds, CorrIds, DiscIds, Ident, Source

LEMMA IdentitySorts ==
  ASSUME NEW c, NEW s \in Source
  PROVE  /\ IdOf(c, s) \in DartIdent /\ IdOf(c, s) \in Ident /\ IdOf(c, s) \notin DiscIds
         /\ IdOf(c, s)[2] = s.rcp /\ s.rcp \in Receipts
         /\ s.rcp \in ReceiptsOf(c.corr) => IdOf(c, s) = Corr(s) /\ IdOf(c, s) \in CorrIds
         /\ s.rcp \notin ReceiptsOf(c.corr) => IdOf(c, s) = Dart(s.rcp) /\ IdOf(c, s) \in DartIds
<1>1. s.rcp \in Receipts
  BY DEF Source
<1> QED BY <1>1, Identities DEF IdOf, DartIdent

LEMMA RowFields ==
  ASSUME NEW row \in Row
  PROVE  /\ row.status \in {"absent", "pending", "terminal"} /\ row.src \in Source \cup {NoSource}
         /\ row.first \in AnyKey /\ row.run \in AnyKey /\ row.ev \in Evidence \cup {NoEvidence}
         /\ row.disp \in Disposition \cup {"none", "invalid_noncanonical_seed"}
BY DEF Row

LEMMA NoRowIsRow == NoRow \in Row /\ NoRow.status = "absent" /\ NoRow.first = LegacyKey
BY DEF NoRow, Row, NoSource, NoEvidence, AnyKey

LEMMA PendingFields ==
  ASSUME NEW s \in Source \cup {NoSource}, NEW k \in AnyKey
  PROVE  /\ PendingRow(s, k) \in Row /\ PendingRow(s, k).status = "pending"
         /\ PendingRow(s, k).src = s /\ PendingRow(s, k).first = k
<1>1. [[NoRow EXCEPT !.status = "pending"] EXCEPT !.src = s] \in Row
  BY NoRowIsRow DEF Row
<1> QED BY <1>1, NoRowIsRow DEF PendingRow, Row

LEMMA ClosedFields ==
  ASSUME NEW row \in Row, NEW item \in Item, NEW k \in AnyKey
  PROVE  /\ Closed(row, item, k) \in Row /\ Closed(row, item, k).status = "terminal"
         /\ Closed(row, item, k).src = row.src /\ Closed(row, item, k).first = row.first
         /\ Closed(row, item, k).disp = item.disp /\ Closed(row, item, k).run = k
         /\ Closed(row, item, k).ev = item.ev
<1>1. item.disp \in Disposition /\ item.ev \in Evidence \cup {NoEvidence}
  BY DEF Item
<1>2. [row EXCEPT !.status = "terminal"] \in Row
  BY DEF Row
<1> DEFINE r1 == [row EXCEPT !.status = "terminal"]
           r2 == [r1 EXCEPT !.disp = item.disp]
           r3 == [r2 EXCEPT !.run = k]
           r4 == [r3 EXCEPT !.ev = item.ev]
<1>3. r1 \in Row /\ r1.status = "terminal" /\ r1.src = row.src /\ r1.first = row.first
  BY DEF Row
<1>4. r2 \in Row /\ r2.status = "terminal" /\ r2.src = row.src /\ r2.first = row.first
      /\ r2.disp = item.disp
  <2> HIDE DEF r1
  <2> QED BY <1>1, <1>3 DEF Row
<1>5. r3 \in Row /\ r3.status = "terminal" /\ r3.src = row.src /\ r3.first = row.first
      /\ r3.disp = item.disp /\ r3.run = k
  <2> HIDE DEF r2
  <2> QED BY <1>1, <1>4 DEF Row
<1>6. r4 \in Row /\ r4.status = "terminal" /\ r4.src = row.src /\ r4.first = row.first
      /\ r4.disp = item.disp /\ r4.run = k /\ r4.ev = item.ev
  <2> HIDE DEF r3
  <2> QED BY <1>1, <1>5 DEF Row
<1>7. Closed(row, item, k) = r4
  BY DEF Closed
<1> QED BY <1>6, <1>7

LEMMA Dispositions ==
  /\ Stored \cap Retryable = {} /\ Unstored \cap Retryable = {} /\ Stored \cap Unstored = {}
  /\ Disposition = Stored \cup Unstored \cup Retryable
  /\ "invalid_noncanonical_seed" \notin Disposition /\ "none" \notin Disposition
  /\ Unstored = {"rejected", "hold"}
BY DEF Stored, Unstored, Retryable, Disposition

-----------------------------------------------------------------------------
(* What every step of the server does to a row and to a run.                 *)

\* A decided row does not change; an existing one keeps its first run and goes on
\* existing, and a captured payload never turns into a failed one.
Carries(old, new) ==
  /\ new \in Row
  /\ Decided(old) => new = old
  /\ old.status # "absent" =>
       /\ new.status # "absent" /\ new.first = old.first
       /\ new.src.form = "failed" => old.src.form = "failed"
RowStep == rows' \in [Ident -> Row] /\ \A id \in Ident : Carries(rows[id], rows'[id])
\* A registered run keeps its contract; a finished one keeps everything.
RunStep ==
  /\ DOMAIN runs' = RunKeys
  /\ \A k \in RunKeys :
       /\ RunProper(runs'[k])
       /\ runs[k].status # "none" => runs'[k].status # "none" /\ runs'[k].con = runs[k].con
       /\ runs[k].status \in {"done", "error"} => runs'[k] = runs[k]
EvidenceStep == evid \subseteq evid' /\ evid' \subseteq Evidence

\* The properties, one object at a time.
Tracked(k, s) ==
  LET row == rows[IdOf(runs[k].con, s)] IN
  row.status # "absent" /\ (s.form = "full" => row.src.form # "failed")
HasOriginal(id) ==
  LET prior == rows[Dart(id[2])] IN
  /\ prior.status = "terminal" /\ prior.disp \in Unstored
  /\ Before(prior.run, rows[id].first)
UnderContract(id) ==
  /\ rows[id].run \in RunKeys
  /\ \E s \in Enlisted(runs[rows[id].run].con) :
       IdOf(runs[rows[id].run].con, s) = id /\ TerminalMatches(rows[id].src, s)
Accounted(k, s) ==
  LET item == runs[k].body.items[s.rcp]  row == rows[IdOf(runs[k].con, s)] IN
  item.disp \notin Retryable =>
    row.status = "terminal" /\ row.run = k /\ row.disp = item.disp /\ row.ev = item.ev
FoundOnEvidence(f) ==
  LET row == rows[Disc(f)]  e == row.ev IN
  (row.status = "terminal" /\ row.disp \in Stored) =>
    /\ e \in evid /\ e.key = f
    /\ IF e.run = row.run THEN e.mode = "scheduled"
       ELSE /\ e.mode = "manual" /\ Before(e.run, row.run)
            /\ runs[e.run].status \in {"done", "error"}

\* What a step owes for the objects it makes.
NewRuns ==
  \A k \in RunKeys : runs[k].status = "none" => \A s \in Enlisted(runs'[k].con) : Tracked(k, s)'
NewCorrections ==
  \A id \in CorrIds : rows[id].status = "absent" /\ rows'[id].status # "absent" => HasOriginal(id)'
NewDecisions ==
  \A id \in DartIdent : ~Decided(rows[id]) /\ Decided(rows'[id]) => UnderContract(id)'
NewDone ==
  \A k \in RunKeys : runs[k].status # "done" /\ runs'[k].status = "done" =>
    \A s \in Enlisted(runs'[k].con) : Accounted(k, s)'
NewReports ==
  \A k \in RunKeys : runs'[k] # runs[k] =>
    \A f \in runs'[k].body.cands : rows'[Disc(f)].status # "absent"
NewFinds == \A f \in Finds : ~Decided(rows[Disc(f)]) => FoundOnEvidence(f)'
Owed == NewRuns /\ NewCorrections /\ NewDecisions /\ NewDone /\ NewReports /\ NewFinds

LEMMA Decisions ==
  ASSUME NEW row
  PROVE  /\ Decided(row) <=> row.status = "terminal" /\ row.disp \in Stored \cup Unstored
         /\ row.status = "terminal" /\ row.disp \in Stored => Decided(row)
BY DEF Decided

\* A done run's items have the type of items.
LEMMA ItemTypes ==
  ASSUME NEW c \in Contract, NEW b \in Body(c)
  PROVE  /\ b.kind \in {"done", "error"} /\ b.cands \subseteq Finds
         /\ b.kind = "done" => /\ b.cands = {}
                               /\ \A s \in c.srcs : b.items[s.rcp] \in Item
                               /\ \A f \in CarriedFinds(c) : b.finds[f] \in Item
BY DEF Body, Admitted

LEMMA DoneItems ==
  ASSUME SInv, NEW k \in RunKeys, runs[k].status = "done", NEW s \in runs[k].con.srcs
  PROVE  runs[k].body.items[s.rcp].disp \in Disposition
<1>1. /\ runs[k].con \in Contract /\ runs[k].body \in Body(runs[k].con)
      /\ runs[k].body.kind = "done"
  BY DEF SInv, ServerTypes, RunProper
<1>2. runs[k].body.items[s.rcp] \in Item
  BY <1>1, ItemTypes
<1> QED BY <1>2 DEF Item

LEMMA EnlistedSources == ASSUME NEW c PROVE Enlisted(c) \subseteq c.srcs
BY DEF Enlisted

LEMMA ContractSources ==
  ASSUME SInv, NEW k \in RunKeys
  PROVE  /\ runs[k].con \in Contract /\ runs[k].con.srcs \subseteq Source
         /\ Enlisted(runs[k].con) \subseteq Source
         /\ runs[k].status = "none" => runs[k].con.srcs = {} /\ runs[k].con.carry = {}
         /\ RunProper(runs[k])
<1>1. RunProper(runs[k])
  BY DEF SInv, ServerTypes
<1> QED BY <1>1, EnlistedSources DEF RunProper, Contract, NoContract

\* What was tracked, closed or backed stays so, whatever the step.
LEMMA TrackedStays ==
  ASSUME SInv, RowStep, RunStep, NEW k \in RunKeys, runs[k].status # "none",
         NEW s \in Enlisted(runs[k].con)
  PROVE  Tracked(k, s)'
<1>1. runs'[k].con = runs[k].con /\ s \in Source
  BY ContractSources DEF RunStep
<1>2. IdOf(runs[k].con, s) \in Ident
  BY <1>1, IdentitySorts
<1>3. Tracked(k, s)
  BY DEF SInv, AdmittedWorkIsTracked, Tracked
<1> QED BY <1>1, <1>2, <1>3 DEF RowStep, Carries, Tracked

LEMMA OriginalStays ==
  ASSUME SInv, RowStep, NEW id \in CorrIds, rows[id].status # "absent"
  PROVE  HasOriginal(id)'
<1>1. HasOriginal(id)
  BY DEF SInv, CorrectionHasOriginal, HasOriginal
<1>2. Dart(id[2]) \in Ident /\ id \in Ident
  BY Identities DEF Ident
<1>3. Decided(rows[Dart(id[2])])
  BY <1>1 DEF HasOriginal, Decided
<1> QED BY <1>1, <1>2, <1>3 DEF RowStep, Carries, HasOriginal

LEMMA DecisionStays ==
  ASSUME SInv, RowStep, RunStep, NEW id \in DartIdent, Decided(rows[id])
  PROVE  UnderContract(id)'
<1>1. UnderContract(id)
  BY DEF SInv, ClosedUnderContract, UnderContract, DartIdent
<1>2. rows'[id] = rows[id]
  BY DEF RowStep, Carries, DartIdent, Ident
<1>3. rows[id].run \in RunKeys /\ runs[rows[id].run].con.srcs # {}
  BY <1>1, EnlistedSources DEF UnderContract
<1>4. runs'[rows[id].run].con = runs[rows[id].run].con
  BY <1>3, ContractSources DEF RunStep
<1> QED BY <1>1, <1>2, <1>4 DEF UnderContract

LEMMA AccountStays ==
  ASSUME SInv, RowStep, RunStep, NEW k \in RunKeys, runs[k].status = "done",
         NEW s \in Enlisted(runs[k].con)
  PROVE  Accounted(k, s)'
<1>1. runs'[k] = runs[k] /\ s \in Source
  BY ContractSources DEF RunStep
<1>2. IdOf(runs[k].con, s) \in Ident
  BY <1>1, IdentitySorts
<1>3. Accounted(k, s)
  BY DEF SInv, DoneRunIsClosed, Accounted
<1>4. runs[k].body.items[s.rcp].disp \in Disposition
  BY DoneItems, EnlistedSources
<1>5. CASE runs[k].body.items[s.rcp].disp \in Retryable
  BY <1>1, <1>5 DEF Accounted
<1>6. CASE runs[k].body.items[s.rcp].disp \notin Retryable
  <2>1. Decided(rows[IdOf(runs[k].con, s)])
    BY <1>3, <1>4, <1>6, Dispositions DEF Accounted, Decided
  <2>2. rows'[IdOf(runs[k].con, s)] = rows[IdOf(runs[k].con, s)]
    BY <1>2, <2>1 DEF RowStep, Carries
  <2> QED BY <1>1, <1>3, <2>2 DEF Accounted
<1> QED BY <1>5, <1>6

LEMMA FindStays ==
  ASSUME SInv, RowStep, RunStep, EvidenceStep, NEW f \in Finds, Decided(rows[Disc(f)])
  PROVE  FoundOnEvidence(f)'
<1>1. FoundOnEvidence(f)
  BY DEF SInv, FindClosedOnEvidence, FoundOnEvidence
<1>2. rows'[Disc(f)] = rows[Disc(f)]
  BY Identities DEF RowStep, Carries
<1>3. \A e \in evid : e.run \in RunKeys
  BY DEF SInv, ServerTypes, Evidence
<1>4. \A k \in RunKeys : runs[k].status \in {"done", "error"} => runs'[k].status \in {"done", "error"}
  BY DEF RunStep
<1> QED BY <1>1, <1>2, <1>3, <1>4 DEF FoundOnEvidence, EvidenceStep

\* A tracked find is an open one, or one that a run closed which carried it.
LEMMA ReportedFinds ==
  ASSUME ServerTypes, RowsProper, NEW f \in Finds, rows[Disc(f)].status # "absent"
  PROVE  \/ rows[Disc(f)].status = "pending"
         \/ rows[Disc(f)].status = "terminal" /\ f \in CarriedFinds(runs[rows[Disc(f)].run].con)
<1>1. Disc(f) \in Ident /\ Disc(f) \in DiscIds /\ Disc(f)[2] = f
  BY Identities
<1>2. rows[Disc(f)].status \in {"absent", "pending", "terminal"}
  BY <1>1, RowFields DEF ServerTypes
<1> QED BY <1>1, <1>2 DEF RowsProper, FindClosedByCarrier

LEMMA ServerStepInv ==
  ASSUME SInv, RowStep, RunStep, EvidenceStep, RowsProper', Owed PROVE SInv'
<1>1. ServerTypes'
  BY DEF ServerTypes, RowStep, RunStep, EvidenceStep
<1>2. AdmittedWorkIsTracked'
  <2> SUFFICES ASSUME NEW k \in RunKeys, NEW s \in Enlisted(runs'[k].con) PROVE Tracked(k, s)'
    BY DEF AdmittedWorkIsTracked, Tracked
  <2>1. CASE runs[k].status = "none"
    BY <2>1 DEF Owed, NewRuns
  <2>2. CASE runs[k].status # "none"
    BY <2>2, TrackedStays DEF RunStep
  <2> QED BY <2>1, <2>2
<1>3. CorrectionHasOriginal'
  <2> SUFFICES ASSUME NEW id \in CorrIds, rows'[id].status # "absent" PROVE HasOriginal(id)'
    BY DEF CorrectionHasOriginal, HasOriginal
  <2> QED BY OriginalStays DEF Owed, NewCorrections
<1>4. ClosedUnderContract'
  <2> SUFFICES ASSUME NEW id \in DartIdent, Decided(rows'[id]) PROVE UnderContract(id)'
    BY DEF ClosedUnderContract, UnderContract, DartIdent, Decided
  <2> QED BY DecisionStays DEF Owed, NewDecisions
<1>5. DoneRunIsClosed'
  <2> SUFFICES ASSUME NEW k \in RunKeys, runs'[k].status = "done", NEW s \in Enlisted(runs'[k].con)
               PROVE  Accounted(k, s)'
    BY DEF DoneRunIsClosed, Accounted
  <2>1. CASE runs[k].status = "done"
    BY <2>1, AccountStays DEF RunStep
  <2>2. CASE runs[k].status # "done"
    BY <2>2 DEF Owed, NewDone
  <2> QED BY <2>1, <2>2
<1>6. FindIsTracked'
  <2> SUFFICES ASSUME NEW k \in RunKeys, NEW f \in runs'[k].body.cands
               PROVE  \/ rows'[Disc(f)].status = "pending"
                      \/ rows'[Disc(f)].status = "terminal"
                         /\ f \in CarriedFinds(runs'[rows'[Disc(f)].run].con)
    BY DEF FindIsTracked
  <2>1. f \in Finds
    BY DEF RunStep, RunProper
  <2>2. rows'[Disc(f)].status # "absent"
    <3>1. CASE runs'[k] # runs[k]
      BY <3>1 DEF Owed, NewReports
    <3>2. CASE runs'[k] = runs[k]
      <4>1. rows[Disc(f)].status # "absent"
        BY <3>2 DEF SInv, FindIsTracked
      <4> QED BY <2>1, <4>1, Identities DEF RowStep, Carries
    <3> QED BY <3>1, <3>2
  <2>3. Disc(f) \in Ident /\ Disc(f) \in DiscIds /\ Disc(f)[2] = f
    BY <2>1, Identities
  <2>4. rows'[Disc(f)].status \in {"absent", "pending", "terminal"}
    BY <2>3, RowFields DEF RowStep, Carries
  <2> QED BY <2>2, <2>3, <2>4 DEF RowsProper, FindClosedByCarrier
<1>7. FindClosedOnEvidence'
  <2> SUFFICES ASSUME NEW f \in Finds PROVE FoundOnEvidence(f)'
    BY DEF FindClosedOnEvidence, FoundOnEvidence
  <2> QED BY FindStays DEF Owed, NewFinds
<1> QED BY <1>1, <1>2, <1>3, <1>4, <1>5, <1>6, <1>7 DEF SInv

-----------------------------------------------------------------------------
(* Seeding.                                                                  *)

\* Seeding only ever makes a row for what a run of version 1 admitted and left
\* unfinished: what the other versions admitted has its row.
LEMMA NothingLost ==
  ASSUME SInv, NEW r \in Receipts, rows[Dart(r)].status = "absent", NEW x \in Unfinished(r)
  PROVE  /\ x[1] \in RunKeys /\ x[2] \in Source /\ x[2].rcp = r
         /\ runs[x[1]].con.ver = 1
<1> DEFINE k == x[1]
           s == x[2]
<1>1. k \in RunKeys /\ s \in runs[k].con.srcs /\ s.rcp = r /\ s \in Source
  BY DEF Unfinished
<1> HIDE DEF k, s
<1>2. ASSUME s \in Enlisted(runs[k].con) PROVE FALSE
  <2>1. rows[IdOf(runs[k].con, s)].status # "absent"
    BY <1>1, <1>2 DEF SInv, AdmittedWorkIsTracked
  <2>2. CASE IdOf(runs[k].con, s) = Dart(s.rcp)
    BY <1>1, <2>1, <2>2
  <2>3. CASE IdOf(runs[k].con, s) = Corr(s) /\ Corr(s) \in CorrIds
    <3>1. rows[Dart(Corr(s)[2])].status = "terminal"
      BY <2>1, <2>3 DEF SInv, CorrectionHasOriginal
    <3> QED BY <1>1, <3>1, Identities
  <2> QED BY <1>1, <2>2, <2>3, IdentitySorts
<1>3. runs[k].con.ver = 1
  BY <1>1, <1>2 DEF Enlisted
<1> QED BY <1>1, <1>3 DEF k, s

LEMMA ReopenedRow ==
  ASSUME NEW row \in Row
  PROVE  /\ Reopened(row) \in Row /\ Reopened(row).src = row.src /\ Reopened(row).first = row.first
         /\ Reopened(row) = row \/ (Reopened(row).status = "pending" /\ row.status = "terminal"
                                    /\ row.disp \in Retryable /\ row.first # PoisonKey)
BY DEF Reopened, Row

LEMMA QuarantinedRow ==
  ASSUME NEW row \in Row
  PROVE  /\ Quarantined(row) \in Row /\ Quarantined(row).src = row.src
         /\ Quarantined(row).first = row.first
         /\ \/ Quarantined(row) = row
            \/ /\ Quarantined(row).status = "terminal" /\ row.status = "pending"
               /\ Quarantined(row).disp = "invalid_noncanonical_seed" /\ row.first = PoisonKey
<1> DEFINE r1 == [row EXCEPT !.status = "terminal"]
           r2 == [r1 EXCEPT !.disp = "invalid_noncanonical_seed"]
           r3 == [r2 EXCEPT !.run = row.first]
<1>1. r1 \in Row /\ r1.src = row.src /\ r1.first = row.first /\ r1.status = "terminal"
  BY DEF Row
<1>2. r2 \in Row /\ r2.src = row.src /\ r2.first = row.first /\ r2.status = "terminal"
      /\ r2.disp = "invalid_noncanonical_seed"
  <2> HIDE DEF r1
  <2> QED BY <1>1 DEF Row
<1>3. r3 \in Row /\ r3.src = row.src /\ r3.first = row.first /\ r3.status = "terminal"
      /\ r3.disp = "invalid_noncanonical_seed"
  <2> HIDE DEF r2
  <2> QED BY <1>2 DEF Row
<1>4. Quarantined(row) = IF row.status = "pending" /\ row.first = PoisonKey THEN r3 ELSE row
  BY DEF Quarantined
<1> HIDE DEF r1, r2, r3
<1> QED BY <1>3, <1>4

\* The row that seeding makes.
SeedRow(id) == \E s \in Source, k \in RunKeys : s.rcp = id[2] /\ Seeded[id] = PendingRow(s, k)

LEMMA SeedFacts ==
  ASSUME SInv, NEW id \in Ident
  PROVE  /\ Carries(rows[id], Seeded[id])
         /\ Decided(Seeded[id]) => Seeded[id] = rows[id]
         /\ Seeded[id].status = "terminal" =>
              \/ Seeded[id] = rows[id]
              \/ /\ id \in DartIds /\ Seeded[id].disp \notin Disposition
                 /\ Seeded[id].src.form = "core"
         /\ rows[id].status = "absent" => Seeded[id] = rows[id] \/ (id \in DartIds /\ SeedRow(id))
         /\ id \in DiscIds => Seeded[id] = rows[id]
         /\ SourceOfReceipt(id, Seeded[id]) /\ OnlyLegacyPoison(id, Seeded[id])
<1> DEFINE row == rows[id]
           r1 == Reopened(row)
           r2 == Quarantined(r1)
<1>1. row \in Row /\ SourceOfReceipt(id, row) /\ OnlyLegacyPoison(id, row)
      /\ FindClosedByCarrier(id, row)
  BY DEF SInv, ServerTypes, RowsProper
<1>2. \/ Seeded[id] = r2
      \/ row.status = "absent" /\ id \in DartIds /\ SeedRow(id)
  <2>1. Seeded[id] = Enqueued(id, r2)
    BY DEF Seeded
  <2>2. r1.status = "absent" => r1 = row
    BY <1>1, ReopenedRow
  <2>3. r2.status = "absent" => r2 = row
    BY <1>1, <2>2, ReopenedRow, QuarantinedRow
  <2>4. ASSUME r2.status = "absent", id \in DartIds, Unfinished(id[2]) # {}
        PROVE  row.status = "absent" /\ SeedRow(id)
    <3>1. PICK x \in Unfinished(id[2]) : Seeded[id] = PendingRow(x[2], x[1])
      BY <2>1, <2>4 DEF Enqueued
    <3>2. row.status = "absent" /\ id[2] \in Receipts /\ id = Dart(id[2])
      BY <2>3, <2>4, Identities
    <3>3. x[1] \in RunKeys /\ x[2] \in Source /\ x[2].rcp = id[2]
      BY <3>2, NothingLost
    <3> QED BY <3>1, <3>2, <3>3 DEF SeedRow
  <2>5. ~(r2.status = "absent" /\ id \in DartIds /\ Unfinished(id[2]) # {}) => Seeded[id] = r2
    BY <2>1 DEF Enqueued
  <2> QED BY <2>4, <2>5
<1>3. r1 \in Row /\ r1.src = row.src /\ r1.first = row.first
      /\ (r1 = row \/ (r1.status = "pending" /\ row.status = "terminal"
                       /\ row.disp \in Retryable /\ row.first # PoisonKey))
  BY <1>1, ReopenedRow
<1>4. r2 \in Row /\ r2.src = row.src /\ r2.first = row.first
      /\ \/ r2 = r1
         \/ /\ r2.status = "terminal" /\ r1.status = "pending"
            /\ r2.disp = "invalid_noncanonical_seed" /\ r1.first = PoisonKey
  BY <1>3, QuarantinedRow
<1> HIDE DEF row, r1, r2
<1>5. \/ r2 = row
      \/ /\ r2.status = "pending" /\ row.status = "terminal" /\ row.disp \in Retryable
      \/ /\ r2.status = "terminal" /\ row.status = "pending" /\ row.first = PoisonKey
         /\ r2.disp = "invalid_noncanonical_seed"
  BY <1>3, <1>4
<1>6. row.disp \in Retryable => ~Decided(row)
  BY Dispositions DEF Decided
<1>7. r2.disp = "invalid_noncanonical_seed" => ~Decided(r2) /\ r2.disp \notin Disposition
  BY Dispositions DEF Decided
<1>8. row.status = "pending" => ~Decided(row)
  BY DEF Decided
<1>8a. r2.status = "pending" => ~Decided(r2)
  BY DEF Decided
<1>9. Carries(row, r2)
  BY <1>4, <1>5, <1>6, <1>8 DEF Carries
<1>10. id \in DiscIds => r2 = row
  BY <1>1, <1>5, <1>6, Identities DEF FindClosedByCarrier, OnlyLegacyPoison
<1>11. row.first = PoisonKey => id \in DartIds /\ row.src.form = "core"
  BY <1>1 DEF OnlyLegacyPoison
<1>12. SourceOfReceipt(id, r2) /\ OnlyLegacyPoison(id, r2)
  BY <1>1, <1>4, <1>5, <1>11 DEF SourceOfReceipt, OnlyLegacyPoison
<1>13. CASE Seeded[id] = r2
  BY <1>4, <1>5, <1>6, <1>7, <1>8a, <1>9, <1>10, <1>11, <1>12, <1>13 DEF row
<1>14. CASE row.status = "absent" /\ id \in DartIds /\ SeedRow(id)
  <2>1. PICK s \in Source, k \in RunKeys : s.rcp = id[2] /\ Seeded[id] = PendingRow(s, k)
    BY <1>14 DEF SeedRow
  <2> DEFINE new == Seeded[id]
  <2>2. new \in Row /\ new.status = "pending" /\ new.src = s /\ new.first = k
        /\ new.first # PoisonKey
    BY <2>1, PendingFields, Keys
  <2> HIDE DEF new
  <2>3. ~Decided(row) /\ ~Decided(new)
    BY <1>14, <2>2 DEF Decided
  <2>4. Carries(row, new)
    BY <1>14, <2>2, <2>3 DEF Carries
  <2>5. SourceOfReceipt(id, new) /\ OnlyLegacyPoison(id, new)
    BY <1>14, <2>1, <2>2 DEF SourceOfReceipt, OnlyLegacyPoison
  <2>6. id \notin DiscIds
    BY <1>14, Identities
  <2> QED BY <1>14, <2>2, <2>3, <2>4, <2>5, <2>6 DEF row, new
<1> QED BY <1>2, <1>13, <1>14

\* A row a step leaves alone stays proper: the run that closed it keeps its contract.
LEMMA ProperStays ==
  ASSUME SInv, RunStep, NEW id \in Ident, rows'[id] = rows[id]
  PROVE  /\ SourceOfReceipt(id, rows'[id]) /\ OnlyLegacyPoison(id, rows'[id])
         /\ FindClosedByCarrier(id, rows[id])'
<1>1. /\ SourceOfReceipt(id, rows[id]) /\ OnlyLegacyPoison(id, rows[id])
      /\ FindClosedByCarrier(id, rows[id])
  BY DEF SInv, RowsProper
<1>2. ASSUME id \in DiscIds, rows[id].status = "terminal"
      PROVE  runs'[rows[id].run].con = runs[rows[id].run].con
  <2>1. rows[id].run \in RunKeys /\ id[2] \in CarriedFinds(runs[rows[id].run].con)
    BY <1>1, <1>2 DEF FindClosedByCarrier
  <2>2. runs[rows[id].run].con.carry # {}
    BY <2>1 DEF CarriedFinds
  <2> QED BY <2>1, <2>2, ContractSources DEF RunStep
<1> QED BY <1>1, <1>2 DEF FindClosedByCarrier, Decided

-----------------------------------------------------------------------------
(* Each step of the server keeps the invariant.                              *)

LEMMA RunsKept ==
  ASSUME SInv, runs' = runs PROVE RunStep /\ NewRuns /\ NewDone /\ NewReports
<1>1. RunStep
  BY DEF SInv, ServerTypes, RunStep
<1>2. NewRuns
  BY ContractSources, EnlistedSources DEF NewRuns
<1> QED BY <1>1, <1>2 DEF NewDone, NewReports

\* A discovery row that the step does not decide owes nothing.
LEMMA FindsKept ==
  ASSUME \A f \in Finds : ~Decided(rows[Disc(f)]) => ~Decided(rows'[Disc(f)]) PROVE NewFinds
BY DEF NewFinds, FoundOnEvidence, Decided

LEMMA ReadBacklogInv ==
  ASSUME SInv, ReadBacklog PROVE SInv' /\ RowStep /\ RunStep
<1>1. rows' = Seeded /\ runs' = runs /\ evid' = evid
  BY DEF ReadBacklog
<1>2. RowStep
  <2>1. rows' = [id \in Ident |-> rows'[id]]
    BY <1>1 DEF Seeded
  <2> QED BY <1>1, <2>1, SeedFacts DEF RowStep, Carries
<1>3. RunStep /\ NewRuns /\ NewDone /\ NewReports
  BY <1>1, RunsKept
<1>4. RowsProper'
  <2> SUFFICES ASSUME NEW id \in Ident
               PROVE  /\ SourceOfReceipt(id, rows'[id]) /\ OnlyLegacyPoison(id, rows'[id])
                      /\ FindClosedByCarrier(id, rows[id])'
    BY DEF RowsProper
  <2>1. CASE id \in DiscIds
    BY <1>1, <1>3, <2>1, SeedFacts, ProperStays
  <2>2. CASE id \notin DiscIds
    BY <1>1, <2>2, SeedFacts DEF FindClosedByCarrier
  <2> QED BY <2>1, <2>2
<1>5. NewCorrections
  BY <1>1, SeedFacts, Identities DEF NewCorrections, Ident
<1>6. NewDecisions
  BY <1>1, SeedFacts DEF NewDecisions, DartIdent, Ident
<1>7. NewFinds
  BY <1>1, SeedFacts, Identities, FindsKept
<1>8. EvidenceStep
  BY <1>1 DEF SInv, ServerTypes, EvidenceStep
<1> QED BY <1>2, <1>3, <1>4, <1>5, <1>6, <1>7, <1>8, ServerStepInv DEF Owed

\* The step of one renewed packet: a core payload under another generation.
Renewed(row, g) == [row EXCEPT !.src.gen = g]

LEMMA RenewedRow ==
  ASSUME NEW row \in Row, row.src.form = "core", row.status = "pending", NEW g \in Gens,
         NEW new, new = Renewed(row, g)
  PROVE  /\ Carries(row, new) /\ new.status = "pending" /\ new.first = row.first
         /\ new.src \in Source /\ new.src.form = "core" /\ new.src.rcp = row.src.rcp
<1>1. row.src \in Source
  BY DEF Row, NoSource
<1>2. row.src.gen \in Gens
  BY <1>1 DEF Source
<1> DEFINE src == [row.src EXCEPT !.gen = g]
<1>3. src \in Source /\ src.form = "core" /\ src.rcp = row.src.rcp
  BY <1>1 DEF Source
<1>4. new = [row EXCEPT !.src = src]
  BY DEF Row, Renewed
<1> HIDE DEF src
<1>5. new \in Row /\ new.src = src /\ new.status = "pending" /\ new.first = row.first
  BY <1>3, <1>4 DEF Row
<1>6. ~Decided(row)
  BY DEF Decided
<1> QED BY <1>3, <1>4, <1>5, <1>6 DEF Carries

LEMMA RefreshPacketsInv ==
  ASSUME SInv, NEW ids, ids \subseteq DartIds \cup CorrIds, NEW U \in [ids -> Gens \ {0}],
         NEW old, RefreshPackets(U, old)
  PROVE  SInv' /\ RowStep /\ RunStep
<1>1. runs' = runs /\ evid' = evid
  BY DEF RefreshPackets
<1>2. rows' = [id \in Ident |-> IF id \in ids THEN [rows[id] EXCEPT !.src.gen = U[id]] ELSE rows[id]]
  BY DEF RefreshPackets
<1>3. \A id \in ids : id \in Ident /\ rows[id].status = "pending" /\ rows[id].src.form = "core"
                      /\ U[id] \in Gens
  BY DEF RefreshPackets, Refreshable, Ident
<1>4. \A id \in Ident \ ids : rows'[id] = rows[id]
  BY <1>2
<1>5. \A id \in ids : /\ Carries(rows[id], rows'[id]) /\ rows'[id].status = "pending"
                      /\ rows'[id].first = rows[id].first
                      /\ rows'[id].src \in Source /\ rows'[id].src.form = "core"
                      /\ rows'[id].src.rcp = rows[id].src.rcp
  <2> TAKE id \in ids
  <2>1. rows'[id] = [rows[id] EXCEPT !.src.gen = U[id]] /\ rows[id] \in Row
    BY <1>2, <1>3 DEF SInv, ServerTypes
  <2> DEFINE row == rows[id]
             new == rows'[id]
             g == U[id]
  <2>2. row \in Row /\ row.src.form = "core" /\ row.status = "pending" /\ g \in Gens
        /\ new = Renewed(row, g)
    BY <1>3, <2>1 DEF Renewed
  <2> HIDE DEF row, new, g
  <2>3. /\ Carries(row, new) /\ new.status = "pending" /\ new.first = row.first
        /\ new.src \in Source /\ new.src.form = "core" /\ new.src.rcp = row.src.rcp
    BY <2>2, RenewedRow
  <2> QED BY <2>3 DEF row, new
<1>6. RowStep
  <2>1. \A id \in Ident \ ids : Carries(rows[id], rows'[id])
    BY <1>4 DEF SInv, ServerTypes, Carries
  <2>2. rows' = [id \in Ident |-> rows'[id]]
    BY <1>2
  <2>3. \A id \in Ident : Carries(rows[id], rows'[id])
    BY <1>5, <2>1
  <2> QED BY <2>2, <2>3 DEF RowStep, Carries
<1>7. RunStep /\ NewRuns /\ NewDone /\ NewReports
  BY <1>1, RunsKept
<1>8. RowsProper'
  <2> SUFFICES ASSUME NEW id \in Ident
               PROVE  /\ SourceOfReceipt(id, rows'[id]) /\ OnlyLegacyPoison(id, rows'[id])
                      /\ FindClosedByCarrier(id, rows[id])'
    BY DEF RowsProper
  <2>1. CASE id \notin ids
    BY <1>4, <1>7, <2>1, ProperStays
  <2>2. CASE id \in ids
    <3>1. SourceOfReceipt(id, rows[id]) /\ OnlyLegacyPoison(id, rows[id])
      BY DEF SInv, RowsProper
    <3>2. id \in DartIdent /\ id \notin DiscIds
      BY <2>2, Identities DEF DartIdent
    <3> QED BY <1>3, <1>5, <2>2, <3>1, <3>2
            DEF SourceOfReceipt, OnlyLegacyPoison, FindClosedByCarrier
  <2> QED BY <2>1, <2>2
<1>9. \A id \in Ident : rows[id].status = "absent" => rows'[id] = rows[id]
  BY <1>3, <1>4
<1>10. \A id \in Ident : Decided(rows'[id]) => rows'[id] = rows[id]
  BY <1>4, <1>5 DEF Decided
<1>11. NewCorrections
  BY <1>9 DEF NewCorrections, Ident
<1>12. NewDecisions
  BY <1>10 DEF NewDecisions, DartIdent, Ident
<1>13. NewFinds
  BY <1>10, Identities, FindsKept
<1>14. EvidenceStep
  BY <1>1 DEF SInv, ServerTypes, EvidenceStep
<1> QED BY <1>6, <1>7, <1>8, <1>11, <1>12, <1>13, <1>14, ServerStepInv DEF Owed

\* A step that leaves rows and runs alone.
LEMMA EvidenceInv ==
  ASSUME SInv, UNCHANGED <<rows, runs>>, EvidenceStep PROVE SInv' /\ RowStep /\ RunStep
<1>1. RunStep /\ NewRuns /\ NewDone /\ NewReports
  BY RunsKept
<1>2. RowStep
  BY DEF SInv, ServerTypes, RowStep, Carries
<1>3. RowsProper'
  BY <1>1, ProperStays DEF RowsProper
<1>4. NewCorrections /\ NewDecisions /\ NewFinds
  BY FindsKept DEF NewCorrections, NewDecisions
<1> QED BY <1>1, <1>2, <1>3, <1>4, ServerStepInv DEF Owed

LEMMA CreateEvidenceInv ==
  ASSUME SInv, NEW e, CreateEvidence(e) PROVE SInv' /\ RowStep /\ RunStep
<1>1. EvidenceStep /\ UNCHANGED <<rows, runs>>
  BY DEF CreateEvidence, EvidenceStep, SInv, ServerTypes
<1> QED BY <1>1, EvidenceInv

\* Registration: every admitted source has a row of its own.
LEMMA EnrichedRow ==
  ASSUME NEW id, NEW row \in Row, NEW s \in Source
  PROVE  /\ Carries(row, Enriched(id, row, s)) /\ Enriched(id, row, s).first = row.first
         /\ Enriched(id, row, s).status = row.status
         /\ Decided(Enriched(id, row, s)) => Decided(row)
         /\ \/ Enriched(id, row, s) = row
            \/ Enriched(id, row, s).src = s /\ s.form = "full" /\ row.src.form = "failed"
               /\ row.status = "pending"
         /\ row.status = "pending" /\ id \in DartIds /\ FailedMatches(row.src, s)
            /\ s.form # "failed" => Enriched(id, row, s).src = s
<1> DEFINE new == [row EXCEPT !.src = s]
<1>1. new \in Row /\ new.src = s /\ new.status = row.status /\ new.first = row.first
  BY DEF Row
<1>2. s.form \in {"failed", "core", "full"}
  BY DEF Source
<1>3. Enriched(id, row, s) =
        IF row.status = "pending" /\ id \in DartIds /\ FailedMatches(row.src, s) /\ s.form # "failed"
        THEN new ELSE row
  BY DEF Enriched
<1> HIDE DEF new
<1>4. row.status = "pending" => ~Decided(row)
  BY DEF Decided
<1>5. new.status = "pending" => ~Decided(new)
  BY DEF Decided
<1> QED BY <1>1, <1>2, <1>3, <1>4, <1>5 DEF Carries, FailedMatches

LEMMA CarriesOn ==
  ASSUME NEW a, NEW b, NEW c, Carries(a, b), Carries(b, c) PROVE Carries(a, c)
BY DEF Carries

LEMMA SourcesApart ==
  ASSUME NEW k, NEW c \in Contract, LawfulContract(k, c), NEW s \in c.srcs, NEW t \in c.srcs,
         IdOf(c, s) = IdOf(c, t) \/ s.rcp = t.rcp
  PROVE  s = t
<1>1. s \in Source /\ t \in Source
  BY DEF Contract
<1>2. s.rcp = t.rcp
  BY <1>1, IdentitySorts
<1> QED BY <1>2 DEF LawfulContract

\* The original a correction quotes is decided, and the corrected source was captured.
LEMMA QuotedOriginal ==
  ASSUME SInv, NEW k \in RunKeys, NEW c \in Contract, LawfulContract(k, c),
         HistoryAgrees(Seeded, k, c), NEW s \in c.srcs, s.rcp \in ReceiptsOf(c.corr)
  PROVE  LET prior == Seeded[Dart(s.rcp)] IN
         /\ prior.status = "terminal" /\ prior.disp \in Unstored /\ Before(prior.run, k)
         /\ s.form # "failed"
<1>1. s \in Source /\ s.rcp \in Receipts /\ Dart(s.rcp) \in Ident /\ Dart(s.rcp)[2] = s.rcp
  BY Identities DEF Contract, Source
<1>2. PICK q \in c.corr : q.rcp = s.rcp
  BY DEF ReceiptsOf
<1>3. q.row = Seeded[Dart(s.rcp)] /\ q.row.status = "terminal"
  BY <1>2 DEF HistoryAgrees
<1>4. /\ \E t \in c.srcs : t.rcp = q.rcp /\ CorrectionMatches(q.row.src, t)
      /\ q.row.disp \in {"rejected", "hold"}
      /\ TerminalPrior(q.row.run, k)
  BY DEF HistoryAgrees
<1>5. PICK t \in c.srcs : t.rcp = q.rcp /\ CorrectionMatches(q.row.src, t)
  BY <1>4
<1>6. CorrectionMatches(q.row.src, s)
  BY <1>2, <1>5, SourcesApart
<1>7. q.row.src.form # "failed"
  <2>1. SourceOfReceipt(Dart(s.rcp), Seeded[Dart(s.rcp)])
    BY <1>1, SeedFacts
  <2> QED BY <1>1, <1>3, <2>1, Identities DEF SourceOfReceipt, DartIdent
<1>8. s.form # "failed"
  BY <1>6, <1>7 DEF CorrectionMatches, TerminalMatches, FailedMatches, SameCore
<1> QED BY <1>3, <1>4, <1>8 DEF TerminalPrior, Unstored

LEMMA EnrolledRow ==
  ASSUME NEW R, NEW k \in RunKeys, NEW c \in Contract, LawfulContract(k, c)
  PROVE  /\ \A s \in Enlisted(c) :
              Enrolled(R, k, c)[IdOf(c, s)] =
                IF R[IdOf(c, s)].status = "absent" THEN PendingRow(s, k)
                ELSE Enriched(IdOf(c, s), R[IdOf(c, s)], s)
         /\ \A id \in Ident : (\A s \in Enlisted(c) : IdOf(c, s) # id) => Enrolled(R, k, c)[id] = R[id]
<1>1. ASSUME NEW s \in Enlisted(c)
      PROVE  Enrolled(R, k, c)[IdOf(c, s)] =
                IF R[IdOf(c, s)].status = "absent" THEN PendingRow(s, k)
                ELSE Enriched(IdOf(c, s), R[IdOf(c, s)], s)
  <2>1. IdOf(c, s) \in Ident
    BY IdentitySorts, EnlistedSources DEF Contract
  <2>2. {x \in Enlisted(c) : IdOf(c, x) = IdOf(c, s)} = {s}
    BY SourcesApart, EnlistedSources
  <2>3. (CHOOSE x \in {s} : TRUE) = s
    OBVIOUS
  <2> QED BY <2>1, <2>2, <2>3 DEF Enrolled
<1>2. ASSUME NEW id \in Ident, \A s \in Enlisted(c) : IdOf(c, s) # id
      PROVE  Enrolled(R, k, c)[id] = R[id]
  <2>1. {x \in Enlisted(c) : IdOf(c, x) = id} = {}
    BY <1>2
  <2> QED BY <2>1 DEF Enrolled
<1> QED BY <1>1, <1>2

LEMMA RegisterInv ==
  ASSUME SInv, NEW k \in RunKeys, NEW c \in Contract, Register(k, c)
  PROVE  SInv' /\ RowStep /\ RunStep
<1>1. /\ runs[k].status = "none" /\ LawfulContract(k, c) /\ HistoryAgrees(Seeded, k, c)
      /\ rows' = Enrolled(Seeded, k, c) /\ evid' = evid
  BY DEF Register, Registrable
<1>2. /\ DOMAIN runs' = RunKeys /\ runs'[k] = [NoRun EXCEPT !.status = "started", !.con = c]
      /\ \A j \in RunKeys \ {k} : runs'[j] = runs[j]
  BY DEF Register, SInv, ServerTypes
<1>3. runs'[k].status = "started" /\ runs'[k].con = c /\ runs'[k].body = NoBody
  BY <1>2 DEF NoRun
<1>4. RunStep
  <2>1. RunProper(runs'[k])
    BY <1>2, <1>3 DEF RunProper, NoBody, NoRun
  <2> QED BY <1>1, <1>2, <2>1 DEF RunStep, SInv, ServerTypes
<1>5. \A s \in Enlisted(c) : s \in Source /\ s \in c.srcs /\ IdOf(c, s) \in Ident
  BY IdentitySorts, EnlistedSources DEF Contract
<1>6. \A id \in Ident : Seeded[id] \in Row
  BY SeedFacts DEF Carries
<1>7. \A s \in Enlisted(c) :
        \/ Seeded[IdOf(c, s)].status = "absent" /\ rows'[IdOf(c, s)] = PendingRow(s, k)
        \/ Seeded[IdOf(c, s)].status # "absent"
           /\ rows'[IdOf(c, s)] = Enriched(IdOf(c, s), Seeded[IdOf(c, s)], s)
  BY <1>1, EnrolledRow
<1>8. \A id \in Ident : (\A s \in Enlisted(c) : IdOf(c, s) # id) => rows'[id] = Seeded[id]
  BY <1>1, EnrolledRow
<1>9. \A s \in Enlisted(c) : PendingRow(s, k) \in Row /\ PendingRow(s, k).status = "pending"
                        /\ PendingRow(s, k).src = s /\ PendingRow(s, k).first = k
  BY <1>5, PendingFields, Keys
<1>10. \A id \in Ident : Carries(rows[id], Seeded[id])
                         /\ (rows[id].status = "absent" =>
                               Seeded[id] = rows[id] \/ (id \in DartIds /\ SeedRow(id)))
                         /\ (Decided(Seeded[id]) => Seeded[id] = rows[id])
                         /\ SourceOfReceipt(id, Seeded[id]) /\ OnlyLegacyPoison(id, Seeded[id])
                         /\ (id \in DiscIds => Seeded[id] = rows[id])
  BY SeedFacts
\* From the seeded rows on.
<1>11. \A id \in Ident : Carries(Seeded[id], rows'[id])
                         /\ (Decided(rows'[id]) => Decided(Seeded[id]))
  <2> TAKE id \in Ident
  <2>1. CASE \A s \in Enlisted(c) : IdOf(c, s) # id
    BY <1>6, <1>8, <2>1 DEF Carries
  <2>2. ASSUME NEW s \in Enlisted(c), IdOf(c, s) = id PROVE Carries(Seeded[id], rows'[id])
                         /\ (Decided(rows'[id]) => Decided(Seeded[id]))
    <3>1. CASE Seeded[id].status = "absent"
      BY <1>7, <1>9, <2>2, <3>1 DEF Carries, Decided
    <3>2. CASE Seeded[id].status # "absent"
      <4>1. rows'[id] = Enriched(id, Seeded[id], s) /\ s \in Source
        BY <1>5, <1>7, <2>2, <3>2
      <4> DEFINE row == Seeded[id]
      <4>2. row \in Row
        BY <1>6
      <4> HIDE DEF row
      <4>3. Carries(row, Enriched(id, row, s)) /\ (Decided(Enriched(id, row, s)) => Decided(row))
        BY <4>1, <4>2, EnrichedRow
      <4> QED BY <4>1, <4>3 DEF row
    <3> QED BY <3>1, <3>2
  <2> QED BY <2>1, <2>2
<1>12. RowStep
  <2>1. \A id \in Ident : Carries(rows[id], rows'[id])
    BY <1>10, <1>11, CarriesOn
  <2>2. rows' = [id \in Ident |-> rows'[id]]
    BY <1>1 DEF Enrolled
  <2> QED BY <2>1, <2>2 DEF RowStep, Carries
<1>13. \A id \in DiscIds : rows'[id] = rows[id]
  BY <1>5, <1>8, <1>10, IdentitySorts DEF Ident
<1>14. RowsProper'
  <2> SUFFICES ASSUME NEW id \in Ident
               PROVE  /\ SourceOfReceipt(id, rows'[id]) /\ OnlyLegacyPoison(id, rows'[id])
                      /\ FindClosedByCarrier(id, rows[id])'
    BY DEF RowsProper
  <2>1. CASE id \in DiscIds
    BY <1>4, <1>13, <2>1, ProperStays
  <2>2. CASE id \notin DiscIds /\ \A s \in Enlisted(c) : IdOf(c, s) # id
    BY <1>8, <1>10, <2>2 DEF FindClosedByCarrier
  <2>3. ASSUME id \notin DiscIds, NEW s \in Enlisted(c), IdOf(c, s) = id
        PROVE  SourceOfReceipt(id, rows'[id]) /\ OnlyLegacyPoison(id, rows'[id])
    <3>1. s \in Source /\ id[2] = s.rcp
      BY <1>5, <2>3, IdentitySorts
    <3>2. s.form = "failed" => id \in DartIds
      BY <1>1, <1>5, <2>3, <3>1, IdentitySorts, QuotedOriginal
    <3>3. CASE Seeded[id].status = "absent"
      <4>1. rows'[id].status = "pending" /\ rows'[id].src = s /\ rows'[id].first = k
        BY <1>7, <1>9, <2>3, <3>3
      <4> QED BY <3>1, <3>2, <4>1, Keys DEF SourceOfReceipt, OnlyLegacyPoison
    <3>4. CASE Seeded[id].status # "absent"
      <4>1. rows'[id] = Enriched(id, Seeded[id], s)
        BY <1>7, <2>3, <3>4
      <4>2. CASE rows'[id] = Seeded[id]
        BY <1>10, <4>2
      <4>3. CASE rows'[id] # Seeded[id]
        <5>1. /\ rows'[id].src = s /\ s.form = "full" /\ Seeded[id].src.form = "failed"
              /\ rows'[id].first = Seeded[id].first
          BY <1>6, <3>1, <4>1, <4>3, EnrichedRow
        <5>2. OnlyLegacyPoison(id, Seeded[id])
          BY <1>10
        <5> QED BY <3>1, <5>1, <5>2 DEF SourceOfReceipt, OnlyLegacyPoison
      <4> QED BY <4>2, <4>3
    <3> QED BY <3>3, <3>4
  <2> QED BY <2>1, <2>2, <2>3 DEF FindClosedByCarrier
<1>15. NewRuns
  <2> SUFFICES ASSUME NEW j \in RunKeys, runs[j].status = "none", NEW s \in Enlisted(runs'[j].con)
               PROVE  Tracked(j, s)'
    BY DEF NewRuns
  <2>1. j = k
    BY <1>2, ContractSources, EnlistedSources
  <2> DEFINE id == IdOf(c, s)
  <2>2. s \in Enlisted(c) /\ runs'[j].con = c /\ id \in Ident /\ s \in Source /\ id[2] = s.rcp
    BY <1>3, <1>5, <2>1, IdentitySorts
  <2>3. rows'[id].status # "absent" /\ (s.form = "full" => rows'[id].src.form # "failed")
    <3>1. CASE Seeded[id].status = "absent"
      BY <1>7, <1>9, <2>2, <3>1
    <3>2. CASE Seeded[id].status # "absent"
      <4>1. rows'[id] = Enriched(id, Seeded[id], s)
        BY <1>7, <2>2, <3>2
      <4>2. rows'[id].status # "absent"
        BY <1>11, <2>2, <3>2 DEF Carries
      <4>3. CASE s.form = "full" /\ Seeded[id].src.form = "failed"
        <5>1. SourceOfReceipt(id, Seeded[id]) /\ id \in DartIdent
          BY <1>10, <2>2, IdentitySorts
        <5>2. /\ id \in DartIds /\ Seeded[id].status = "pending"
              /\ FailedMatches(Seeded[id].src, s)
          BY <2>2, <3>2, <4>3, <5>1 DEF SourceOfReceipt, FailedMatches
        <5>3. rows'[id].src = s
          BY <1>6, <2>2, <4>1, <4>3, <5>2, EnrichedRow
        <5> QED BY <4>2, <4>3, <5>3
      <4>4. CASE s.form # "full" \/ Seeded[id].src.form # "failed"
        BY <1>11, <2>2, <3>2, <4>2, <4>4 DEF Carries
      <4> QED BY <4>3, <4>4
    <3> QED BY <3>1, <3>2
  <2> QED BY <2>2, <2>3 DEF Tracked
<1>16. NewCorrections
  <2> SUFFICES ASSUME NEW id \in CorrIds, rows[id].status = "absent", rows'[id].status # "absent"
               PROVE  HasOriginal(id)'
    BY DEF NewCorrections
  <2>1. id \in Ident /\ id \notin DartIds /\ Seeded[id].status = "absent"
    BY <1>10, Identities DEF Ident
  <2>2. PICK s \in Enlisted(c) : IdOf(c, s) = id
    BY <1>8, <2>1
  <2>3. rows'[id].first = k /\ s \in Source
    BY <1>5, <1>7, <1>9, <2>1, <2>2
  <2>4. s.rcp \in ReceiptsOf(c.corr) /\ id[2] = s.rcp /\ s.rcp \in Receipts
    BY <2>1, <2>2, <2>3, IdentitySorts
  <2>5. LET prior == Seeded[Dart(s.rcp)] IN
         prior.status = "terminal" /\ prior.disp \in Unstored /\ Before(prior.run, k)
    BY <1>1, <1>5, <2>4, QuotedOriginal
  <2>6. rows'[Dart(s.rcp)] = Seeded[Dart(s.rcp)]
    BY <1>11, <2>4, <2>5, Identities DEF Carries, Decided
  <2> QED BY <2>3, <2>4, <2>5, <2>6 DEF HasOriginal
<1>17. \A id \in Ident : Decided(rows'[id]) => Decided(rows[id])
  BY <1>10, <1>11
<1>18. NewDecisions /\ NewFinds
  BY <1>17, FindsKept, Identities DEF NewDecisions, DartIdent, Ident
<1>19. NewDone /\ NewReports
  <2>1. \A j \in RunKeys : runs'[j] # runs[j] => j = k
    BY <1>2
  <2>2. runs'[k].status # "done" /\ runs'[k].body.cands = {}
    BY <1>3 DEF NoBody
  <2>3. NewDone
    BY <2>1, <2>2 DEF NewDone
  <2>4. NewReports
    BY <2>1, <2>2 DEF NewReports
  <2> QED BY <2>3, <2>4
<1>20. EvidenceStep
  BY <1>1 DEF SInv, ServerTypes, EvidenceStep
<1> QED BY <1>4, <1>12, <1>14, <1>15, <1>16, <1>18, <1>19, <1>20, ServerStepInv DEF Owed

\* The UPDATE of a finish: the run settles once.
LEMMA SettleFacts ==
  ASSUME SInv, NEW k \in RunKeys, runs[k].status # "none", NEW b \in Body(runs[k].con),
         NEW status \in {"done", "error"}, b.kind = status, Settle(k, status, b)
  PROVE  /\ RunStep /\ NewRuns
         /\ \A j \in RunKeys : runs'[j] # runs[j] =>
              j = k /\ runs'[k].status = status /\ runs'[k].body = b
<1> DEFINE r1 == [runs[k] EXCEPT !.status = status]
           r2 == [r1 EXCEPT !.body = b]
<1>1. RunProper(runs[k]) /\ DOMAIN runs = RunKeys /\ runs[k].con \in Contract
  BY ContractSources DEF SInv, ServerTypes
<1>2. DOMAIN r1 = DOMAIN runs[k] /\ r1.status = status /\ r1.con = runs[k].con
  BY <1>1 DEF RunProper
<1>3. DOMAIN r2 = {"status", "con", "body"} /\ r2.status = status /\ r2.con = runs[k].con
      /\ r2.body = b
  <2> HIDE DEF r1
  <2> QED BY <1>1, <1>2 DEF RunProper
<1>4. runs' = runs \/ runs' = [runs EXCEPT ![k] = r2]
  BY DEF Settle
<1>5. RunProper(r2)
  <2> HIDE DEF r2
  <2>1. b.kind \in {"done", "error"} /\ b.cands \subseteq Finds
    BY <1>1, ItemTypes
  <2> QED BY <1>1, <1>3, <2>1 DEF RunProper
<1>6. runs[k].status \in {"done", "error"} => runs' = runs
  BY DEF Settle
<1> HIDE DEF r2
<1>7. CASE runs' = runs
  BY <1>7, RunsKept
<1>8. CASE runs' # runs
  <2>1. DOMAIN runs' = RunKeys /\ runs'[k] = r2 /\ \A j \in RunKeys \ {k} : runs'[j] = runs[j]
    BY <1>1, <1>4, <1>8
  <2>2. \A j \in RunKeys : RunProper(runs[j])
    BY ContractSources
  <2>3. RunStep
    BY <1>3, <1>5, <1>6, <1>8, <2>1, <2>2 DEF RunStep
  <2>4. NewRuns
    <3>1. \A j \in RunKeys : runs[j].status = "none" => j # k /\ runs'[j].con.srcs = {}
      BY <2>1, ContractSources
    <3> QED BY <3>1, EnlistedSources DEF NewRuns
  <2> QED BY <1>3, <2>1, <2>3, <2>4
<1> QED BY <1>7, <1>8

LEMMA CarriedFindsAreFinds ==
  ASSUME NEW c \in Contract PROVE CarriedFinds(c) \subseteq Finds
<1> SUFFICES ASSUME NEW i \in c.carry, i.id[1] = "disc" PROVE i.id[2] \in Finds
  BY DEF CarriedFinds
<1>1. i.id \in Ident
  BY DEF Contract, Carry
<1>2. i.id \notin DartIds /\ i.id \notin CorrIds
  BY DEF DartIds, CorrIds, Dart
<1> QED BY <1>1, <1>2, Identities

\* A closing item belongs to a captured source, and the row holds that source's payload.
LEMMA ClosingMatch ==
  ASSUME SInv, NEW k \in RunKeys, NEW s \in Enlisted(runs[k].con), NEW isCorr, NEW item,
         ItemAllowed(k, s, isCorr, item), StillOpen(runs[k].con, s), item.disp \notin Retryable
  PROVE  LET row == rows[IdOf(runs[k].con, s)] IN
         row.status = "pending" /\ TerminalMatches(row.src, s) /\ row.src.form # "failed"
<1> DEFINE row == rows[IdOf(runs[k].con, s)]
<1>1. s \in Source /\ s.form \in {"core", "full"}
  BY ContractSources DEF ItemAllowed, Retryable, Source
<1>2. s.form = "full" => row.src.form # "failed"
  BY DEF SInv, AdmittedWorkIsTracked
<1>3. row.status = "pending" /\ (TerminalMatches(row.src, s) \/ row.src = s)
  BY DEF StillOpen
<1> HIDE DEF row
<1>4. TerminalMatches(row.src, s) /\ row.src.form # "failed"
  BY <1>1, <1>2, <1>3 DEF TerminalMatches, FailedMatches, SameCore
<1> QED BY <1>3, <1>4 DEF row

LEMMA FinishDoneInv ==
  ASSUME SInv, NEW k \in RunKeys, NEW b \in Body(runs[k].con), FinishDone(k, b)
  PROVE  SInv' /\ RowStep /\ RunStep
<1> DEFINE c == runs[k].con
<1>1. /\ b.kind = "done" /\ runs[k].status # "none" /\ DoneAccepted(k, b)
      /\ rows' = CloseRows(k, b) /\ Settle(k, "done", b) /\ evid' = evid
  BY DEF FinishDone
<1>2. c \in Contract /\ Enlisted(c) \subseteq Source /\ Enlisted(c) \subseteq c.srcs /\ CarriedFinds(c) \subseteq Finds
  BY ContractSources, EnlistedSources, CarriedFindsAreFinds
<1>3. /\ RunStep /\ NewRuns
      /\ \A j \in RunKeys : runs'[j] # runs[j] =>
           j = k /\ runs'[k].status = "done" /\ runs'[k].body = b
  BY <1>1, SettleFacts
<1>4. runs'[k].con = c
  BY <1>1, <1>3 DEF RunStep
<1>5. /\ b.cands = {} /\ \A s \in Enlisted(c) : b.items[s.rcp] \in Item
      /\ \A f \in CarriedFinds(c) : b.finds[f] \in Item
  BY <1>1, <1>2, ItemTypes
<1>6. \A s \in Enlisted(c) : /\ ItemAllowed(k, s, s.rcp \in ReceiptsOf(c.corr), b.items[s.rcp])
                        /\ StillOpen(c, s)
  BY <1>1 DEF DoneAccepted
<1>7. \A f \in CarriedFinds(c) : FindAllowed(k, f, b.finds[f]) /\ rows[Disc(f)].status = "pending"
  BY <1>1 DEF DoneAccepted
\* What the step does to a row.
<1>8. \A s \in Enlisted(c) : b.items[s.rcp].disp \notin Retryable =>
        /\ rows'[IdOf(c, s)] = Closed(rows[IdOf(c, s)], b.items[s.rcp], k)
        /\ rows[IdOf(c, s)].status = "pending" /\ TerminalMatches(rows[IdOf(c, s)].src, s)
        /\ rows[IdOf(c, s)].src.form # "failed"
  <2> TAKE s \in Enlisted(c)
  <2> HAVE b.items[s.rcp].disp \notin Retryable
  <2>1. IdOf(c, s) \in Ident /\ IdOf(c, s)[2] = s.rcp
    BY <1>2, IdentitySorts
  <2>2. rows'[IdOf(c, s)] = Closed(rows[IdOf(c, s)], b.items[s.rcp], k)
    BY <1>1, <2>1 DEF CloseRows
  <2> QED BY <1>6, <2>2, ClosingMatch
<1>9. \A f \in CarriedFinds(c) : rows'[Disc(f)] = Closed(rows[Disc(f)], b.finds[f], k)
  <2> TAKE f \in CarriedFinds(c)
  <2>1. Disc(f) \in Ident /\ Disc(f) \in DiscIds /\ Disc(f)[2] = f
    BY <1>2, Identities
  <2>2. \A s \in Enlisted(c) : IdOf(c, s) # Disc(f)
    BY <1>2, <2>1, IdentitySorts
  <2> QED BY <1>1, <2>1, <2>2 DEF CloseRows
<1>10. \A id \in Ident : (\A s \in Enlisted(c) : IdOf(c, s) = id => b.items[s.rcp].disp \in Retryable)
                         /\ (\A f \in CarriedFinds(c) : Disc(f) # id) => rows'[id] = rows[id]
  BY <1>1 DEF CloseRows
<1> HIDE DEF c
<1>11. \A id \in Ident : rows[id] \in Row
  BY DEF SInv, ServerTypes
<1>12. \A id \in Ident :
         \/ rows'[id] = rows[id]
         \/ \E s \in Enlisted(c) : IdOf(c, s) = id /\ b.items[s.rcp].disp \notin Retryable
         \/ \E f \in CarriedFinds(c) : Disc(f) = id
  BY <1>10
<1>13. \A s \in Enlisted(c) : b.items[s.rcp].disp \notin Retryable =>
         LET old == rows[IdOf(c, s)]  new == rows'[IdOf(c, s)] IN
         /\ new \in Row /\ new.status = "terminal" /\ new.src = old.src /\ new.first = old.first
         /\ new.disp = b.items[s.rcp].disp /\ new.run = k /\ new.ev = b.items[s.rcp].ev
  BY <1>2, <1>5, <1>8, <1>11, IdentitySorts, ClosedFields, Keys
<1>14. \A f \in CarriedFinds(c) :
         LET old == rows[Disc(f)]  new == rows'[Disc(f)] IN
         /\ new \in Row /\ new.status = "terminal" /\ new.src = old.src /\ new.first = old.first
         /\ new.disp = b.finds[f].disp /\ new.run = k /\ new.ev = b.finds[f].ev
  BY <1>2, <1>5, <1>9, <1>11, Identities, ClosedFields, Keys
<1>15. \A id \in Ident : rows'[id] # rows[id] =>
         /\ rows[id].status = "pending" /\ rows'[id] \in Row /\ rows'[id].status = "terminal"
         /\ rows'[id].src = rows[id].src /\ rows'[id].first = rows[id].first
  BY <1>7, <1>8, <1>12, <1>13, <1>14
<1>16. RowStep
  <2>1. \A id \in Ident : Carries(rows[id], rows'[id])
    BY <1>11, <1>15 DEF Carries, Decided
  <2>2. rows' = [id \in Ident |-> rows'[id]]
    BY <1>1 DEF CloseRows
  <2> QED BY <2>1, <2>2 DEF RowStep, Carries
<1>17. RowsProper'
  <2> SUFFICES ASSUME NEW id \in Ident
               PROVE  /\ SourceOfReceipt(id, rows'[id]) /\ OnlyLegacyPoison(id, rows'[id])
                      /\ FindClosedByCarrier(id, rows[id])'
    BY DEF RowsProper
  <2>1. CASE rows'[id] = rows[id]
    BY <1>3, <2>1, ProperStays
  <2>2. CASE rows'[id] # rows[id]
    <3>1. SourceOfReceipt(id, rows[id]) /\ OnlyLegacyPoison(id, rows[id])
      BY DEF SInv, RowsProper
    <3>2. OnlyLegacyPoison(id, rows'[id])
      BY <1>15, <2>2, <3>1 DEF OnlyLegacyPoison
    <3>3. ASSUME NEW s \in Enlisted(c), IdOf(c, s) = id, b.items[s.rcp].disp \notin Retryable
          PROVE  SourceOfReceipt(id, rows'[id]) /\ FindClosedByCarrier(id, rows[id])'
      <4>1. id \in DartIdent /\ id \notin DiscIds
        BY <1>2, <3>3, IdentitySorts
      <4>2. rows[id].src.form # "failed"
        BY <1>8, <3>3
      <4> QED BY <1>15, <2>2, <3>1, <4>1, <4>2 DEF SourceOfReceipt, FindClosedByCarrier
    <3>4. ASSUME NEW f \in CarriedFinds(c), Disc(f) = id
          PROVE  SourceOfReceipt(id, rows'[id]) /\ FindClosedByCarrier(id, rows[id])'
      <4>1. id \in DiscIds /\ id \notin DartIdent /\ id[2] = f
        BY <1>2, <3>4, Identities DEF DartIdent
      <4>2. rows'[id].run = k /\ Decided(rows'[id])
        BY <1>7, <1>14, <3>4 DEF FindAllowed, Decided
      <4> QED BY <1>4, <4>1, <4>2 DEF SourceOfReceipt, FindClosedByCarrier, Decided
    <3> QED BY <1>12, <2>2, <3>2, <3>3, <3>4
  <2> QED BY <2>1, <2>2
<1>18. NewDecisions
  <2> SUFFICES ASSUME NEW id \in DartIdent, ~Decided(rows[id]), Decided(rows'[id])
               PROVE  UnderContract(id)'
    BY DEF NewDecisions
  <2>1. id \in Ident /\ rows'[id] # rows[id] /\ \A f \in CarriedFinds(c) : Disc(f) # id
    BY <1>2, Identities DEF DartIdent, Ident
  <2>2. PICK s \in Enlisted(c) : IdOf(c, s) = id /\ b.items[s.rcp].disp \notin Retryable
    BY <1>12, <2>1
  <2>3. rows'[id].run = k /\ rows'[id].src = rows[id].src /\ TerminalMatches(rows[id].src, s)
    BY <1>8, <1>13, <2>2
  <2> QED BY <1>4, <2>2, <2>3 DEF UnderContract
<1>19. NewCorrections
  BY <1>15 DEF NewCorrections, Ident
<1>20. NewDone
  <2> SUFFICES ASSUME runs[k].status # "done", runs'[k].status = "done", NEW s \in Enlisted(c)
               PROVE  Accounted(k, s)'
    BY <1>3, <1>4 DEF NewDone
  <2>1. runs'[k].body = b
    BY <1>3
  <2> QED BY <1>4, <1>13, <2>1 DEF Accounted
<1>21. NewReports
  BY <1>3, <1>5 DEF NewReports
<1>22. NewFinds
  <2> SUFFICES ASSUME NEW f \in Finds, ~Decided(rows[Disc(f)]), Decided(rows'[Disc(f)]),
                      rows'[Disc(f)].disp \in Stored
               PROVE  FoundOnEvidence(f)'
    BY DEF NewFinds, FoundOnEvidence, Decided
  <2>1. Disc(f) \in Ident /\ Disc(f) \in DiscIds /\ Disc(f)[2] = f
    BY Identities
  <2>2. f \in CarriedFinds(c)
    <3>1. PICK g \in CarriedFinds(c) : Disc(g) = Disc(f)
      BY <1>2, <1>12, <2>1, IdentitySorts
    <3> QED BY <1>2, <2>1, <3>1, Identities
  <2> DEFINE e == b.finds[f].ev
  <2>3. rows'[Disc(f)].run = k /\ rows'[Disc(f)].ev = e /\ b.finds[f].disp \in Stored
    BY <1>14, <2>2
  <2>4. /\ e \in evid /\ e.key = f
        /\ \/ e.mode = "scheduled" /\ e.run = k
           \/ e.mode = "manual" /\ TerminalPrior(e.run, k)
    BY <1>7, <2>2, <2>3 DEF FindAllowed
  <2>5. TerminalPrior(e.run, k) => /\ e.run # k /\ Before(e.run, k)
                                   /\ runs'[e.run].status \in {"done", "error"}
    BY <1>3, Keys DEF TerminalPrior, RunStep
  <2> HIDE DEF e
  <2> QED BY <1>1, <2>3, <2>4, <2>5 DEF FoundOnEvidence
<1>23. EvidenceStep
  BY <1>1 DEF SInv, ServerTypes, EvidenceStep
<1> QED BY <1>3, <1>16, <1>17, <1>18, <1>19, <1>20, <1>21, <1>22, <1>23, ServerStepInv DEF Owed

LEMMA FinishErrorInv ==
  ASSUME SInv, NEW k \in RunKeys, NEW b \in Body(runs[k].con), FinishError(k, b)
  PROVE  SInv' /\ RowStep /\ RunStep
<1>1. b.kind = "error" /\ runs[k].status # "none" /\ Settle(k, "error", b) /\ evid' = evid
  BY DEF FinishError
<1>2. rows' = [id \in Ident |->
                IF rows[id].status = "absent" /\ \E f \in b.cands : Disc(f) = id
                THEN PendingRow(NoSource, k) ELSE rows[id]]
  BY DEF FinishError
<1>3. b.cands \subseteq Finds
  BY ContractSources, ItemTypes
<1>4. /\ RunStep /\ NewRuns
      /\ \A j \in RunKeys : runs'[j] # runs[j] =>
           j = k /\ runs'[k].status = "error" /\ runs'[k].body = b
  BY <1>1, SettleFacts
<1>5. PendingRow(NoSource, k) \in Row /\ PendingRow(NoSource, k).status = "pending"
      /\ PendingRow(NoSource, k).first = k
  BY PendingFields, Keys
<1>6. \A id \in Ident : \/ rows'[id] = rows[id]
                        \/ /\ id \in DiscIds /\ rows[id].status = "absent"
                           /\ rows'[id] = PendingRow(NoSource, k)
  BY <1>2, <1>3, Identities
<1>7. RowStep
  <2>1. \A id \in Ident : rows[id] \in Row
    BY DEF SInv, ServerTypes
  <2>2. \A id \in Ident : Carries(rows[id], rows'[id])
    BY <1>5, <1>6, <2>1 DEF Carries, Decided
  <2>3. rows' = [id \in Ident |-> rows'[id]]
    BY <1>2
  <2> QED BY <2>2, <2>3 DEF RowStep, Carries
<1>8. RowsProper'
  <2> SUFFICES ASSUME NEW id \in Ident
               PROVE  /\ SourceOfReceipt(id, rows'[id]) /\ OnlyLegacyPoison(id, rows'[id])
                      /\ FindClosedByCarrier(id, rows[id])'
    BY DEF RowsProper
  <2>1. CASE rows'[id] = rows[id]
    BY <1>4, <2>1, ProperStays
  <2>2. CASE rows'[id] # rows[id]
    <3>1. id \notin DartIdent /\ rows'[id].status = "pending" /\ rows'[id].first # PoisonKey
      BY <1>5, <1>6, <2>2, Identities, Keys DEF DartIdent
    <3> QED BY <3>1 DEF SourceOfReceipt, OnlyLegacyPoison, FindClosedByCarrier
  <2> QED BY <2>1, <2>2
<1>9. NewCorrections
  BY <1>6, Identities DEF NewCorrections, Ident
<1>10. \A id \in Ident : Decided(rows'[id]) => Decided(rows[id])
  BY <1>5, <1>6 DEF Decided
<1>11. NewDecisions /\ NewFinds
  BY <1>10, FindsKept, Identities DEF NewDecisions, DartIdent, Ident
<1>12. NewDone
  BY <1>4 DEF NewDone
<1>13. NewReports
  <2> SUFFICES ASSUME NEW f \in b.cands PROVE rows'[Disc(f)].status # "absent"
    BY <1>4 DEF NewReports
  <2>1. Disc(f) \in Ident
    BY <1>3, Identities
  <2> QED BY <1>2, <1>5, <2>1
<1>14. EvidenceStep
  BY <1>1 DEF SInv, ServerTypes, EvidenceStep
<1> QED BY <1>4, <1>7, <1>8, <1>9, <1>11, <1>12, <1>13, <1>14, ServerStepInv DEF Owed

-----------------------------------------------------------------------------
(* The server on its own, called by anyone.                                  *)

LEMMA LegacyRows ==
  ASSUME NEW r \in Receipts, NEW row \in LegacyRow(r)
  PROVE  /\ row \in Row /\ ~Decided(row)
         /\ row = NoRow \/ (row.src \in Source /\ row.src.rcp = r /\ row.src.form = "core")
<1> DEFINE core == [rcp |-> r, form |-> "core", gen |-> 1]
           old == PendingRow(core, LegacyKey)
           new == [old EXCEPT !.status = "terminal"]
           done == [new EXCEPT !.disp = "source_error"]
<1>1. NoRow \in Row /\ ~Decided(NoRow)
  BY NoRowIsRow DEF Decided
<1>2. CASE row = NoRow
  BY <1>1, <1>2
<1>3. CASE row # NoRow
  <2>1. MaxGens # 0 /\ (row = old \/ row = PendingRow(core, PoisonKey) \/ row = done)
    BY <1>3 DEF LegacyRow
  <2>2. core \in Source /\ core.rcp = r /\ core.form = "core"
    BY <2>1, MaxGensAssumption DEF Source, Gens
  <2> HIDE DEF core
  <2>3. LegacyKey \in AnyKey /\ PoisonKey \in AnyKey
    BY DEF AnyKey
  <2>4. /\ old \in Row /\ old.status = "pending" /\ old.src = core
        /\ PendingRow(core, PoisonKey) \in Row /\ PendingRow(core, PoisonKey).status = "pending"
        /\ PendingRow(core, PoisonKey).src = core
    BY <2>2, <2>3, PendingFields
  <2> HIDE DEF old
  <2>5. new \in Row /\ new.src = core
    BY <2>4 DEF Row
  <2> HIDE DEF new
  <2>6. done \in Row /\ done.src = core /\ done.disp = "source_error"
    BY <2>5 DEF Row, Disposition, Retryable
  <2> HIDE DEF done
  <2>7. \A x : x.status = "pending" \/ x.disp = "source_error" => ~Decided(x)
    BY DEF Decided, Stored, Unstored
  <2> QED BY <2>1, <2>2, <2>4, <2>6, <2>7
<1> QED BY <1>2, <1>3

LEMMA ServerInitInv == ServerInit => SInv
<1> SUFFICES ASSUME ServerInit PROVE SInv
  OBVIOUS
<1>1. PICK old \in [Receipts -> UNION {LegacyRow(r) : r \in Receipts}] :
        /\ \A r \in Receipts : old[r] \in LegacyRow(r)
        /\ rows = [id \in Ident |-> IF id \in DartIds THEN old[id[2]] ELSE NoRow]
  BY DEF ServerInit
<1>2. runs = [k \in RunKeys |-> NoRun] /\ evid = {}
  BY DEF ServerInit
<1>3. \A id \in DartIds : /\ rows[id] \in Row /\ ~Decided(rows[id])
                          /\ rows[id] = NoRow \/ (rows[id].src \in Source /\ rows[id].src.rcp = id[2]
                                                  /\ rows[id].src.form = "core")
  <2> TAKE id \in DartIds
  <2>1. id \in Ident /\ id[2] \in Receipts
    BY Identities DEF Ident
  <2>2. rows[id] = old[id[2]] /\ old[id[2]] \in LegacyRow(id[2])
    BY <1>1, <2>1
  <2> QED BY <2>1, <2>2, LegacyRows
<1>4. \A id \in CorrIds \cup DiscIds : rows[id] = NoRow
  BY <1>1, Identities DEF Ident
<1>5. \A id \in Ident : rows[id] \in Row /\ ~Decided(rows[id])
  BY <1>3, <1>4, NoRowIsRow DEF Ident, Decided
<1>6. \A k \in RunKeys : /\ runs[k].status = "none" /\ runs[k].con = NoContract
                         /\ runs[k].body = NoBody /\ DOMAIN runs[k] = {"status", "con", "body"}
  BY <1>2 DEF NoRun
<1>7. NoContract \in Contract /\ NoContract.srcs = {} /\ NoBody.cands = {} /\ NoBody.kind = "none"
  BY DEF NoContract, NoBody, Contract
<1>8. ServerTypes
  <2>1. rows \in [Ident -> Row]
    <3>1. rows = [id \in Ident |-> rows[id]]
      BY <1>1
    <3> QED BY <1>5, <3>1
  <2> QED BY <1>2, <1>6, <1>7, <2>1 DEF ServerTypes, RunProper
<1>9. RowsProper
  <2> SUFFICES ASSUME NEW id \in Ident
               PROVE  SourceOfReceipt(id, rows[id]) /\ OnlyLegacyPoison(id, rows[id])
                      /\ FindClosedByCarrier(id, rows[id])
    BY DEF RowsProper
  <2>1. rows[id] = NoRow => rows[id].status = "absent" /\ rows[id].first # PoisonKey
    BY NoRowIsRow, Keys
  <2>2. CASE id \in DartIds
    BY <1>3, <2>1, <2>2, Identities DEF SourceOfReceipt, OnlyLegacyPoison, FindClosedByCarrier
  <2>3. CASE id \in CorrIds \cup DiscIds
    BY <1>4, <2>1, <2>3 DEF SourceOfReceipt, OnlyLegacyPoison, FindClosedByCarrier
  <2> QED BY <2>2, <2>3 DEF Ident
<1>10. AdmittedWorkIsTracked /\ DoneRunIsClosed /\ FindIsTracked
  BY <1>6, <1>7, EnlistedSources DEF AdmittedWorkIsTracked, DoneRunIsClosed, FindIsTracked
<1>11. ClosedUnderContract
  BY <1>5 DEF ClosedUnderContract, Ident
<1>12. CorrectionHasOriginal
  BY <1>4, NoRowIsRow DEF CorrectionHasOriginal
<1>13. FindClosedOnEvidence
  <2>1. \A f \in Finds : rows[Disc(f)].status = "absent"
    BY <1>4, Identities, NoRowIsRow
  <2> QED BY <2>1 DEF FindClosedOnEvidence
<1> QED BY <1>8, <1>9, <1>10, <1>11, <1>12, <1>13 DEF SInv

LEMMA ServerStep ==
  ASSUME SInv, [ServerNext]_serverVars PROVE SInv' /\ RowStep /\ RunStep
<1>1. CASE ReadBacklog
  BY <1>1, ReadBacklogInv
<1>2. ASSUME NEW k \in RunKeys, NEW c \in Contract, Register(k, c) PROVE SInv' /\ RowStep /\ RunStep
  BY <1>2, RegisterInv
<1>3. ASSUME NEW ids \in SUBSET (DartIds \cup CorrIds), NEW U \in [ids -> Gens \ {0}],
             RefreshPackets(U, rows)
      PROVE  SInv' /\ RowStep /\ RunStep
  BY <1>3, RefreshPacketsInv
<1>4. ASSUME NEW e \in Evidence, CreateEvidence(e) PROVE SInv' /\ RowStep /\ RunStep
  BY <1>4, CreateEvidenceInv
<1>5. ASSUME NEW k \in RunKeys, NEW b \in Body(runs[k].con), FinishDone(k, b) \/ FinishError(k, b)
      PROVE  SInv' /\ RowStep /\ RunStep
  BY <1>5, FinishDoneInv, FinishErrorInv
<1>6. CASE UNCHANGED serverVars
  <2>1. UNCHANGED <<rows, runs>> /\ EvidenceStep
    BY <1>6 DEF serverVars, EvidenceStep, SInv, ServerTypes
  <2> QED BY <2>1, EvidenceInv
<1> QED BY <1>1, <1>2, <1>3, <1>4, <1>5, <1>6 DEF ServerNext

LEMMA ServerInvariant == ServerSpec => []SInv
<1>1. SInv /\ [ServerNext]_serverVars => SInv'
  BY ServerStep
<1> QED BY ServerInitInv, <1>1, PTL DEF ServerSpec

-----------------------------------------------------------------------------
(* The invariant of the prehook.                                             *)

\* An entry of the invocation's backlog: a receipt's entry holds that receipt's source.
BackItem == [id : Ident, src : Source \cup {NoSource}, first : AnyKey]
BackProper(back) ==
  /\ back \subseteq BackItem
  /\ \A i \in back : i.id \in DartIdent => i.src \in Source
  /\ \A i, j \in back : i.id = j.id => i = j
DiskProper ==
  /\ disk \in [Receipts -> Seq(Int)]
  /\ \A r \in Receipts : Len(disk[r]) <= MaxGens /\ \A g \in 1..Len(disk[r]) : disk[r][g] <= day
File == {NoFile, TornFile} \cup [state : {"whole"}, con : Contract]
FilesProper == files \in [RunKeys -> File]
GateProper ==
  /\ gate \in [pc : {"idle", "refresh", "prepare", "register"}, key : AnyKey,
               sel : SUBSET Receipts, back : SUBSET BackItem, con : Contract]
  /\ gate.pc # "idle" => gate.key \in RunKeys
  /\ BackProper(gate.back)
Committed == gate.pc = "register" => files[gate.key] = Whole(gate.con)
GInv ==
  /\ SInv /\ DiskProper /\ FilesProper /\ GateProper /\ Committed /\ HandleIsCommitted
  /\ day \in 1..MaxDay /\ woken \subseteq RunKeys /\ faults \in 0..MaxFaults

LEMMA IdleProper ==
  ASSUME Fail PROVE GateProper' /\ Committed'
<1>1. NoContract \in Contract
  BY DEF NoContract, Contract
<1>2. gate' = Idle
  BY DEF Fail
<1>3. Idle \in [pc : {"idle", "refresh", "prepare", "register"}, key : AnyKey,
               sel : SUBSET Receipts, back : SUBSET BackItem, con : Contract]
  BY <1>1 DEF Idle, AnyKey
<1>4. gate'.pc = "idle" /\ gate'.back = {}
  BY <1>2 DEF Idle
<1> QED BY <1>2, <1>3, <1>4 DEF GateProper, Committed, BackProper

LEMMA FaultCount ==
  ASSUME faults \in 0..MaxFaults, UNCHANGED faults \/ Fault PROVE faults' \in 0..MaxFaults
BY MaxFaultsAssumption DEF Fault

\* Captures add to the disk, within the bound, and are stamped with the day.
LEMMA Published ==
  ASSUME DiskProper, day \in 1..MaxDay, day' = day, NEW new, Publish(new),
         \A r \in new \cap Receipts : NextGen(r) <= MaxGens
  PROVE  DiskProper'
<1>1. disk' \in [Receipts -> Seq(Int)]
  <2>1. \A r \in Receipts : disk[r] \in Seq(Int) /\ Append(disk[r], day) \in Seq(Int)
    BY DEF DiskProper
  <2> QED BY <2>1 DEF Publish
<1>2. ASSUME NEW r \in Receipts
      PROVE  Len(disk'[r]) <= MaxGens /\ \A g \in 1..Len(disk'[r]) : disk'[r][g] <= day
  <2>1. disk[r] \in Seq(Int) /\ Len(disk[r]) <= MaxGens /\ \A g \in 1..Len(disk[r]) : disk[r][g] <= day
    BY DEF DiskProper
  <2>2. CASE r \in new
    <3>1. disk'[r] = Append(disk[r], day) /\ Len(disk[r]) + 1 <= MaxGens
      BY <2>2 DEF Publish, NextGen
    <3> DEFINE d == disk[r]
    <3>2. d \in Seq(Int) /\ Len(d) + 1 <= MaxGens /\ \A g \in 1..Len(d) : d[g] <= day
      BY <2>1, <3>1
    <3> HIDE DEF d
    <3>3. Len(Append(d, day)) = Len(d) + 1 /\ Append(d, day)[Len(d) + 1] = day
          /\ \A g \in 1..Len(d) : Append(d, day)[g] = d[g]
      BY <3>2
    <3>4. \A g \in 1..(Len(d) + 1) : Append(d, day)[g] <= day
      BY <3>2, <3>3
    <3> QED BY <3>1, <3>2, <3>3, <3>4 DEF d
  <2>3. CASE r \notin new
    BY <2>1, <2>3 DEF Publish
  <2> QED BY <2>2, <2>3
<1> QED BY <1>1, <1>2 DEF DiskProper

\* The handles of the agent outlive every step that leaves them and their files alone.
LEMMA HandlesStay ==
  ASSUME HandleIsCommitted, RunStep, woken \subseteq RunKeys, woken' = woken,
         \A k \in woken : files'[k] = files[k]
  PROVE  HandleIsCommitted'
BY DEF HandleIsCommitted, RunStep

-----------------------------------------------------------------------------
(* The prehook and the agent make only the calls the server offers.          *)

LEMMA LawfulAttempts ==
  ASSUME GInv, NEW c \in Contract, NEW b \in Attempts(c) PROVE b \in Body(c)
<1> DEFINE items == [disp : Choices \ Stored, ev : {NoEvidence}]
               \cup [disp : Choices \cap Stored, ev : evid]
<1>1. items \subseteq Item
  BY ChoicesAssumption DEF Item, GInv, SInv, ServerTypes
<1>2. Attempts(c) = [kind : {"done"}, items : [Admitted(c) -> items],
                     finds : [CarriedFinds(c) -> items], cands : {{}}]
        \cup [kind : {"error"}, items : {<<>>}, finds : {<<>>}, cands : SUBSET Finds]
  BY DEF Attempts
<1> HIDE DEF items
<1>3. [Admitted(c) -> items] \subseteq [Admitted(c) -> Item]
      /\ [CarriedFinds(c) -> items] \subseteq [CarriedFinds(c) -> Item]
  BY <1>1
<1> QED BY <1>2, <1>3 DEF Body

LEMMA GateServer ==
  ASSUME GInv, [Next]_vars PROVE [ServerNext]_serverVars
<1>1. ASSUME NEW k \in RunKeys, NEW sel \in SUBSET Receipts, ReadStep(k, sel) PROVE ServerNext
  BY <1>1 DEF ReadStep, ServerNext
<1>2. CASE RefreshStep
  <2> DEFINE stale == Stale(gate.back)
             ids == {i.id : i \in stale}
             held == [id \in ids |-> CHOOSE i \in stale : i.id = id]
             U == [id \in ids |-> NextGen(held[id].src.rcp)]
  <2>1. \/ UNCHANGED serverVars
        \/ (\A id \in ids : U[id] <= MaxGens) /\ Refreshable(U, held) /\ RefreshPackets(U, held)
    BY <1>2 DEF RefreshStep
  <2>2. ASSUME \A id \in ids : U[id] <= MaxGens, Refreshable(U, held), RefreshPackets(U, held)
        PROVE  ServerNext
    <3>1. RefreshPackets(U, rows)
      BY <2>2 DEF RefreshPackets, Refreshable
    <3>2. ids \subseteq DartIds \cup CorrIds
      BY <2>2 DEF Refreshable
    <3>3. U \in [ids -> Gens \ {0}]
      <4>1. ASSUME NEW id \in ids PROVE U[id] \in Gens \ {0}
        <5>1. PICK i \in stale : i.id = id
          OBVIOUS
        <5>2. held[id] \in stale /\ held[id].id = id
          BY <5>1
        <5>3. held[id].src.rcp \in Receipts
          <6>1. held[id] \in BackItem /\ held[id].src.form = "core"
            BY <5>2 DEF Stale, GInv, GateProper, BackProper
          <6> QED BY <6>1 DEF BackItem, Source, NoSource
        <5>4. disk[held[id].src.rcp] \in Seq(Int)
          BY <5>3 DEF GInv, DiskProper
        <5>5. U[id] \in Nat \ {0} /\ U[id] <= MaxGens
          <6> DEFINE d == disk[held[id].src.rcp]
          <6>1. U[id] = Len(d) + 1
            BY DEF NextGen
          <6>2. d \in Seq(Int)
            BY <5>4
          <6> HIDE DEF d
          <6>3. Len(d) \in Nat
            BY <6>2
          <6>4. U[id] <= MaxGens
            BY <2>2
          <6> HIDE DEF U
          <6> QED BY <6>1, <6>3, <6>4
        <5> HIDE DEF U
        <5> QED BY <5>5, MaxGensAssumption DEF Gens
      <4> QED BY <4>1
    <3> HIDE DEF U, ids
    <3> QED BY <3>1, <3>2, <3>3 DEF ServerNext
  <2> QED BY <2>1, <2>2
<1>3. ASSUME NEW today, PrepareStep(today) PROVE UNCHANGED serverVars
  BY <1>3 DEF PrepareStep
<1>4. CASE RegisterStep
  <2>1. gate.pc = "register" => gate.key \in RunKeys /\ gate.con \in Contract
    BY DEF GInv, GateProper
  <2> QED BY <1>4, <2>1 DEF RegisterStep, ServerNext
<1>5. CASE Crash \/ NextDay
  BY <1>5 DEF Crash, NextDay
<1>6. ASSUME NEW k, NEW s, NEW late, AgentStores(k, s, late) PROVE ServerNext
  <2>1. \A e : CreateEvidence(e) => ServerNext
    BY DEF CreateEvidence, ServerNext
  <2> QED BY <1>6, <2>1 DEF AgentStores
<1>7. ASSUME NEW k, NEW f, NEW mode, AgentStoresFind(k, f, mode) PROVE ServerNext
  <2>1. \A e : CreateEvidence(e) => ServerNext
    BY DEF CreateEvidence, ServerNext
  <2> QED BY <1>7, <2>1 DEF AgentStoresFind
<1>8. ASSUME NEW k \in InHand, NEW b \in Attempts(runs[k].con), AgentFinishes(k, b) PROVE ServerNext
  <2>1. k \in RunKeys /\ runs[k].con \in Contract
    BY ContractSources, OldKeysAssumption DEF GInv, InHand
  <2>2. b \in Body(runs[k].con)
    BY <2>1, LawfulAttempts
  <2> QED BY <1>8, <2>1, <2>2 DEF AgentFinishes, ServerNext
<1>9. CASE OldStep
  <2>1. PICK k \in OldKeys, c \in OldContracts : Register(k, c)
    BY <1>9 DEF OldStep, OldRegister
  <2>2. c \in Contract
    BY DEF OldContracts, OldSources, Contract
  <2> QED BY <2>1, <2>2, OldKeysAssumption DEF ServerNext
<1>10. CASE UNCHANGED vars
  BY <1>10 DEF vars
<1> QED BY <1>1, <1>2, <1>3, <1>4, <1>5, <1>6, <1>7, <1>8, <1>9, <1>10 DEF Next, GateStep, AgentStep

-----------------------------------------------------------------------------
(* Each step of the prehook keeps its invariant.                             *)

\* What the steps share once the server's part is known.
GateKept == GInv /\ SInv' /\ RunStep

LEMMA ReadStepInv ==
  ASSUME GateKept, NEW k \in RunKeys, NEW sel \in SUBSET Receipts, ReadStep(k, sel)
  PROVE  GInv'
<1>1. UNCHANGED <<day, disk, files, woken>>
  BY DEF ReadStep
<1>2. HandleIsCommitted'
  BY <1>1, HandlesStay DEF GateKept, GInv
<1>3. DiskProper' /\ FilesProper' /\ day' \in 1..MaxDay /\ woken' \subseteq RunKeys
  BY <1>1 DEF GateKept, GInv, DiskProper, FilesProper
<1>4. faults' \in 0..MaxFaults
  BY FaultCount DEF ReadStep, GateKept, GInv
<1>5. GateProper' /\ Committed'
  <2>1. CASE Fault
    BY <2>1, IdleProper DEF Fault
  <2>2. ASSUME NEW back, back = Snapshot(rows'),
               gate' = [Idle EXCEPT !.pc = IF Stale(back) = {} THEN "prepare" ELSE "refresh",
                                    !.key = k, !.sel = sel, !.back = back]
        PROVE  GateProper' /\ Committed'
    <3>1. BackProper(back)
      <4>1. \A id \in Ident : /\ rows'[id] \in Row
                              /\ rows'[id].src \in Source \cup {NoSource} /\ rows'[id].first \in AnyKey
                              /\ SourceOfReceipt(id, rows'[id])
        BY RowFields DEF GateKept, SInv, ServerTypes, RowsProper
      <4>2. back = {[id |-> id, src |-> rows'[id].src, first |-> rows'[id].first]
                      : id \in {x \in Ident : rows'[x].status = "pending"}}
        BY <2>2 DEF Snapshot, Pending
      <4>3. back \subseteq BackItem
        BY <4>1, <4>2 DEF BackItem
      <4>4. \A i \in back : i.id \in DartIdent => i.src \in Source
        BY <4>1, <4>2 DEF SourceOfReceipt
      <4>5. \A i, j \in back : i.id = j.id => i = j
        BY <4>2
      <4> QED BY <4>3, <4>4, <4>5 DEF BackProper
    <3>2. gate' = [pc |-> IF Stale(back) = {} THEN "prepare" ELSE "refresh", key |-> k, sel |-> sel,
                   back |-> back, con |-> NoContract]
      BY <2>2 DEF Idle
    <3>3. NoContract \in Contract /\ k \in AnyKey
      BY Keys DEF NoContract, Contract
    <3>4. gate'.pc \in {"prepare", "refresh"} /\ gate'.key = k /\ gate'.back = back
      BY <3>2
    <3> HIDE <2>2
    <3> QED BY <3>1, <3>2, <3>3, <3>4 DEF GateProper, Committed, BackProper
  <2> QED BY <2>1, <2>2 DEF ReadStep
<1> QED BY <1>2, <1>3, <1>4, <1>5 DEF GInv, GateKept

LEMMA RefreshStepInv ==
  ASSUME GateKept, RefreshStep PROVE GInv'
<1> DEFINE stale == Stale(gate.back)
           ids == {i.id : i \in stale}
           held == [id \in ids |-> CHOOSE i \in stale : i.id = id]
           U == [id \in ids |-> NextGen(held[id].src.rcp)]
<1>1. UNCHANGED <<day, files, woken>> /\ gate.pc = "refresh"
  BY DEF RefreshStep
<1>2. HandleIsCommitted'
  BY <1>1, HandlesStay DEF GateKept, GInv
<1>3. FilesProper' /\ day' \in 1..MaxDay /\ woken' \subseteq RunKeys
  BY <1>1 DEF GateKept, GInv, FilesProper
<1>4. faults' \in 0..MaxFaults
  BY FaultCount DEF RefreshStep, GateKept, GInv
<1>5. BackProper(gate.back) /\ stale \subseteq gate.back /\ \A i \in stale : i.src.form = "core"
  BY DEF Stale, GateKept, GInv, GateProper
<1>6. \A i \in stale : i.id \in ids /\ held[i.id] = i
  BY <1>5 DEF BackProper
<1>7. DiskProper'
  <2>1. ASSUME NEW new, Publish({r \in new : NextGen(r) <= MaxGens}) PROVE DiskProper'
    BY <1>1, <2>1, Published DEF GateKept, GInv
  <2>2. ASSUME \A id \in ids : U[id] <= MaxGens, Publish({i.src.rcp : i \in stale}) PROVE DiskProper'
    <3>1. \A i \in stale : NextGen(i.src.rcp) <= MaxGens
      BY <1>6, <2>2
    <3> HIDE DEF stale
    <3> QED BY <1>1, <2>2, <3>1, Published DEF GateKept, GInv
  <2> QED BY <2>1, <2>2 DEF RefreshStep
<1>8. GateProper' /\ Committed'
  <2>1. CASE Fail
    BY <2>1, IdleProper
  <2>2. ASSUME \A id \in ids : U[id] <= MaxGens,
               gate' = [gate EXCEPT !.pc = "prepare",
                          !.back = {IF i \in stale THEN [i EXCEPT !.src.gen = U[i.id]] ELSE i
                                      : i \in gate.back}]
        PROVE  GateProper' /\ Committed'
    <3> DEFINE renewed(i) == IF i \in stale THEN [i EXCEPT !.src.gen = U[i.id]] ELSE i
               back == {renewed(i) : i \in gate.back}
    <3>1. ASSUME NEW i \in gate.back
          PROVE  /\ renewed(i) \in BackItem /\ renewed(i).id = i.id
                 /\ i.id \in DartIdent => renewed(i).src \in Source
      <4>1. i \in BackItem /\ (i.id \in DartIdent => i.src \in Source)
        BY <1>5 DEF BackProper
      <4>2. CASE i \in stale
        <5>1. i.src \in Source
          BY <1>5, <4>1, <4>2 DEF BackItem, NoSource
        <5>2. U[i.id] \in Gens
          <6>1. U[i.id] = Len(disk[i.src.rcp]) + 1
            BY <1>6, <4>2 DEF NextGen
          <6>2. U[i.id] <= MaxGens
            BY <1>6, <2>2, <4>2
          <6> DEFINE d == disk[i.src.rcp]
          <6>3. d \in Seq(Int)
            BY <5>1 DEF Source, GateKept, GInv, DiskProper
          <6> HIDE DEF U, d
          <6> QED BY <6>1, <6>2, <6>3, MaxGensAssumption DEF Gens, d
        <5> DEFINE g == U[i.id]
                   src == [i.src EXCEPT !.gen = g]
        <5>3. src \in Source
          <6> HIDE DEF g
          <6> QED BY <5>1, <5>2 DEF Source, g
        <5>4. renewed(i) = [i EXCEPT !.src = src]
          BY <4>1, <4>2 DEF BackItem
        <5> HIDE DEF src, renewed
        <5> QED BY <4>1, <5>3, <5>4 DEF BackItem
      <4>3. CASE i \notin stale
        BY <4>1, <4>3
      <4> QED BY <4>2, <4>3
    <3>2. gate' = [gate EXCEPT !.pc = "prepare", !.back = back]
      BY <2>2
    <3> HIDE DEF renewed
    <3>3. BackProper(back)
      <4>1. \A i, j \in gate.back : i.id = j.id => i = j
        BY <1>5 DEF BackProper
      <4> QED BY <3>1, <4>1 DEF BackProper
    <3> HIDE DEF back
    <3>4. gate \in [pc : {"idle", "refresh", "prepare", "register"}, key : AnyKey,
                    sel : SUBSET Receipts, back : SUBSET BackItem, con : Contract]
          /\ gate.key \in RunKeys
      BY <1>1 DEF GateKept, GInv, GateProper
    <3>5. back \in SUBSET BackItem
      BY <3>3 DEF BackProper
    <3>6. gate' \in [pc : {"idle", "refresh", "prepare", "register"}, key : AnyKey,
                    sel : SUBSET Receipts, back : SUBSET BackItem, con : Contract]
          /\ gate'.key = gate.key /\ gate'.back = back /\ gate'.pc = "prepare"
      BY <3>2, <3>4, <3>5
    <3> QED BY <3>3, <3>4, <3>6 DEF GateProper, Committed
  <2> QED BY <2>1, <2>2 DEF RefreshStep, Fault
<1> QED BY <1>2, <1>3, <1>4, <1>7, <1>8 DEF GInv, GateKept

\* The contract an invocation builds is a contract.
LEMMA HistoryQuotes ==
  ASSUME GInv, NEW listed \in SUBSET Receipts
  PROVE  /\ History(listed) \subseteq Quote
         /\ \A q \in History(listed) : q.row.src \in Source
<1> SUFFICES ASSUME NEW r \in Asked(listed), rows[Dart(r)].status = "terminal"
             PROVE  r \in Receipts /\ rows[Dart(r)] \in Row /\ rows[Dart(r)].src \in Source
  BY DEF History, Quote
<1>1. r \in Receipts
  <2>1. ASSUME NEW i \in Of({"corr"}, gate.back) PROVE i.src.rcp \in Receipts
    <3>1. i \in BackItem /\ i.id[1] = "corr" /\ (i.id \in DartIdent => i.src \in Source)
      BY DEF Of, GInv, GateProper, BackProper
    <3>2. i.id \in DartIdent
      BY <3>1 DEF BackItem, DartIdent, Ident, DiscIds, Disc
    <3> QED BY <3>1, <3>2 DEF Source
  <2> QED BY <2>1 DEF Asked
<1>2. Dart(r) \in Ident /\ Dart(r) \in DartIdent
  BY <1>1, Identities DEF DartIdent
<1> QED BY <1>1, <1>2 DEF GInv, SInv, ServerTypes, RowsProper, SourceOfReceipt

LEMMA PacketIsSource ==
  ASSUME NEW r \in Receipts, NEW g \in Gens PROVE Packet(r, g) \in Source
BY MaxGensAssumption DEF Packet, Source, Gens

LEMMA WantedReceipts ==
  ASSUME GInv, NEW listed \in SUBSET Receipts PROVE Wanted(listed, History(listed)) \subseteq Receipts
<1>1. ASSUME NEW i \in gate.back, i.src.form = "failed" PROVE i.src.rcp \in Receipts
  BY <1>1 DEF GInv, GateProper, BackProper, BackItem, Source, NoSource
<1> QED BY <1>1 DEF Wanted, Retried

LEMMA SourcesGathered ==
  ASSUME GInv, NEW listed \in SUBSET Receipts,
         NEW got \in [Wanted(listed, History(listed)) -> Gens]
  PROVE  AllSources(Gathered(listed, History(listed), got)) \subseteq Source
<1> DEFINE hist == History(listed)
           wanted == Wanted(listed, hist)
<1>1. \A r \in wanted : Packet(r, got[r]) \in Source
  BY WantedReceipts, PacketIsSource
<1>2. ASSUME NEW r \in listed, NEW s \in Reused(r, hist) PROVE Packet(s.rcp, s.gen) \in Source
  <2>1. s.rcp \in Receipts /\ s.gen \in Gens
    <3>1. ASSUME NEW i \in gate.back, i.src.rcp = r, s = i.src PROVE s.rcp \in Receipts /\ s.gen \in Gens
      <4>1. i.src \in Source \cup {NoSource}
        BY DEF GInv, GateProper, BackProper, BackItem
      <4> QED BY <3>1, <4>1, MaxGensAssumption DEF Source, NoSource, Gens
    <3>2. ASSUME NEW q \in hist, s = q.row.src PROVE s.rcp \in Receipts /\ s.gen \in Gens
      BY <3>2, HistoryQuotes DEF Source
    <3> QED BY <3>1, <3>2 DEF Reused
  <2> QED BY <2>1, PacketIsSource
<1>3. Gathered(listed, hist, got) \subseteq Source
  BY <1>1, <1>2 DEF Gathered
<1>4. ASSUME NEW i \in Of({"dart", "corr"}, gate.back) PROVE i.src \in Source
  <2>1. i \in BackItem /\ i.id[1] \in {"dart", "corr"} /\ (i.id \in DartIdent => i.src \in Source)
    BY DEF Of, GInv, GateProper, BackProper
  <2>2. i.id \in DartIdent
    BY <2>1 DEF BackItem, DartIdent, Ident, DiscIds, Disc
  <2> QED BY <2>1, <2>2
<1> HIDE DEF hist
<1> QED BY <1>3, <1>4 DEF AllSources, hist

LEMMA BuiltIsContract ==
  ASSUME GInv, NEW listed \in SUBSET Receipts, NEW all \in SUBSET Source
  PROVE  Built(all, History(listed)) \in Contract
<1>1. Excluded(all, History(listed)) \subseteq Quote
  BY HistoryQuotes DEF Excluded
<1>2. \A i \in gate.back : [id |-> i.id, src |-> Core(i.src)] \in Carry
  <2> TAKE i \in gate.back
  <2>1. i \in BackItem
    BY DEF GInv, GateProper, BackProper
  <2>2. Core(i.src) \in Source \cup {NoSource}
    <3> DEFINE s == i.src
    <3>1. s \in Source \cup {NoSource}
      BY <2>1 DEF BackItem
    <3> HIDE DEF s
    <3>2. Core(s) \in Source \cup {NoSource}
      BY <3>1 DEF Core, Source, NoSource
    <3> QED BY <3>2 DEF s
  <2> QED BY <2>1, <2>2 DEF Carry, BackItem
<1>3. History(listed) \subseteq Quote
  BY HistoryQuotes
<1> QED BY <1>1, <1>2, <1>3 DEF Built, Contract

\* Committing writes a new file or finds the same one; either way it is the contract's.
LEMMA CommitFacts ==
  ASSUME GInv, gate.pc = "prepare", NEW c \in Contract, Commit(c), woken' = woken
  PROVE  /\ FilesProper' /\ GateProper' /\ Committed' /\ faults' \in 0..MaxFaults
         /\ \A k \in woken : files'[k] = files[k]
<1>1. gate.key \in RunKeys /\ FilesProper
  BY DEF GInv, GateProper
<1>2. \A k \in woken : files[k].state = "whole"
  <2>1. \A k \in woken : files[k] = Whole(runs[k].con)
    BY DEF GInv, HandleIsCommitted
  <2>2. \A x : Whole(x).state = "whole"
    BY DEF Whole
  <2> QED BY <2>1, <2>2
<1>3. Whole(c) \in File /\ TornFile \in File /\ NoFile.state = "none"
  BY DEF Whole, File, NoFile
<1> DEFINE r1 == [Idle EXCEPT !.pc = "register"]
           r2 == [r1 EXCEPT !.key = gate.key]
           ready == [r2 EXCEPT !.con = c]
<1>4. ready = [pc |-> "register", key |-> gate.key, sel |-> {}, back |-> {}, con |-> c]
  <2>1. r1 = [pc |-> "register", key |-> LegacyKey, sel |-> {}, back |-> {}, con |-> NoContract]
    BY DEF Idle
  <2> HIDE DEF r1
  <2>2. r2 = [pc |-> "register", key |-> gate.key, sel |-> {}, back |-> {}, con |-> NoContract]
    BY <2>1
  <2> HIDE DEF r2
  <2> QED BY <2>2
<1> HIDE DEF ready
<1>5. ASSUME gate' = ready, files'[gate.key] = Whole(c) PROVE GateProper' /\ Committed'
  <2>1. gate'.pc = "register" /\ gate'.key = gate.key /\ gate'.con = c /\ gate'.back = {}
    BY <1>4, <1>5
  <2>2. gate' \in [pc : {"idle", "refresh", "prepare", "register"}, key : AnyKey,
               sel : SUBSET Receipts, back : SUBSET BackItem, con : Contract]
    BY <1>1, <1>4, <1>5, Keys
  <2> QED BY <1>1, <1>5, <2>1, <2>2 DEF GateProper, Committed, BackProper
<1>6. faults' \in 0..MaxFaults
  BY FaultCount DEF Commit, GInv
<1>7. CASE files[gate.key] = NoFile
  <2>1. \/ files' = [files EXCEPT ![gate.key] = Whole(c)] /\ gate' = ready
        \/ files' = [files EXCEPT ![gate.key] = TornFile] /\ Fail
    BY <1>7 DEF Commit, Fault, ready, r1, r2
  <2>2. gate.key \notin woken
    BY <1>2, <1>3, <1>7
  <2>3. FilesProper' /\ \A k \in woken : files'[k] = files[k]
    <3>1. ASSUME NEW x \in File, files' = [files EXCEPT ![gate.key] = x]
          PROVE  FilesProper' /\ \A k \in woken : files'[k] = files[k]
      <4>1. FilesProper'
        BY <1>1, <3>1 DEF FilesProper
      <4>2. woken \subseteq RunKeys
        BY DEF GInv
      <4> QED BY <1>1, <2>2, <3>1, <4>1, <4>2 DEF FilesProper
    <3> QED BY <1>3, <2>1, <3>1
  <2>4. CASE files' = [files EXCEPT ![gate.key] = Whole(c)] /\ gate' = ready
    <3>1. files'[gate.key] = Whole(c)
      BY <1>1, <2>4 DEF FilesProper
    <3> QED BY <1>5, <1>6, <2>3, <2>4, <3>1
  <2>5. CASE Fail
    BY <1>6, <2>3, <2>5, IdleProper
  <2> QED BY <2>1, <2>4, <2>5
<1>8. CASE files[gate.key] # NoFile
  <2>1. files' = files /\ ((files[gate.key] = Whole(c) /\ gate' = ready) \/ Fail)
    BY <1>8 DEF Commit, ready, r1, r2
  <2>2. FilesProper' /\ \A k \in woken : files'[k] = files[k]
    BY <1>1, <2>1 DEF FilesProper
  <2> QED BY <1>5, <1>6, <2>1, <2>2, IdleProper
<1> QED BY <1>7, <1>8

LEMMA PrepareStepInv ==
  ASSUME GateKept, NEW today \in SUBSET {r \in Receipts : FiledOn[r] = day}, PrepareStep(today)
  PROVE  GInv'
<1> DEFINE listed == Listed(today)
           hist == History(listed)
           wanted == Wanted(listed, hist)
<1>1. gate.pc = "prepare" /\ UNCHANGED <<serverVars, day, woken>>
  BY DEF PrepareStep
<1>2. listed \in SUBSET Receipts
  BY DEF Listed
<1>3. day' \in 1..MaxDay /\ woken' \subseteq RunKeys /\ GInv
  BY <1>1 DEF GateKept, GInv
<1>4. SUFFICES /\ DiskProper' /\ FilesProper' /\ GateProper' /\ Committed' /\ faults' \in 0..MaxFaults
               /\ \A k \in woken : files'[k] = files[k]
  BY <1>1, <1>3, HandlesStay DEF GateKept, GInv
<1>5. ASSUME Fail, UNCHANGED <<files, faults>>
      PROVE  /\ FilesProper' /\ GateProper' /\ Committed' /\ faults' \in 0..MaxFaults
             /\ \A k \in woken : files'[k] = files[k]
  BY <1>3, <1>5, IdleProper DEF GInv, FilesProper
<1>6. CASE Fail /\ UNCHANGED <<disk, files, faults>>
  <2>1. DiskProper'
    BY <1>1, <1>3, <1>6 DEF GInv, DiskProper
  <2> QED BY <1>5, <1>6, <2>1
<1>7. ASSUME NEW got \in [wanted -> Gens],
             Publish({r \in wanted : got[r] = NextGen(r)}),
             LET all == AllSources(Gathered(listed, hist, got)) IN
             IF WellBuilt(all, hist) THEN Commit(Built(all, hist)) ELSE Fail /\ UNCHANGED <<files, faults>>
      PROVE  /\ DiskProper' /\ FilesProper' /\ GateProper' /\ Committed' /\ faults' \in 0..MaxFaults
             /\ \A k \in woken : files'[k] = files[k]
  <2> DEFINE all == AllSources(Gathered(listed, hist, got))
  <2>1. DiskProper'
    <3>1. \A r \in wanted : got[r] <= MaxGens
      BY MaxGensAssumption DEF Gens
    <3> HIDE DEF wanted
    <3> QED BY <1>1, <1>3, <1>7, <3>1, Published DEF GInv
  <2>2. all \in SUBSET Source
    BY <1>2, <1>3, SourcesGathered
  <2>3. Built(all, hist) \in Contract
    BY <1>2, <1>3, <2>2, BuiltIsContract
  <2>4. Commit(Built(all, hist)) \/ (Fail /\ UNCHANGED <<files, faults>>)
    BY <1>7
  <2> HIDE DEF all, hist
  <2> QED BY <1>1, <1>3, <1>5, <2>1, <2>3, <2>4, CommitFacts
<1> QED BY <1>6, <1>7 DEF PrepareStep

LEMMA RegisterStepInv ==
  ASSUME GateKept, RegisterStep PROVE GInv'
<1>1. UNCHANGED <<day, disk, files>> /\ gate.pc = "register" /\ Fail
  BY DEF RegisterStep, Fault
<1>2. DiskProper' /\ FilesProper' /\ day' \in 1..MaxDay
  BY <1>1 DEF GateKept, GInv, DiskProper, FilesProper
<1>3. GateProper' /\ Committed'
  BY <1>1, IdleProper
<1>4. faults' \in 0..MaxFaults
  BY FaultCount DEF RegisterStep, GateKept, GInv
<1>5. gate.key \in RunKeys /\ files[gate.key] = Whole(gate.con)
  BY <1>1 DEF GateKept, GInv, GateProper, Committed
<1>6. CASE woken' = woken
  BY <1>1, <1>2, <1>3, <1>4, <1>6, HandlesStay DEF GInv, GateKept
<1>7. CASE woken' # woken
  <2>1. woken' = woken \cup {gate.key}
        /\ (Register(gate.key, gate.con) \/ (Registered(gate.key, gate.con) /\ UNCHANGED serverVars))
    BY <1>7 DEF RegisterStep
  <2>2. runs'[gate.key].status # "none" /\ runs'[gate.key].con = gate.con
    <3>1. CASE Register(gate.key, gate.con)
      BY <1>5, <3>1 DEF Register, NoRun, GateKept, GInv, SInv, ServerTypes
    <3>2. CASE Registered(gate.key, gate.con) /\ UNCHANGED serverVars
      BY <3>2 DEF Registered, serverVars
    <3> QED BY <2>1, <3>1, <3>2
  <2>3. HandleIsCommitted'
    BY <1>1, <1>5, <2>1, <2>2 DEF HandleIsCommitted, GateKept, GInv, RunStep
  <2> QED BY <1>2, <1>3, <1>4, <1>5, <2>1, <2>3 DEF GInv, GateKept
<1> QED BY <1>6, <1>7

\* A step that leaves the prehook's files, packets and handles alone.
LEMMA GateStays ==
  ASSUME GateKept, UNCHANGED <<disk, files, woken>>, day <= day', day' \in 1..MaxDay,
         UNCHANGED <<gate, faults>> \/ Fault
  PROVE  GInv'
<1>1. HandleIsCommitted'
  BY HandlesStay DEF GateKept, GInv
<1>2. FilesProper' /\ woken' \subseteq RunKeys /\ faults' \in 0..MaxFaults
  BY FaultCount DEF GateKept, GInv, FilesProper
<1>3. DiskProper'
  <2>1. \A r \in Receipts : \A g \in 1..Len(disk[r]) : disk[r][g] <= day'
    <3> TAKE r \in Receipts
    <3> TAKE g \in 1..Len(disk[r])
    <3> DEFINE d == disk[r]
    <3>1. d \in Seq(Int) /\ g \in 1..Len(d) /\ d[g] <= day /\ day \in Int
      BY DEF GateKept, GInv, DiskProper
    <3>2. d[g] \in Int
      <4> HIDE DEF d
      <4> QED BY <3>1
    <3> QED BY <3>1, <3>2
  <2> QED BY <2>1 DEF GateKept, GInv, DiskProper
<1>4. GateProper' /\ Committed'
  <2>1. CASE UNCHANGED gate
    BY <2>1 DEF GateKept, GInv, GateProper, Committed
  <2>2. CASE Fault
    BY <2>2, IdleProper DEF Fault
  <2> QED BY <2>1, <2>2
<1> QED BY <1>1, <1>2, <1>3, <1>4 DEF GInv, GateKept

LEMMA GInvStep ==
  ASSUME GInv, [Next]_vars PROVE GInv' /\ RowStep
<1>1. GateKept /\ RowStep
  BY GateServer, ServerStep DEF GateKept, GInv
<1>2. day \in Int /\ day <= day /\ day \in 1..MaxDay
  BY DEF GInv
<1>3. ASSUME NEW k \in RunKeys, NEW sel \in SUBSET Receipts, ReadStep(k, sel) PROVE GInv'
  BY <1>1, <1>3, ReadStepInv
<1>4. CASE RefreshStep
  BY <1>1, <1>4, RefreshStepInv
<1>5. ASSUME NEW today \in SUBSET {r \in Receipts : FiledOn[r] = day}, PrepareStep(today) PROVE GInv'
  BY <1>1, <1>5, PrepareStepInv
<1>6. CASE RegisterStep
  BY <1>1, <1>6, RegisterStepInv
<1>7. CASE Crash
  BY <1>1, <1>2, <1>7, GateStays DEF Crash
<1>8. CASE AgentStep
  <2>1. UNCHANGED gateVars
    BY <1>8 DEF AgentStep, AgentStores, AgentStoresFind, AgentFinishes
  <2> QED BY <1>1, <1>2, <2>1, GateStays DEF gateVars
<1>9. CASE NextDay
  <2>1. day' = day + 1 /\ day < MaxDay /\ UNCHANGED <<disk, files, gate, woken, faults>>
    BY <1>9 DEF NextDay
  <2>2. day <= day' /\ day' \in 1..MaxDay
    BY <1>2, <2>1, MaxDayAssumption
  <2> QED BY <1>1, <2>1, <2>2, GateStays
<1>10. CASE OldStep \/ UNCHANGED vars
  <2>1. UNCHANGED gateVars
    BY <1>10 DEF OldStep, OldRegister, vars
  <2> QED BY <1>1, <1>2, <2>1, GateStays DEF gateVars
<1> QED BY <1>1, <1>3, <1>4, <1>5, <1>6, <1>7, <1>8, <1>9, <1>10 DEF Next, GateStep

LEMMA GInitInv == Init => GInv
<1> SUFFICES ASSUME Init PROVE GInv
  OBVIOUS
<1>1. SInv
  BY ServerInitInv DEF Init
<1>2. day = 1 /\ files = [k \in RunKeys |-> NoFile] /\ gate = Idle /\ woken = {} /\ faults = 0
      /\ disk = [r \in Receipts |-> IF rows[Dart(r)] = NoRow THEN <<>> ELSE <<FiledOn[r]>>]
  BY DEF Init
<1>3. DiskProper
  <2>1. ASSUME NEW r \in Receipts
        PROVE  /\ disk[r] \in Seq(Int) /\ Len(disk[r]) <= MaxGens
               /\ \A g \in 1..Len(disk[r]) : disk[r][g] <= day
    <3>1. CASE rows[Dart(r)] = NoRow
      <4>1. disk[r] = <<>>
        BY <1>2, <3>1
      <4> QED BY <4>1, MaxGensAssumption
    <3>2. CASE rows[Dart(r)] # NoRow
      <4>1. rows[Dart(r)] \in LegacyRow(r)
        BY Identities DEF Init, ServerInit
      <4>2. FiledOn[r] <= 0 /\ MaxGens # 0 /\ FiledOn[r] \in Int
        BY <3>2, <4>1, FiledOnAssumption DEF LegacyRow
      <4>3. disk[r] = <<FiledOn[r]>>
        BY <1>2, <3>2
      <4> QED BY <1>2, <4>2, <4>3, MaxGensAssumption
    <3> QED BY <3>1, <3>2
  <2>2. disk = [r \in Receipts |-> disk[r]]
    BY <1>2
  <2>3. disk \in [Receipts -> Seq(Int)]
    BY <2>1, <2>2
  <2> QED BY <2>1, <2>3 DEF DiskProper
<1>4. FilesProper
  BY <1>2 DEF FilesProper, File
<1>5. GateProper /\ Committed
  <2>1. NoContract \in Contract
    BY DEF NoContract, Contract
  <2> QED BY <1>2, <2>1 DEF Idle, GateProper, Committed, BackProper, AnyKey
<1>6. HandleIsCommitted
  BY <1>2 DEF HandleIsCommitted
<1> QED BY <1>1, <1>2, <1>3, <1>4, <1>5, <1>6, MaxDayAssumption, MaxFaultsAssumption DEF GInv

LEMMA GateInvariant == Spec => []GInv
<1>1. GInv /\ [Next]_vars => GInv'
  BY GInvStep
<1> QED BY GInitInv, <1>1, PTL DEF Spec

-----------------------------------------------------------------------------
(* Theorems: the server alone.                                               *)

\* Whoever calls register (under any of the three contract versions), refresh, the
\* readback, create_evidence and finish, in any order and with any arguments the server's
\* own checks let through, the five books of the backlog agree.
THEOREM ServerKeepsItsBooks ==
  ServerSpec => [](/\ ClosedUnderContract /\ CorrectionHasOriginal /\ AdmittedWorkIsTracked
                   /\ FindIsTracked /\ FindClosedOnEvidence)
<1>1. SInv => /\ ClosedUnderContract /\ CorrectionHasOriginal /\ AdmittedWorkIsTracked
              /\ FindIsTracked /\ FindClosedOnEvidence
  BY DEF SInv
<1> QED BY ServerInvariant, <1>1, PTL

-----------------------------------------------------------------------------
(* Theorems: the server behind the prehooks and the agent.                   *)

\* The prehook, an older one and the agent are callers of the server: each of their
\* steps is one of the server's steps or leaves the three tables alone.
THEOREM GateUsesTheServer == Spec => ServerSpec
<1>1. Init => ServerInit
  BY DEF Init
<1>2. GInv /\ [Next]_vars => [ServerNext]_serverVars
  BY GateServer
<1> QED BY GateInvariant, <1>1, <1>2, PTL DEF Spec, ServerSpec

\* Types of the tables, the packets on disk, the commitment files and the invocation.
THEOREM GateTypes == Spec => []TypeOK
<1>1. GInv => TypeOK
  <2> SUFFICES ASSUME GInv PROVE TypeOK
    OBVIOUS
  <2>1. ServerTypeOK
    <3>1. \A k \in RunKeys : RunProper(runs[k]) /\ runs[k].con.srcs \subseteq Source
      BY ContractSources DEF GInv
    <3> QED BY <3>1 DEF ServerTypeOK, GInv, SInv, ServerTypes, RunProper
  <2>2. \A r \in Receipts : /\ DOMAIN disk[r] \subseteq 1..MaxGens
                            /\ \A g \in DOMAIN disk[r] : disk[r][g] <= day
    <3> TAKE r \in Receipts
    <3> DEFINE d == disk[r]
    <3>1. d \in Seq(Int) /\ Len(d) <= MaxGens /\ \A g \in 1..Len(d) : d[g] <= day
      BY DEF GInv, DiskProper
    <3> HIDE DEF d
    <3>2. DOMAIN d = 1..Len(d) /\ Len(d) \in Nat
      BY <3>1
    <3>3. 1..Len(d) \subseteq 1..MaxGens
      BY <3>1, <3>2, MaxGensAssumption
    <3> QED BY <3>1, <3>2, <3>3 DEF d
  <2>3. \A k \in RunKeys : files[k].state \in {"none", "torn", "whole"}
    BY DEF GInv, FilesProper, File, NoFile, TornFile
  <2>4. /\ DOMAIN gate = DOMAIN Idle /\ gate.pc \in {"idle", "refresh", "prepare", "register"}
        /\ gate.key \in AnyKey /\ gate.sel \subseteq Receipts
    BY DEF GInv, GateProper, Idle
  <2> QED BY <2>1, <2>2, <2>3, <2>4 DEF TypeOK, GInv
<1> QED BY GateInvariant, <1>1, PTL

\* A handle in the agent's hands names a registered run whose contract is the committed file.
THEOREM HandlesAreCommitted == Spec => []HandleIsCommitted
<1>1. GInv => HandleIsCommitted
  BY DEF GInv
<1> QED BY GateInvariant, <1>1, PTL

\* A terminal decision is never taken back, rewritten or attributed to another run.
THEOREM DecisionsAreFinal == Spec => DecisionIsFinal
<1>1. GInv /\ [Next]_vars
        => [\A id \in Ident : Decided(rows[id]) => rows'[id] = rows[id]]_serverVars
  BY GInvStep DEF RowStep, Carries
<1> QED BY GateInvariant, <1>1, PTL DEF Spec, DecisionIsFinal

\* A DART decision was taken by a run whose contract enlisted that row with that payload.
THEOREM DecisionsAreContracted == Spec => []ClosedUnderContract
<1>1. SInv => ClosedUnderContract
  BY DEF SInv
<1> QED BY GateUsesTheServer, ServerInvariant, <1>1, PTL

\* A correction stands behind a rejected or held original of an earlier, finished run.
THEOREM CorrectionsHaveOriginals == Spec => []CorrectionHasOriginal
<1>1. SInv => CorrectionHasOriginal
  BY DEF SInv
<1> QED BY GateUsesTheServer, ServerInvariant, <1>1, PTL

\* What a run of contract version 2 or 3 admitted has a row, and a captured source is not
\* recorded as failed.  Of version 1 nothing is claimed: its receipts need have no row.
THEOREM AdmittedWorkStaysTracked == Spec => []AdmittedWorkIsTracked
<1>1. SInv => AdmittedWorkIsTracked
  BY DEF SInv
<1> QED BY GateUsesTheServer, ServerInvariant, <1>1, PTL

\* Each decision of a done run's stored finish is its row's, under this run.
THEOREM DoneRunsAreAccounted == Spec => []DoneRunIsAccounted
<1>1. SInv => DoneRunIsAccounted
  BY DEF SInv, DoneRunIsClosed, DoneRunIsAccounted
<1> QED BY GateUsesTheServer, ServerInvariant, <1>1, PTL

\* A reported candidate is open, or closed by a run that carried it.
THEOREM FindsAreTracked == Spec => []FindIsTracked
<1>1. SInv => FindIsTracked
  BY DEF SInv
<1> QED BY GateUsesTheServer, ServerInvariant, <1>1, PTL

\* A stored discovery names scheduled evidence of its run or manual evidence of an earlier one.
THEOREM FindsCloseOnEvidence == Spec => []FindClosedOnEvidence
<1>1. SInv => FindClosedOnEvidence
  BY DEF SInv
<1> QED BY GateUsesTheServer, ServerInvariant, <1>1, PTL
=============================================================================
