---------------------------- MODULE ResearchGate ----------------------------
(***************************************************************************)
(* The prehook giraffe_dart_manifest_gate.py in front of the server, and   *)
(* the agent it wakes.  One invocation reads the pending backlog, renews   *)
(* stale carried packets, lists the two control days, looks up the         *)
(* terminal history, reuses or captures a packet per receipt, builds the   *)
(* contract, commits it to a local file that is never rewritten, and       *)
(* registers the run.  Each server call may be answered, refused or lost;  *)
(* the process may die between any two steps, or within the file write.    *)
(* A failed invocation ends with an error and may be tried again.          *)
(***************************************************************************)
EXTENDS ResearchBacklog, Sequences

CONSTANTS
  MaxDay,    \* bound: days of the instance
  MaxAge,    \* MAX_CAPTURE_AGE (72 hours) in days
  MaxFaults, \* bound: lost replies, torn writes and deaths of invocations
  Choices,   \* bound: the dispositions the agent chooses from
  OldKeys    \* bound: the run keys an older prehook may register

ASSUME MaxDayAssumption == MaxDay \in Nat \ {0}
ASSUME MaxAgeAssumption == MaxAge \in Nat
ASSUME MaxFaultsAssumption == MaxFaults \in Nat
ASSUME ChoicesAssumption == Choices \subseteq Disposition
ASSUME OldKeysAssumption == OldKeys \subseteq RunKeys

VARIABLES
  day,       \* the KRX business day
  disk,      \* per receipt, the capture days of its published generations
  files,     \* the local commitment file of each run key
  gate,      \* the running invocation
  woken,     \* the run keys whose compact handle reached the agent
  faults     \* how many faults have happened

gateVars == <<day, disk, files, gate, woken, faults>>
vars == <<serverVars, gateVars>>

Idle == [pc |-> "idle", key |-> LegacyKey, sel |-> {}, back |-> {}, con |-> NoContract]
NoFile == [state |-> "none", con |-> NoContract]
TornFile == [state |-> "torn", con |-> NoContract]
Whole(c) == [state |-> "whole", con |-> c]

Fail == gate' = Idle       \* the process ends and keeps nothing in memory
Fault == Fail /\ faults < MaxFaults /\ faults' = faults + 1

-----------------------------------------------------------------------------
(* Packets on disk *)

Fresh(r, g) == day - disk[r][g] <= MaxAge
FreshGens(r) == {g \in DOMAIN disk[r] : Fresh(r, g)}
NextGen(r) == Len(disk[r]) + 1

\* generation_checkpoint, else write_packet(fetch_with_retry()); 0 is a SourceError.
Captures(r) ==
  IF FreshGens(r) # {} THEN FreshGens(r)
  ELSE {0} \cup (IF NextGen(r) <= MaxGens THEN {NextGen(r)} ELSE {})

PublishAhead(new) ==        \* mutant: the capture is stamped in another time zone
  disk' = [r \in Receipts |-> IF r \in new THEN Append(disk[r], day + 1) ELSE disk[r]]

Publish(new) == disk' = [r \in Receipts |-> IF r \in new THEN Append(disk[r], day) ELSE disk[r]]

Packet(r, g) == IF g = 0 THEN [rcp |-> r, form |-> "failed", gen |-> 0]
                ELSE [rcp |-> r, form |-> "full", gen |-> g]

-----------------------------------------------------------------------------
(* One invocation.  Reading the backlog, renewing stale packets, preparing  *)
(* the contract and registering it are its four steps: each makes at most  *)
(* one call whose answer the agent's calls can change, and works on its    *)
(* own memory and files otherwise.                                         *)

Snapshot(R) == {[id |-> id, src |-> R[id].src, first |-> R[id].first] : id \in Pending(R)}

\* refresh_stale_dart_backlog looks at core-shaped payloads only.
Stale(back) == {i \in back : i.src.form = "core" /\ ~Fresh(i.src.rcp, i.src.gen)}

ReadStep(k, sel) ==
  /\ gate.pc = "idle" /\ k[1] = day
  /\ sel # {} => k[2] > 0     \* corrections require an explicit rerun version
  /\ ReadBacklog
  /\ \/ LET back == Snapshot(rows') IN
          /\ gate' = [Idle EXCEPT !.pc = IF Stale(back) = {} THEN "prepare" ELSE "refresh",
                                  !.key = k, !.sel = sel, !.back = back]
          /\ UNCHANGED faults
     \/ Fault
  /\ UNCHANGED <<day, disk, files, woken>>

\* Every stale packet is captured anew before one call renews them all.
RefreshStep ==
  LET stale == Stale(gate.back)
      ids == {i.id : i \in stale}
      held == [id \in ids |-> CHOOSE i \in stale : i.id = id]
      U == [id \in ids |-> NextGen(held[id].src.rcp)]
  IN
  /\ gate.pc = "refresh"
  /\ UNCHANGED <<day, files, woken>>
  /\ \/ /\ \E new \in SUBSET {i.src.rcp : i \in stale} : Publish({r \in new : NextGen(r) <= MaxGens})
        /\ Fail /\ UNCHANGED <<serverVars, faults>>
     \/ /\ \A id \in ids : U[id] <= MaxGens
        /\ Publish({i.src.rcp : i \in stale})
        /\ IF Refreshable(U, held)
           THEN /\ RefreshPackets(U, held)
                /\ \/ /\ gate' = [gate EXCEPT !.pc = "prepare",
                            !.back = {IF i \in stale THEN [i EXCEPT !.src.gen = U[i.id]] ELSE i
                                        : i \in gate.back}]
                      /\ UNCHANGED faults
                   \/ Fault
           ELSE Fail /\ UNCHANGED <<serverVars, faults>>

\* collect_manifest for both control days (today's listing holds what was filed
\* so far), and the bounded terminal lookup for the listed and corrected receipts.
Listed(today) == {r \in Receipts : FiledOn[r] = day - 1} \cup today
Of(kinds, back) == {i \in back : i.id[1] \in kinds}
Asked(listed) == listed \cup {i.src.rcp : i \in Of({"corr"}, gate.back)}
History(listed) ==
  {[rcp |-> r, row |-> rows[Dart(r)]] : r \in {x \in Asked(listed) : rows[Dart(x)].status = "terminal"}}
Recorrected(r) == \E g \in Gens : rows[<<"corr", r, g>>].status = "terminal"

\* The packet a listed receipt must reuse: that of its pending row, else that
\* of its terminal row while it is fresh.
Reused(r, hist) ==
  LET carried == {i.src : i \in {x \in gate.back : x.src.rcp = r /\ x.src.form # "failed"}}
      decided == {q.row.src : q \in {x \in hist : /\ x.rcp = r /\ r \notin gate.sel
                                                  /\ x.row.src.form # "failed"
                                                  /\ Fresh(r, x.row.src.gen)}}
  IN IF carried # {} THEN carried ELSE decided

\* A failed carried receipt that is no longer listed is tried once more.
Retried(listed) == {i.src.rcp : i \in {x \in gate.back : x.src.form = "failed"}} \ listed

\* Receipts to capture and what each capture gives.
Wanted(listed, hist) == {r \in listed : Reused(r, hist) = {}} \cup Retried(listed)
Gathered(listed, hist, got) ==
  {Packet(r, got[r]) : r \in DOMAIN got}
  \cup {Packet(s.rcp, s.gen) : s \in UNION {Reused(r, hist) : r \in listed}}

\* control_contract: the listed and the carried receipts, minus the exclusions.
Core(s) == IF s.form \in {"failed", "none"} THEN s ELSE [s EXCEPT !.form = "core"]
AllSources(srcs) ==
  srcs \cup {s \in {i.src : i \in Of({"dart", "corr"}, gate.back)} : \A t \in srcs : t.rcp # s.rcp}
Corrected == gate.sel \cup {i.src.rcp : i \in Of({"corr"}, gate.back)}
Excluded(all, hist) ==
  {q \in hist : /\ q.rcp \in {s.rcp : s \in all} /\ q.rcp \notin Corrected
                /\ q.row.disp \notin Retryable}
Built(all, hist) ==
  [ver |-> 3, srcs |-> {s \in all : s.rcp \notin ReceiptsOf(Excluded(all, hist))},
   carry |-> {[id |-> i.id, src |-> Core(i.src)] : i \in gate.back},
   excl |-> Excluded(all, hist), corr |-> {q \in hist : q.rcp \in Corrected}]

\* terminal_generation_continuity_matches_current: a filed document never
\* changes, so two captures of one receipt have the same main bytes.
Continues(p, s) == p.form = "full" /\ s.form = "full" /\ p.gen # s.gen
SamePacket(p, s) == (p.form = "core" /\ SameCore(p, s)) \/ (p.form = "full" /\ p = s)

\* The packet of every carried row is current.
CarriedFresh ==
  \A i \in Of({"dart", "corr"}, gate.back) : i.src.form = "failed" \/ Fresh(i.src.rcp, i.src.gen)

\* Every check of control_contract that can fail.
WellBuilt(all, hist) ==
  /\ CarriedFresh
  /\ \A q \in hist : q.row.disp \in Disposition /\ q.row.run # PoisonKey
  /\ \A r \in Corrected : /\ \E q \in hist : q.rcp = r /\ q.row.disp \in Unstored
                          /\ ~Recorrected(r)
  /\ \A i \in Of({"corr"}, gate.back) : \E s \in all : i.id = Corr(s)
  /\ \A q \in Excluded(all, hist) : \E s \in all :
       /\ s.rcp = q.rcp
       /\ \/ SamePacket(q.row.src, s) \/ Continues(q.row.src, s)
          \/ q.row.src.form = "full" /\ s.form = "failed"
  /\ \A q \in hist : q.rcp \in Corrected => \E s \in all :
       s.rcp = q.rcp /\ (SamePacket(q.row.src, s) \/ Continues(q.row.src, s))

CommitOverwrites(c) ==      \* mutant: open('wb')
  /\ files' = [files EXCEPT ![gate.key] = Whole(c)]
  /\ gate' = [Idle EXCEPT !.pc = "register", !.key = gate.key, !.con = c]
  /\ UNCHANGED faults

\* open('xb'): an existing file is compared, never replaced.
Commit(c) ==
  \/ /\ files[gate.key] = NoFile
     /\ \/ /\ files' = [files EXCEPT ![gate.key] = Whole(c)]
           /\ gate' = [Idle EXCEPT !.pc = "register", !.key = gate.key, !.con = c]
           /\ UNCHANGED faults
        \/ files' = [files EXCEPT ![gate.key] = TornFile] /\ Fault
  \/ /\ files[gate.key] # NoFile /\ UNCHANGED <<files, faults>>
     /\ IF files[gate.key] = Whole(c)
        THEN gate' = [Idle EXCEPT !.pc = "register", !.key = gate.key, !.con = c]
        ELSE Fail

PrepareStep(today) ==
  LET listed == Listed(today)  hist == History(listed)  wanted == Wanted(listed, hist) IN
  /\ gate.pc = "prepare"
  /\ UNCHANGED <<serverVars, day, woken>>
  /\ IF \E r \in listed : \E s \in Reused(r, hist) : ~Fresh(r, s.gen)
     THEN Fail /\ UNCHANGED <<disk, files, faults>>
     ELSE \E got \in {f \in [wanted -> Gens] : \A r \in wanted : f[r] \in Captures(r)} :
            LET all == AllSources(Gathered(listed, hist, got)) IN
            /\ Publish({r \in wanted : got[r] = NextGen(r)})
            /\ IF WellBuilt(all, hist) THEN Commit(Built(all, hist))
               ELSE Fail /\ UNCHANGED <<files, faults>>

Registered(k, c) == runs[k].status # "none" /\ runs[k].con = c

RegisterStep ==
  LET k == gate.key  c == gate.con IN
  /\ gate.pc = "register"
  /\ \/ /\ Register(k, c) \/ (Registered(k, c) /\ UNCHANGED serverVars)
        /\ \/ woken' = woken \cup {k} /\ Fail /\ UNCHANGED faults
           \/ woken' = woken /\ Fault
     \/ ~Registrable(k, c) /\ ~Registered(k, c) /\ Fail /\ UNCHANGED <<serverVars, woken, faults>>
  /\ UNCHANGED <<day, disk, files>>

Crash == /\ gate.pc # "idle" /\ Fault
         /\ UNCHANGED <<serverVars, day, disk, files, woken>>

\* An invocation is over long before the day is.
NextDay == /\ gate.pc = "idle" /\ day < MaxDay
           /\ day' = day + 1
           /\ UNCHANGED <<serverVars, disk, files, gate, woken, faults>>

-----------------------------------------------------------------------------
(* A prehook of an older version, in place of this one: it registers a     *)
(* contract of version 1 or 2 over packets that are on disk, and carries   *)
(* nothing.  It has something to register and writes no commitment file.   *)

OldSources == {s \in Source : s.form = "core" /\ s.gen \in DOMAIN disk[s.rcp]}
OldContracts == [ver : {1, 2}, srcs : (SUBSET OldSources) \ {{}},
                 carry : {{}}, excl : {{}}, corr : {{}}]

OldRegister(k, c) ==
  /\ k[1] = day
  /\ Register(k, c)
  /\ UNCHANGED gateVars

-----------------------------------------------------------------------------
(* The agent works from the handle of a registered run, or on a run that an *)
(* older prehook registered.                                                *)

InHand == woken \cup {k \in OldKeys : runs[k].con.ver < 3}

\* It stores evidence for a contract report or a discovery, as of the run's cutoff
\* when that admits the announcement, else as a manual catch-up.
AgentStores(k, s, late) ==
  LET c == runs[k].con  scheduled == InWindow(k, FiledOn[s.rcp]) /\ ~late IN
  /\ k \in InHand /\ s \in c.srcs /\ Class[s.rcp] # "other"
  /\ late => s.rcp \in ReceiptsOf(c.corr)
  /\ CreateEvidence([key |-> s.rcp, src |-> s, run |-> k, late |-> late,
                     mode |-> IF scheduled THEN "scheduled" ELSE "manual"])
  /\ UNCHANGED gateVars

AgentStoresFind(k, f, mode) ==
  /\ k \in InHand
  /\ CreateEvidence([key |-> f, src |-> NoSource, run |-> k, mode |-> mode, late |-> FALSE])
  /\ UNCHANGED gateVars

Attempts(c) ==
  LET items == [disp : Choices \ Stored, ev : {NoEvidence}]
               \cup [disp : Choices \cap Stored, ev : evid] IN
  [kind : {"done"}, items : [Admitted(c) -> items], finds : [CarriedFinds(c) -> items], cands : {{}}]
  \cup [kind : {"error"}, items : {<<>>}, finds : {<<>>}, cands : SUBSET Finds]

AgentFinishes(k, b) ==
  /\ k \in InHand
  /\ FinishDone(k, b) \/ FinishError(k, b)
  /\ UNCHANGED gateVars

Init ==
  /\ ServerInit
  /\ day = 1
  /\ disk = [r \in Receipts |-> IF rows[Dart(r)] = NoRow THEN <<>> ELSE <<FiledOn[r]>>]
  /\ files = [k \in RunKeys |-> NoFile]
  /\ gate = Idle
  /\ woken = {}
  /\ faults = 0

GateStep ==
  \/ \E k \in RunKeys, sel \in SUBSET Receipts : ReadStep(k, sel)
  \/ RefreshStep
  \/ \E today \in SUBSET {r \in Receipts : FiledOn[r] = day} : PrepareStep(today)
  \/ RegisterStep
  \/ Crash

AgentStep ==
  \/ \E k \in InHand : \E s \in runs[k].con.srcs, late \in BOOLEAN : AgentStores(k, s, late)
  \/ \E k \in InHand, f \in Finds, mode \in {"scheduled", "manual"} : AgentStoresFind(k, f, mode)
  \/ \E k \in InHand : \E b \in Attempts(runs[k].con) : AgentFinishes(k, b)

OldStep == \E k \in OldKeys : \E c \in OldContracts : OldRegister(k, c)

Next == GateStep \/ OldStep \/ AgentStep \/ NextDay
Spec == Init /\ [][Next]_vars
-----------------------------------------------------------------------------
TypeOK ==
  /\ ServerTypeOK
  /\ day \in 1..MaxDay
  /\ \A r \in Receipts : /\ DOMAIN disk[r] \subseteq 1..MaxGens
                          /\ \A g \in DOMAIN disk[r] : disk[r][g] <= day
  /\ \A k \in RunKeys : files[k].state \in {"none", "torn", "whole"}
  /\ DOMAIN gate = DOMAIN Idle /\ gate.pc \in {"idle", "refresh", "prepare", "register"}
  /\ gate.key \in AnyKey /\ gate.sel \subseteq Receipts
  /\ woken \subseteq RunKeys /\ faults \in 0..MaxFaults

\* A handle the agent holds names a registered run whose contract is, byte for
\* byte, the committed local file: neither a lost reply, a crash nor a repeated
\* invocation under the same key may tear the two apart.
HandleIsCommitted ==
  \A k \in woken : runs[k].status # "none" /\ files[k] = Whole(runs[k].con)
=============================================================================
