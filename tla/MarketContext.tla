--------------------------- MODULE MarketContext ---------------------------
(***************************************************************************)
(* The 09:05 runner giraffe_market_context_0905.py and the part of the     *)
(* server it talks to: one aggregate scheduler run per day, and per card a *)
(* market-context child and its expected price, committed one after the    *)
(* other.  Every request has a timeout that leaves a number of whole slots *)
(* for the requests that must follow it; a request that timed out may      *)
(* still reach the server later.  An invocation may be repeated within the *)
(* 09:05 minute, and may run beside another.                               *)
(***************************************************************************)
EXTENDS Integers, FiniteSets, FiniteSetsExt

CONSTANTS
  Runners,     \* the invocations of the day
  NumCards,    \* the cards of the day are 1..NumCards
  Lists,       \* the card lists the 08:00 run may publish
  Slots,       \* bound: whole request slots left at 09:05
  MinuteSlots, \* the slots of the 09:05 minute, in which a launch is admitted
  MaxFaults    \* bound: lost replies, half-done posts and deaths

Cards == 1..NumCards

ASSUME SlotsAssumption == Slots \in Nat /\ MinuteSlots \in 0..Slots
ASSUME CardsAssumption == NumCards \in Nat /\ Lists \subseteq SUBSET Cards
ASSUME FaultsAssumption == MaxFaults \in Nat

VARIABLES
  agg,     \* the aggregate scheduler run of the day
  ctx,     \* per card, its market-context child
  price,   \* per card, the as_of of its expected price, 0 while there is none
  live,    \* per card, whether its 08:00 lineage is current
  left,    \* whole slots left until 09:25
  mail,    \* timed-out requests the server has yet to handle
  run,     \* per invocation, its local state
  faults   \* faults so far

serverVars == <<agg, ctx, price>>
vars == <<serverVars, live, left, mail, run, faults>>

Times == 1..Slots
NoObs == [c \in Cards |-> 0]
NoRun == [status |-> "none", count |-> 0, ids |-> {}, obs |-> NoObs]
NoChild == [asof |-> 0, got |-> FALSE, at |-> 0]
Terminal(a) == a.status \in {"done", "error"}
Complete(c) == ctx[c] # NoChild /\ price[c] # 0

Idle == [pc |-> "idle", ids |-> {}, todo |-> {}, asof |-> 0, obs |-> NoObs,
         bad |-> FALSE, count |-> 0, result |-> "none"]

-----------------------------------------------------------------------------
(* RequestBudget.timeout: a request that reserves n slots *)

Affords(n) == left > n + 1
SpendBorrowing(n) == left' \in n..left      \* mutant: the timeout reaches into the reserve
Spend(n) == left' \in (n + 1)..left

Answered(n) == Affords(n) /\ Spend(n) /\ UNCHANGED <<mail, faults>>
Lost(n, requests) ==
  /\ Affords(n) /\ Spend(n)
  /\ faults < MaxFaults /\ faults' = faults + 1
  /\ mail' = mail \cup requests
  /\ UNCHANGED serverVars
Refused(n) == ~Affords(n) /\ UNCHANGED <<left, mail, faults, serverVars>>
NoReply(n, requests) == Lost(n, requests) \/ Refused(n)

-----------------------------------------------------------------------------
(* The server *)

StartRequest == [kind |-> "start"]
FinishRequest(status, count, ids, obs) ==
  [kind |-> "finish", run |-> [status |-> status, count |-> count, ids |-> ids, obs |-> obs]]
PostRequest(c, t) == [kind |-> "post", card |-> c, asof |-> t]
PriceRequest(c, t) == [kind |-> "price", card |-> c, asof |-> t]

Started == IF agg = NoRun THEN [NoRun EXCEPT !.status = "started"] ELSE agg

FinishedOverwrites(new) == IF agg = NoRun THEN agg ELSE new           \* mutant
Finished(new) == IF agg.status = "started" THEN new ELSE agg

PostAllowed(c, t, got) ==
  /\ live[c]
  /\ got => left > 0
  /\ ctx[c].asof \in {0, t}
Child(c, t, got) ==
  IF ctx[c] # NoChild THEN ctx[c] ELSE [asof |-> t, got |-> got, at |-> IF got THEN left ELSE t]

\* The first commit of the post; the second is PostPrice.
PostChild(c, t, got) ==
  IF PostAllowed(c, t, got) THEN ctx' = [ctx EXCEPT ![c] = Child(c, t, got)] ELSE UNCHANGED ctx
PriceWith(c, t) == [price EXCEPT ![c] = IF @ = 0 THEN t ELSE @]
PostWhole(c, t, got) ==
  /\ PostChild(c, t, got)
  /\ price' = IF PostAllowed(c, t, got) THEN PriceWith(c, t) ELSE price
  /\ UNCHANGED agg

\* A request that reaches the server after its sender gave up on it.
DeliverStart ==
  /\ StartRequest \in mail /\ mail' = mail \ {StartRequest}
  /\ agg' = Started /\ UNCHANGED <<ctx, price>>
DeliverFinish == \E q \in mail :
  /\ q.kind = "finish" /\ mail' = mail \ {q}
  /\ agg' = Finished(q.run) /\ UNCHANGED <<ctx, price>>
DeliverPost == \E q \in mail, got \in BOOLEAN :
  /\ q.kind = "post"
  /\ PostChild(q.card, q.asof, got)
  /\ mail' = (mail \ {q}) \cup
       (IF PostAllowed(q.card, q.asof, got) THEN {PriceRequest(q.card, q.asof)} ELSE {})
  /\ UNCHANGED <<agg, price>>
DeliverPrice == \E q \in mail :
  /\ q.kind = "price" /\ mail' = mail \ {q}
  /\ price' = PriceWith(q.card, q.asof) /\ UNCHANGED <<agg, ctx>>

Deliver ==
  /\ DeliverStart \/ DeliverFinish \/ DeliverPost \/ DeliverPrice
  /\ UNCHANGED <<live, left, run, faults>>

-----------------------------------------------------------------------------
(* The runner *)

Go(r, s) == run' = [run EXCEPT ![r] = s] /\ UNCHANGED live
End(r, result) == Go(r, [run[r] EXCEPT !.pc = "over", !.result = result])
At(r, pc) == run[r].pc = pc
Card(r) == Min(run[r].todo)

\* The loop head: the next card, or the end of the loop.
Settle(s) ==
  [s EXCEPT !.pc = IF s.todo # {} THEN "child" ELSE IF s.bad THEN "fail" ELSE "done",
            !.count = Cardinality({c \in Cards : s.obs[c] # 0})]
CardFailedRetried(r) == Settle([run[r] EXCEPT !.bad = TRUE])      \* mutant
CardFailed(r) == Settle([run[r] EXCEPT !.todo = @ \ {Card(r)}, !.bad = TRUE])
CardVerified(r) ==
  Settle([run[r] EXCEPT !.todo = @ \ {Card(r)}, !.obs[Card(r)] = run[r].asof])
FailWith(r, count) == Go(r, [run[r] EXCEPT !.pc = "fail", !.count = count])

Launch(r) ==
  /\ At(r, "idle") /\ left > Slots - MinuteSlots
  /\ \/ /\ Answered(4)
        /\ \E ids \in Lists : Go(r, [Idle EXCEPT !.pc = "start", !.ids = ids, !.todo = ids])
     \/ (Answered(4) \/ NoReply(4, {})) /\ End(r, "early")
  /\ UNCHANGED serverVars

Start(r) ==
  /\ At(r, "start")
  /\ \/ /\ Answered(3) /\ agg' = Started /\ UNCHANGED <<ctx, price>>
        /\ Go(r, Settle(run[r]))
     \/ NoReply(3, {StartRequest}) /\ Go(r, [run[r] EXCEPT !.pc = "probe"])

ProbeEndTrusting(a) == IF a.status = "started" THEN "none" ELSE "failed"   \* mutant
ProbeEnd(a) == IF a = NoRun THEN "open" ELSE IF Terminal(a) THEN "failed" ELSE "none"

\* recover_ambiguous_start
Probe(r) ==
  /\ At(r, "probe")
  /\ \/ /\ Answered(2) /\ UNCHANGED serverVars
        /\ IF ProbeEnd(agg) = "none" THEN FailWith(r, 0) ELSE End(r, ProbeEnd(agg))
     \/ NoReply(2, {}) /\ End(r, "open")

\* A complete child is posted again under its own as_of, anything else under the clock.
ChildAsOfStored(c, now) == ctx[c].asof      \* mutant: also of a child without a price
ChildAsOf(c, now) == IF Complete(c) THEN ctx[c].asof ELSE now

GetChild(r) ==
  /\ At(r, "child")
  /\ \/ /\ Answered(2) /\ UNCHANGED serverVars
        /\ Go(r, [run[r] EXCEPT !.pc = "post", !.asof = ChildAsOf(Card(r), left')])
     \/ NoReply(2, {}) /\ Go(r, CardFailed(r))

\* The handler raised between the two commits: the runner sees an http_500.
PostHalf(r) ==
  /\ Affords(3) /\ Spend(3)
  /\ faults < MaxFaults /\ faults' = faults + 1
  /\ \E got \in BOOLEAN : PostChild(Card(r), run[r].asof, got)
  /\ UNCHANGED <<agg, price, mail>>

Post(r) ==
  /\ At(r, "post")
  /\ \/ /\ Answered(3) /\ \E got \in BOOLEAN : PostWhole(Card(r), run[r].asof, got)
        /\ Go(r, [run[r] EXCEPT !.pc = "read"])
     \/ Lost(3, {PostRequest(Card(r), run[r].asof)}) /\ Go(r, [run[r] EXCEPT !.pc = "read"])
     \/ (PostHalf(r) \/ Refused(3)) /\ Go(r, CardFailed(r))

VerifiedAnyPrice(c, t) == ctx[c].asof = t      \* mutant: the expected price is not looked at
\* validate_child on the readback. It refuses a price whose calculation failed too, an
\* outcome the model does not store: ReadChild may refuse any child.
Verified(c, t) == Complete(c) /\ ctx[c].asof = t /\ price[c] = t
ReadChild(r) ==
  /\ At(r, "read")
  /\ \/ /\ Answered(2) /\ UNCHANGED serverVars
        /\ \/ Verified(Card(r), run[r].asof) /\ Go(r, CardVerified(r))
           \/ Go(r, CardFailed(r))
     \/ NoReply(2, {}) /\ Go(r, CardFailed(r))

DoneOf(r) == FinishRequest("done", run[r].count, run[r].ids, run[r].obs)
ErrorOf(r) == FinishRequest("error", run[r].count, {}, NoObs)

FinishDone(r) ==
  /\ At(r, "done")
  /\ \/ /\ Answered(1) /\ agg' = Finished(DoneOf(r).run) /\ UNCHANGED <<ctx, price>>
        /\ Go(r, [run[r] EXCEPT !.pc = "check"])
     \/ NoReply(1, {DoneOf(r)}) /\ FailWith(r, 0)

CheckDone(r) ==
  /\ At(r, "check")
  /\ \/ /\ Answered(0) /\ UNCHANGED serverVars
        /\ IF agg = DoneOf(r).run THEN End(r, "ok") ELSE FailWith(r, run[r].count)
     \/ NoReply(0, {}) /\ FailWith(r, 0)

FinishError(r) ==
  /\ At(r, "fail")
  /\ \/ /\ Answered(1) /\ agg' = Finished(ErrorOf(r).run) /\ UNCHANGED <<ctx, price>>
        /\ Go(r, [run[r] EXCEPT !.pc = "confirm"])
     \/ NoReply(1, {ErrorOf(r)}) /\ End(r, "open")

ConfirmError(r) ==
  /\ At(r, "confirm")
  /\ \/ /\ Answered(0) /\ UNCHANGED serverVars
        /\ End(r, IF agg.status = "error" /\ agg.count = run[r].count THEN "failed" ELSE "open")
     \/ NoReply(0, {}) /\ End(r, "open")

Step(r) ==
  \/ Start(r) \/ Probe(r) \/ GetChild(r) \/ Post(r) \/ ReadChild(r)
  \/ FinishDone(r) \/ CheckDone(r) \/ FinishError(r) \/ ConfirmError(r)

-----------------------------------------------------------------------------
(* The environment *)

Die(r) ==
  /\ run[r].pc \notin {"idle", "over"}
  /\ faults < MaxFaults /\ faults' = faults + 1
  /\ End(r, "died") /\ UNCHANGED <<serverVars, left, mail>>

Invalidate(c) ==
  /\ live[c] /\ live' = [live EXCEPT ![c] = FALSE]
  /\ UNCHANGED <<serverVars, left, mail, run, faults>>

\* Between requests an invocation takes no time; without one the clock just runs.
Tick ==
  /\ \A r \in Runners : run[r].pc \in {"idle", "over"}
  /\ left > 0 /\ left' = left - 1
  /\ UNCHANGED <<serverVars, live, mail, run, faults>>

Init ==
  /\ agg = NoRun
  /\ ctx = [c \in Cards |-> NoChild]
  /\ price = NoObs
  /\ live = [c \in Cards |-> TRUE]
  /\ left = Slots
  /\ mail = {}
  /\ run = [r \in Runners |-> Idle]
  /\ faults = 0

Next ==
  \/ \E r \in Runners : Launch(r) \/ Step(r) \/ Die(r)
  \/ Deliver
  \/ \E c \in Cards : Invalidate(c)
  \/ Tick

Spec == Init /\ [][Next]_vars

\* urlopen has a timeout, so a call of a living invocation ends one way or another.
FairSpec == Spec /\ \A r \in Runners : WF_vars(Step(r))

-----------------------------------------------------------------------------
(* Properties *)

\* Types of the stored rows, the clock, the late requests and the invocations.
TypeOK ==
  LET Outcome == [status : {"started", "done", "error"}, count : 0..NumCards,
                  ids : SUBSET Cards, obs : [Cards -> 0..Slots]]
  IN
  /\ agg \in Outcome \cup {NoRun}
  /\ ctx \in [Cards -> [asof : 0..Slots, got : BOOLEAN, at : 0..Slots]]
  /\ price \in [Cards -> 0..Slots]
  /\ live \in [Cards -> BOOLEAN]
  /\ left \in 0..Slots /\ faults \in 0..MaxFaults
  /\ mail \subseteq {StartRequest} \cup [kind : {"finish"}, run : Outcome]
       \cup [kind : {"post", "price"}, card : Cards, asof : Times]
  /\ run \in [Runners ->
       [pc : {"idle", "start", "probe", "child", "post", "read", "done", "check",
              "fail", "confirm", "over"},
        ids : SUBSET Cards, todo : SUBSET Cards, asof : 0..Slots,
        obs : [Cards -> 0..Slots], bad : BOOLEAN, count : 0..NumCards,
        result : {"none", "ok", "failed", "open", "early", "died"}]]

\* A done aggregate run names exactly its cards, and each of them has a child and
\* an expected price at the observation time the run recorded, whatever was lost,
\* torn, repeated or delivered late (api.py:2406-2423, runner:309-370).
DoneRunIsBacked ==
  agg.status = "done" =>
    /\ agg.count = Cardinality(agg.ids)
    /\ \A c \in Cards : agg.obs[c] # 0 <=> c \in agg.ids
    /\ \A c \in agg.ids : ctx[c].asof = agg.obs[c] /\ price[c] = agg.obs[c]

\* Once an invocation has reported completion, the stored run stays done with the
\* observations it reported; no late or competing finish replaces them.
SuccessIsDurable ==
  \A r \in Runners : run[r].result = "ok" => agg = DoneOf(r).run

\* A plain failure report is a proof that the run is terminal: it is not started,
\* nor can a delayed start or finish make it so (raise_after_error_terminalization,
\* recover_ambiguous_start).
ReportedFailureIsTerminal ==
  \A r \in Runners : run[r].result = "failed" => Terminal(agg)

\* Checked with a single invocation, which has the time for itself: a started run is
\* eventually terminal, unless a reply was lost or the runner died.
StartedRunEnds == agg.status = "started" ~> Terminal(agg) \/ faults > 0

\* Every invocation reports: no sequence of answers, losses and refusals holds it.
InvocationReports ==
  \A r \in Runners : At(r, "start") ~> At(r, "over")
=============================================================================
