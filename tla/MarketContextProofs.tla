------------------------ MODULE MarketContextProofs ------------------------
(***************************************************************************)
(* Proofs about MarketContext, for any number of cards, invocations, slots  *)
(* and faults.                                                             *)
(*                                                                         *)
(* A done run is backed because the invocation that finished it had read    *)
(* back every card it counts.  The invariant follows that knowledge from    *)
(* the loop (LoopInv) over the finishes still under way to the aggregate    *)
(* run (FinishesBacked); it survives because a card's rows are written once *)
(* (Kept).  Steps are summarised first, by who sends and what he learns     *)
(* (RunnerStep, ServerStep), and the invariant is proved of the summaries.  *)
(***************************************************************************)
EXTENDS MarketContext, FiniteSetTheorems, WellFoundedInduction, TLAPS

\* The types, with the records named.
Outcomes == [status : {"started", "done", "error"}, count : 0..NumCards,
             ids : SUBSET Cards, obs : [Cards -> 0..Slots]]
Runs == Outcomes \cup {NoRun}
Requests == {StartRequest} \cup [kind : {"finish"}, run : Outcomes]
              \cup [kind : {"post", "price"}, card : Cards, asof : Times]
Children == [asof : 0..Slots, got : BOOLEAN, at : 0..Slots]
Pcs == {"idle", "start", "probe", "child", "post", "read", "done", "check",
        "fail", "confirm", "over"}
Results == {"none", "ok", "failed", "open", "early", "died"}
Invocations == [pc : Pcs, ids : SUBSET Cards, todo : SUBSET Cards, asof : 0..Slots,
                obs : [Cards -> 0..Slots], bad : BOOLEAN, count : 0..NumCards,
                result : Results]

Types == /\ agg \in Runs
         /\ ctx \in [Cards -> Children]
         /\ price \in [Cards -> 0..Slots]
         /\ live \in [Cards -> BOOLEAN]
         /\ left \in 0..Slots /\ faults \in 0..MaxFaults
         /\ mail \subseteq Requests
         /\ run \in [Runners -> Invocations]

\* What an invocation or a run has recorded is stored, and a done run counts it.
Observed(obs) == {c \in Cards : obs[c] # 0}
Stored(obs) ==
  \A c \in Cards : obs[c] # 0 => ctx[c].asof = obs[c] /\ price[c] = obs[c]
Backed(a) ==
  a.status = "done" =>
    a.count = Cardinality(a.ids) /\ Observed(a.obs) = a.ids /\ Stored(a.obs)
FinishesBacked ==
  /\ Backed(agg)
  /\ \A q \in mail : q.kind = "finish" => Backed(q.run)

\* The children are posted once and keep the time they were posted under.
ChildrenDated == \A c \in Cards : ctx[c] # NoChild => ctx[c].asof # 0

\* Where the loop is: the open cards and the verified ones make up the day's cards.
Progress(s) ==
  /\ s.pc \in {"start", "probe"} => s.todo = s.ids /\ s.obs = NoObs /\ ~s.bad
  /\ s.pc \in {"child", "post", "read", "done", "check"} /\ ~s.bad
       => s.ids = s.todo \cup Observed(s.obs)
  /\ s.pc \in {"child", "post", "read"} => s.todo # {}
  /\ s.pc \in {"post", "read"} => s.asof # 0
  /\ s.pc \in {"done", "check"} =>
       ~s.bad /\ s.todo = {} /\ s.count = Cardinality(Observed(s.obs))
  /\ s.result # "none" => s.pc = "over"
LoopInv == \A r \in Runners : Progress(run[r]) /\ Stored(run[r].obs)

MInv == TypeOK /\ ChildrenDated /\ LoopInv /\ FinishesBacked
          /\ SuccessIsDurable /\ ReportedFailureIsTerminal

-----------------------------------------------------------------------------
(* Numbers of cards, and the smallest card.                                  *)

LEMMA TypesHold == TypeOK <=> Types
  BY DEF TypeOK, Types, Outcomes, Runs, Requests, Children, Pcs, Results, Invocations

LEMMA Counts ==
  ASSUME NEW S \in SUBSET Cards PROVE Cardinality(S) \in 0..NumCards
<1>1. NumCards \in Nat /\ IsFiniteSet(Cards) /\ Cardinality(Cards) = NumCards
  BY CardsAssumption, FS_Interval DEF Cards
<1>2. IsFiniteSet(S) /\ Cardinality(S) <= NumCards
  BY <1>1, FS_Subset
<1> QED BY <1>1, <1>2, FS_CardinalityType

LEMMA MinIsMember ==
  ASSUME NEW S \in SUBSET Nat, S # {} PROVE Min(S) \in S
<1> DEFINE R == {q \in Nat \X Nat : q[1] < q[2]}
<1>1. IsWellFoundedOn(R, Nat)
  BY NatLessThanWellFounded DEF OpToRel
<1>2. PICK x \in S : \A y \in S : ~(<<y, x>> \in R)
  <2> HIDE DEF R
  <2> QED BY <1>1, WFMin
<1>3. ASSUME NEW y \in S PROVE x <= y
  <2>1. <<y, x>> \in Nat \X Nat /\ ~(<<y, x>> \in R)
    BY <1>2
  <2>2. ~(<<y, x>>[1] < <<y, x>>[2])
    BY <2>1, Zenon
  <2> QED BY <2>2
<1> QED BY <1>3 DEF Min

LEMMA CardToDo ==
  ASSUME NEW r \in Runners, run[r] \in Invocations, run[r].todo # {}
  PROVE  Card(r) \in run[r].todo /\ Card(r) \in Cards
<1>1. run[r].todo \in SUBSET Cards /\ Cards \subseteq Nat
  BY CardsAssumption DEF Invocations, Cards
<1> QED BY <1>1, MinIsMember DEF Card

-----------------------------------------------------------------------------
(* What a step makes of an invocation.                                       *)

LEMMA Settled ==
  ASSUME NEW s \in Invocations
  PROVE  /\ Settle(s) \in Invocations
         /\ Settle(s).pc = IF s.todo # {} THEN "child" ELSE IF s.bad THEN "fail" ELSE "done"
         /\ Settle(s).count = Cardinality(Observed(s.obs))
         /\ Settle(s).todo = s.todo /\ Settle(s).obs = s.obs /\ Settle(s).bad = s.bad
         /\ Settle(s).ids = s.ids /\ Settle(s).asof = s.asof /\ Settle(s).result = s.result
<1> DEFINE pc == IF s.todo # {} THEN "child" ELSE IF s.bad THEN "fail" ELSE "done"
           n == Cardinality(Observed(s.obs))
           m == [s EXCEPT !.pc = pc]
<1>1. n \in 0..NumCards
  BY Counts DEF Observed
<1>2. m \in Invocations /\ m.pc = pc /\ m.todo = s.todo /\ m.obs = s.obs /\ m.bad = s.bad
      /\ m.ids = s.ids /\ m.asof = s.asof /\ m.result = s.result
  BY DEF Invocations, Pcs
<1>3. Settle(s) = [m EXCEPT !.count = n]
  BY DEF Settle, Observed
<1> HIDE DEF m, n, pc
<1>4. Settle(s) \in Invocations /\ Settle(s).pc = pc /\ Settle(s).count = n
      /\ Settle(s).todo = s.todo /\ Settle(s).obs = s.obs /\ Settle(s).bad = s.bad
      /\ Settle(s).ids = s.ids /\ Settle(s).asof = s.asof /\ Settle(s).result = s.result
  BY <1>1, <1>2, <1>3 DEF Invocations
<1> QED BY <1>4 DEF pc, n

LEMMA Failed ==
  ASSUME NEW r \in Runners, run[r] \in Invocations
  PROVE  LET s == CardFailed(r) IN
         /\ s \in Invocations /\ s.bad /\ s.obs = run[r].obs /\ s.ids = run[r].ids
         /\ s.pc = IF s.todo # {} THEN "child" ELSE "fail"
         /\ s.result = run[r].result
<1> DEFINE a == [run[r] EXCEPT !.todo = @ \ {Card(r)}]
           b == [a EXCEPT !.bad = TRUE]
<1>1. a \in Invocations /\ a.obs = run[r].obs /\ a.ids = run[r].ids /\ a.result = run[r].result
  BY DEF Invocations
<1>2. CardFailed(r) = Settle(b)
  BY DEF CardFailed
<1> HIDE DEF a
<1>3. b \in Invocations /\ b.bad /\ b.obs = run[r].obs /\ b.ids = run[r].ids
      /\ b.result = run[r].result
  BY <1>1 DEF Invocations
<1> HIDE DEF b
<1> QED BY <1>2, <1>3, Settled

LEMMA VerifiedCard ==
  ASSUME NEW r \in Runners, run[r] \in Invocations, run[r].todo # {}
  PROVE  LET s == CardVerified(r) IN
         /\ s \in Invocations /\ s.bad = run[r].bad /\ s.ids = run[r].ids
         /\ s.obs = [run[r].obs EXCEPT ![Card(r)] = run[r].asof]
         /\ s.todo = run[r].todo \ {Card(r)}
         /\ s.pc = IF s.todo # {} THEN "child" ELSE IF s.bad THEN "fail" ELSE "done"
         /\ s.count = Cardinality(Observed(s.obs))
         /\ s.result = run[r].result
<1> DEFINE a == [run[r] EXCEPT !.todo = @ \ {Card(r)}]
           b == [a EXCEPT !.obs[Card(r)] = run[r].asof]
<1>1. a \in Invocations /\ a.obs = run[r].obs /\ a.ids = run[r].ids /\ a.result = run[r].result
      /\ a.bad = run[r].bad /\ a.todo = run[r].todo \ {Card(r)}
  BY DEF Invocations
<1>2. CardVerified(r) = Settle(b)
  BY DEF CardVerified
<1>3. Card(r) \in Cards /\ run[r].asof \in 0..Slots
  BY CardToDo DEF Invocations
<1> HIDE DEF a
<1>4. b \in Invocations /\ b.bad = a.bad /\ b.obs = [a.obs EXCEPT ![Card(r)] = run[r].asof]
      /\ b.ids = a.ids /\ b.result = a.result /\ b.todo = a.todo
  BY <1>1, <1>3 DEF Invocations
<1> HIDE DEF b
<1> QED BY <1>1, <1>2, <1>4, Settled

LEMMA Ended ==
  ASSUME NEW r \in Runners, run[r] \in Invocations, NEW v \in Results
  PROVE  LET s == [run[r] EXCEPT !.pc = "over", !.result = v] IN
         /\ s \in Invocations /\ s.pc = "over" /\ s.result = v
         /\ s.obs = run[r].obs /\ s.ids = run[r].ids /\ s.count = run[r].count
<1> DEFINE a == [run[r] EXCEPT !.pc = "over"]
<1>1. a \in Invocations /\ a.pc = "over" /\ a.obs = run[r].obs /\ a.ids = run[r].ids
      /\ a.count = run[r].count
  BY DEF Invocations, Pcs
<1> HIDE DEF a
<1>2. LET s == [a EXCEPT !.result = v] IN
      /\ s \in Invocations /\ s.pc = "over" /\ s.result = v
      /\ s.obs = a.obs /\ s.ids = a.ids /\ s.count = a.count
  BY <1>1 DEF Invocations
<1> QED BY <1>1, <1>2 DEF a

LEMMA GivenUp ==
  ASSUME NEW r \in Runners, run[r] \in Invocations, NEW n \in 0..NumCards
  PROVE  LET s == [run[r] EXCEPT !.pc = "fail", !.count = n] IN
         /\ s \in Invocations /\ s.pc = "fail" /\ s.count = n
         /\ s.obs = run[r].obs /\ s.result = run[r].result
<1> DEFINE a == [run[r] EXCEPT !.pc = "fail"]
<1>1. a \in Invocations /\ a.pc = "fail" /\ a.obs = run[r].obs /\ a.result = run[r].result
  BY DEF Invocations, Pcs
<1> HIDE DEF a
<1>2. LET s == [a EXCEPT !.count = n] IN
      /\ s \in Invocations /\ s.pc = "fail" /\ s.count = n
      /\ s.obs = a.obs /\ s.result = a.result
  BY <1>1 DEF Invocations
<1> QED BY <1>1, <1>2 DEF a

-----------------------------------------------------------------------------
(* What a step of an invocation does to the rest of the system.              *)

\* Rows of a card are written once.
Kept ==
  /\ ctx' \in [Cards -> Children] /\ price' \in [Cards -> 0..Slots]
  /\ \A c \in Cards : /\ ctx[c] # NoChild => ctx'[c] = ctx[c]
                      /\ price[c] # 0 => price'[c] = price[c]
                      /\ ctx'[c] # NoChild => ctx'[c].asof # 0

\* The server's share, the requests' share and the invocation's share of a step.
FinishOf(r, q) == (At(r, "done") /\ q = DoneOf(r)) \/ q = ErrorOf(r)
ServerMoves(r) ==
  /\ Kept
  /\ \/ agg' = agg
     \/ agg' = Started
     \/ \E q \in Requests : FinishOf(r, q) /\ agg' = Finished(q.run)
WireMoves(r) ==
  /\ left' \in 0..Slots /\ faults' \in 0..MaxFaults
  /\ mail' \subseteq Requests
  /\ \A q \in mail' : q.kind = "finish" => q \in mail \/ FinishOf(r, q)
Learns(r, s) ==
  \/ s.obs \in {run[r].obs, NoObs}
  \/ /\ Card(r) \in Cards /\ Verified(Card(r), run[r].asof)
     /\ s.obs = [run[r].obs EXCEPT ![Card(r)] = run[r].asof]
Reports(r, s) ==
  /\ s.result = "ok" => UNCHANGED agg /\ agg = FinishRequest("done", s.count, s.ids, s.obs).run
  /\ s.result = "failed" => UNCHANGED agg /\ Terminal(agg)
Moves(r) == \E s \in Invocations :
  /\ run' = [run EXCEPT ![r] = s] /\ live' = live /\ ~At(r, "over")
  /\ Progress(s) /\ Learns(r, s) /\ Reports(r, s)
RunnerStep(r) == ServerMoves(r) /\ WireMoves(r) /\ Moves(r)

LEMMA Idles == Idle \in Invocations /\ Progress(Idle) /\ Idle.obs = NoObs
  BY SlotsAssumption, CardsAssumption
     DEF Idle, Invocations, Pcs, Results, NoObs, Progress, Cards

LEMMA Answers ==
  ASSUME Types, NEW n \in Nat, Answered(n)
  PROVE  left' \in Times /\ left' \in 0..Slots /\ mail' = mail /\ faults' \in 0..MaxFaults
  BY SlotsAssumption DEF Types, Answered, Spend, Affords, Times

LEMMA Silences ==
  ASSUME Types, NEW n \in Nat, NEW R \in SUBSET Requests, NoReply(n, R)
  PROVE  /\ left' \in 0..Slots /\ faults' \in 0..MaxFaults
         /\ mail' \subseteq Requests /\ mail' \subseteq mail \cup R
         /\ UNCHANGED serverVars
  BY SlotsAssumption, FaultsAssumption
     DEF Types, NoReply, Lost, Refused, Spend, Affords

LEMMA RequestTypes ==
  ASSUME NEW r \in Runners, run[r] \in Invocations
  PROVE  /\ DoneOf(r) \in Requests /\ ErrorOf(r) \in Requests
         /\ DoneOf(r).kind = "finish" /\ ErrorOf(r).kind = "finish"
         /\ StartRequest \in Requests /\ StartRequest.kind # "finish"
<1>1. NoObs \in [Cards -> 0..Slots]
  BY SlotsAssumption DEF NoObs
<1> QED
  BY <1>1 DEF DoneOf, ErrorOf, FinishRequest, StartRequest, Requests, Outcomes, Invocations

LEMMA AggTypes ==
  ASSUME Types
  PROVE  /\ Started \in Runs
         /\ \A q \in Requests : q.kind = "finish" => q.run \in Outcomes /\ Finished(q.run) \in Runs
<1>1. Started \in Runs
  <2>1. NoObs \in [Cards -> 0..Slots] /\ 0 \in 0..NumCards
    BY SlotsAssumption, CardsAssumption DEF NoObs
  <2>2. [NoRun EXCEPT !.status = "started"] \in Outcomes
    BY <2>1 DEF NoRun, Outcomes
  <2> QED BY <2>2 DEF Types, Started, Runs
<1>2. ASSUME NEW q \in Requests, q.kind = "finish" PROVE q.run \in Outcomes
  BY <1>2 DEF Requests, StartRequest
<1> QED BY <1>1, <1>2 DEF Finished, Runs, Types

LEMMA StillKept ==
  ASSUME Types, ChildrenDated, UNCHANGED <<ctx, price>> PROVE Kept
  BY DEF Types, ChildrenDated, Kept

LEMMA ChildPosted ==
  ASSUME Types, ChildrenDated, NEW c \in Cards, NEW t \in Times, NEW got \in BOOLEAN,
         PostChild(c, t, got)
  PROVE  /\ ctx' \in [Cards -> Children]
         /\ \A d \in Cards : /\ ctx[d] # NoChild => ctx'[d] = ctx[d]
                             /\ ctx'[d] # NoChild => ctx'[d].asof # 0
<1>1. left \in 0..Slots /\ t \in 0..Slots /\ t # 0
  BY SlotsAssumption DEF Types, Times
<1>2. /\ Child(c, t, got) \in Children /\ Child(c, t, got).asof # 0
      /\ ctx[c] # NoChild => Child(c, t, got) = ctx[c]
  BY <1>1 DEF Types, Child, Children, ChildrenDated
<1>3. ctx' \in {ctx, [ctx EXCEPT ![c] = Child(c, t, got)]}
  BY DEF PostChild
<1> QED BY <1>2, <1>3 DEF Types, ChildrenDated

LEMMA PricePosted ==
  ASSUME Types, NEW c \in Cards, NEW t \in Times
  PROVE  /\ PriceWith(c, t) \in [Cards -> 0..Slots]
         /\ \A d \in Cards : price[d] # 0 => PriceWith(c, t)[d] = price[d]
  BY SlotsAssumption DEF Types, PriceWith, Times

-----------------------------------------------------------------------------
(* The steps of an invocation.                                               *)

LEMMA LaunchMoves ==
  ASSUME Types, ChildrenDated, LoopInv, NEW r \in Runners, Launch(r)
  PROVE  RunnerStep(r)
<1>1. run[r] \in Invocations /\ run[r].pc = "idle" /\ UNCHANGED serverVars
  BY DEF Launch, Types, At
<1>2. ServerMoves(r)
  BY <1>1, StillKept DEF ServerMoves, serverVars
<1>3. ASSUME Answered(4), NEW ids \in Lists, Go(r, [Idle EXCEPT !.pc = "start", !.ids = ids, !.todo = ids])
      PROVE  RunnerStep(r)
  <2> DEFINE a == [Idle EXCEPT !.pc = "start"]
             b == [a EXCEPT !.ids = ids]
             s == [b EXCEPT !.todo = ids]
  <2>1. a \in Invocations /\ a.pc = "start" /\ a.obs = NoObs /\ ~a.bad /\ a.result = "none"
    BY Idles DEF Invocations, Pcs, Idle
  <2>2. ids \in SUBSET Cards
    BY CardsAssumption
  <2> HIDE DEF a
  <2>3. b \in Invocations /\ b.pc = "start" /\ b.ids = ids /\ b.obs = NoObs /\ ~b.bad /\ b.result = "none"
    BY <2>1, <2>2 DEF Invocations
  <2> HIDE DEF b
  <2>4. s \in Invocations /\ s.pc = "start" /\ s.ids = ids /\ s.todo = ids /\ s.obs = NoObs
        /\ ~s.bad /\ s.result = "none"
    BY <2>2, <2>3 DEF Invocations
  <2>5. run' = [run EXCEPT ![r] = s] /\ live' = live
    BY <1>3 DEF Go, a, b
  <2> HIDE DEF s
  <2>6. Moves(r)
    BY <1>1, <2>4, <2>5 DEF Moves, At, Progress, Learns, Reports
  <2>7. WireMoves(r)
    BY <1>3, Answers DEF WireMoves, Types
  <2> QED BY <1>2, <2>6, <2>7 DEF RunnerStep
<1>4. ASSUME Answered(4) \/ NoReply(4, {}), End(r, "early") PROVE RunnerStep(r)
  <2> DEFINE s == [run[r] EXCEPT !.pc = "over", !.result = "early"]
  <2>1. s \in Invocations /\ s.pc = "over" /\ s.result = "early" /\ s.obs = run[r].obs
    BY <1>1, Ended DEF Results
  <2>2. run' = [run EXCEPT ![r] = s] /\ live' = live
    BY <1>4 DEF End, Go
  <2> HIDE DEF s
  <2>3. Moves(r)
    BY <1>1, <2>1, <2>2 DEF Moves, At, Progress, Learns, Reports
  <2>4. WireMoves(r)
    BY <1>4, Answers, Silences DEF WireMoves, Types
  <2> QED BY <1>2, <2>3, <2>4 DEF RunnerStep
<1> QED BY <1>3, <1>4 DEF Launch

LEMMA StartMoves ==
  ASSUME Types, ChildrenDated, LoopInv, NEW r \in Runners, Start(r)
  PROVE  RunnerStep(r)
<1>1. run[r] \in Invocations /\ run[r].pc = "start" /\ Progress(run[r])
  BY DEF Start, Types, At, LoopInv
<1>2. run[r].todo = run[r].ids /\ run[r].obs = NoObs /\ ~run[r].bad /\ run[r].result = "none"
  BY <1>1 DEF Progress, Invocations, Results
<1>3. CASE /\ Answered(3) /\ agg' = Started /\ UNCHANGED <<ctx, price>>
           /\ Go(r, Settle(run[r]))
  <2> DEFINE s == Settle(run[r])
  <2>1. Observed(NoObs) = {}
    BY DEF Observed, NoObs
  <2>2. /\ s \in Invocations /\ s.pc = IF s.todo # {} THEN "child" ELSE "done"
        /\ s.todo = s.ids /\ s.obs = NoObs /\ ~s.bad /\ s.result = "none"
        /\ s.count = Cardinality(Observed(s.obs))
    BY <1>1, <1>2, Settled
  <2>3. run' = [run EXCEPT ![r] = s] /\ live' = live
    BY <1>3 DEF Go
  <2> HIDE DEF s
  <2>4. Moves(r)
    BY <1>1, <2>1, <2>2, <2>3 DEF Moves, At, Progress, Learns, Reports
  <2>5. WireMoves(r) /\ ServerMoves(r)
    BY <1>3, Answers, StillKept DEF WireMoves, ServerMoves, Types
  <2> QED BY <2>4, <2>5 DEF RunnerStep
<1>4. CASE NoReply(3, {StartRequest}) /\ Go(r, [run[r] EXCEPT !.pc = "probe"])
  <2> DEFINE s == [run[r] EXCEPT !.pc = "probe"]
  <2>1. s \in Invocations /\ s.pc = "probe" /\ s.todo = s.ids /\ s.obs = NoObs /\ ~s.bad
        /\ s.result = "none"
    BY <1>1, <1>2 DEF Invocations, Pcs
  <2>2. run' = [run EXCEPT ![r] = s] /\ live' = live
    BY <1>4 DEF Go
  <2> HIDE DEF s
  <2>3. Moves(r)
    BY <1>1, <2>1, <2>2 DEF Moves, At, Progress, Learns, Reports
  <2>4. {StartRequest} \in SUBSET Requests /\ StartRequest.kind # "finish"
    BY <1>1, RequestTypes
  <2>5. WireMoves(r) /\ UNCHANGED serverVars
    BY <1>4, <2>4, Silences DEF WireMoves
  <2>6. ServerMoves(r)
    BY <2>5, StillKept DEF ServerMoves, serverVars
  <2> QED BY <2>3, <2>5, <2>6 DEF RunnerStep
<1> QED BY <1>3, <1>4 DEF Start

(* The two ways an invocation gives up reporting: over, or the error finish. *)
LEMMA EndMoves ==
  ASSUME Types, NEW r \in Runners, ~At(r, "over"), NEW v \in {"failed", "open", "died"}, End(r, v),
         v = "failed" => UNCHANGED agg /\ Terminal(agg)
  PROVE  Moves(r)
<1>1. run[r] \in Invocations /\ v \in Results
  BY DEF Types, Results
<1> DEFINE s == [run[r] EXCEPT !.pc = "over", !.result = v]
<1>2. s \in Invocations /\ s.pc = "over" /\ s.result = v /\ s.obs = run[r].obs
  BY <1>1, Ended
<1>3. run' = [run EXCEPT ![r] = s] /\ live' = live
  BY DEF End, Go
<1> HIDE DEF s
<1> QED BY <1>2, <1>3 DEF Moves, At, Progress, Learns, Reports

LEMMA FailMoves ==
  ASSUME Types, LoopInv, NEW r \in Runners, ~At(r, "over"), NEW n \in 0..NumCards, FailWith(r, n)
  PROVE  Moves(r)
<1>1. run[r] \in Invocations /\ run[r].result = "none"
  BY DEF Types, LoopInv, Progress, At
<1> DEFINE s == [run[r] EXCEPT !.pc = "fail", !.count = n]
<1>2. s \in Invocations /\ s.pc = "fail" /\ s.obs = run[r].obs /\ s.result = "none"
  BY <1>1, GivenUp
<1>3. run' = [run EXCEPT ![r] = s] /\ live' = live
  BY DEF FailWith, Go
<1> HIDE DEF s
<1> QED BY <1>2, <1>3 DEF Moves, At, Progress, Learns, Reports

LEMMA CardFailedMoves ==
  ASSUME Types, LoopInv, NEW r \in Runners, ~At(r, "over"), Go(r, CardFailed(r))
  PROVE  Moves(r)
<1>1. run[r] \in Invocations /\ run[r].result = "none"
  BY DEF Types, LoopInv, Progress, At
<1> DEFINE s == CardFailed(r)
<1>2. s \in Invocations /\ s.bad /\ s.obs = run[r].obs /\ s.result = "none"
      /\ s.pc = IF s.todo # {} THEN "child" ELSE "fail"
  BY <1>1, Failed
<1>3. run' = [run EXCEPT ![r] = s] /\ live' = live
  BY DEF Go
<1> HIDE DEF s
<1> QED BY <1>2, <1>3 DEF Moves, At, Progress, Learns, Reports

LEMMA ProbeMoves ==
  ASSUME Types, ChildrenDated, LoopInv, NEW r \in Runners, Probe(r)
  PROVE  RunnerStep(r)
<1>1. ~At(r, "over") /\ 0 \in 0..NumCards
  BY CardsAssumption DEF Probe, At
<1>2. CASE /\ Answered(2) /\ UNCHANGED serverVars
           /\ IF ProbeEnd(agg) = "none" THEN FailWith(r, 0) ELSE End(r, ProbeEnd(agg))
  <2>1. ProbeEnd(agg) \in {"none", "open", "failed"} /\ (ProbeEnd(agg) = "failed" => Terminal(agg))
    BY DEF ProbeEnd
  <2>2. Moves(r)
    BY <1>1, <1>2, <2>1, EndMoves, FailMoves DEF serverVars
  <2> QED BY <1>2, <2>2, Answers, StillKept DEF RunnerStep, ServerMoves, WireMoves, serverVars, Types
<1>3. CASE NoReply(2, {}) /\ End(r, "open")
  <2>1. Moves(r)
    BY <1>1, <1>3, EndMoves
  <2> QED BY <1>3, <2>1, Silences, StillKept DEF RunnerStep, ServerMoves, WireMoves, serverVars, Types
<1> QED BY <1>2, <1>3 DEF Probe

LEMMA GetChildMoves ==
  ASSUME Types, ChildrenDated, LoopInv, NEW r \in Runners, GetChild(r)
  PROVE  RunnerStep(r)
<1>1. run[r] \in Invocations /\ run[r].pc = "child" /\ Progress(run[r]) /\ ~At(r, "over")
  BY DEF GetChild, Types, At, LoopInv
<1>2. run[r].todo # {} /\ run[r].result = "none"
        /\ (~run[r].bad => run[r].ids = run[r].todo \cup Observed(run[r].obs))
  BY <1>1 DEF Progress
<1>3. CASE /\ Answered(2) /\ UNCHANGED serverVars
           /\ Go(r, [run[r] EXCEPT !.pc = "post", !.asof = ChildAsOf(Card(r), left')])
  <2> DEFINE now == ChildAsOf(Card(r), left')
             a == [run[r] EXCEPT !.pc = "post"]
             s == [a EXCEPT !.asof = now]
  <2>1. now \in 0..Slots /\ now # 0
    BY <1>1, <1>2, <1>3, Answers, CardToDo DEF ChildAsOf, Complete, Types, Children, ChildrenDated, Times
  <2>2. a \in Invocations /\ a.pc = "post" /\ a.todo = run[r].todo /\ a.obs = run[r].obs
        /\ a.bad = run[r].bad /\ a.ids = run[r].ids /\ a.result = "none"
    BY <1>1, <1>2 DEF Invocations, Pcs
  <2> HIDE DEF a, now
  <2>3. s \in Invocations /\ s.pc = "post" /\ s.todo = run[r].todo /\ s.obs = run[r].obs
        /\ s.bad = run[r].bad /\ s.ids = run[r].ids /\ s.result = "none" /\ s.asof # 0
    BY <2>1, <2>2 DEF Invocations
  <2>4. run' = [run EXCEPT ![r] = s] /\ live' = live
    BY <1>3 DEF Go, a, now
  <2> HIDE DEF s
  <2>5. Moves(r)
    BY <1>1, <1>2, <2>3, <2>4 DEF Moves, Progress, Learns, Reports
  <2> QED BY <1>3, <2>5, Answers, StillKept DEF RunnerStep, ServerMoves, WireMoves, serverVars, Types
<1>4. CASE NoReply(2, {}) /\ Go(r, CardFailed(r))
  <2>1. Moves(r)
    BY <1>1, <1>4, CardFailedMoves
  <2> QED BY <1>4, <2>1, Silences, StillKept DEF RunnerStep, ServerMoves, WireMoves, serverVars, Types
<1> QED BY <1>3, <1>4 DEF GetChild

LEMMA PostMoves ==
  ASSUME Types, ChildrenDated, LoopInv, NEW r \in Runners, Post(r)
  PROVE  RunnerStep(r)
<1>1. run[r] \in Invocations /\ run[r].pc = "post" /\ Progress(run[r]) /\ ~At(r, "over")
  BY DEF Post, Types, At, LoopInv
<1>2. run[r].todo # {} /\ run[r].result = "none" /\ run[r].asof \in Times
        /\ (~run[r].bad => run[r].ids = run[r].todo \cup Observed(run[r].obs))
  BY <1>1, SlotsAssumption DEF Progress, Invocations, Times
<1>3. Card(r) \in Cards
  BY <1>1, <1>2, CardToDo
<1>4. ASSUME Go(r, [run[r] EXCEPT !.pc = "read"]) PROVE Moves(r)
  <2> DEFINE s == [run[r] EXCEPT !.pc = "read"]
  <2>1. s \in Invocations /\ s.pc = "read" /\ s.todo = run[r].todo /\ s.obs = run[r].obs
        /\ s.bad = run[r].bad /\ s.ids = run[r].ids /\ s.result = "none" /\ s.asof # 0
    BY <1>1, <1>2 DEF Invocations, Pcs, Times
  <2>2. run' = [run EXCEPT ![r] = s] /\ live' = live
    BY <1>4 DEF Go
  <2> HIDE DEF s
  <2> QED BY <1>1, <1>2, <2>1, <2>2 DEF Moves, Progress, Learns, Reports
<1>5. CASE /\ Answered(3) /\ \E got \in BOOLEAN : PostWhole(Card(r), run[r].asof, got)
           /\ Go(r, [run[r] EXCEPT !.pc = "read"])
  <2>1. PICK got \in BOOLEAN : PostWhole(Card(r), run[r].asof, got)
    BY <1>5
  <2>2. Kept /\ agg' = agg
    BY <1>2, <1>3, <2>1, ChildPosted, PricePosted DEF PostWhole, Kept, Types
  <2> QED BY <1>4, <1>5, <2>2, Answers DEF RunnerStep, ServerMoves, WireMoves, Types
<1>6. CASE Lost(3, {PostRequest(Card(r), run[r].asof)}) /\ Go(r, [run[r] EXCEPT !.pc = "read"])
  <2>1. {PostRequest(Card(r), run[r].asof)} \in SUBSET Requests
        /\ PostRequest(Card(r), run[r].asof).kind = "post"
    BY <1>2, <1>3 DEF PostRequest, Requests
  <2>2. WireMoves(r) /\ UNCHANGED serverVars
    BY <1>6, <2>1, Silences DEF WireMoves, NoReply
  <2> QED BY <1>4, <1>6, <2>2, StillKept DEF RunnerStep, ServerMoves, serverVars
<1>7. CASE PostHalf(r) /\ Go(r, CardFailed(r))
  <2>1. PICK got \in BOOLEAN : PostChild(Card(r), run[r].asof, got)
    BY <1>7 DEF PostHalf
  <2>2. Kept /\ agg' = agg
    BY <1>2, <1>3, <1>7, <2>1, ChildPosted DEF PostHalf, Kept, Types
  <2>3. WireMoves(r)
    BY <1>7, SlotsAssumption, FaultsAssumption DEF PostHalf, WireMoves, Types, Spend, Affords
  <2> QED BY <1>1, <1>7, <2>2, <2>3, CardFailedMoves DEF RunnerStep, ServerMoves
<1>8. CASE Refused(3) /\ Go(r, CardFailed(r))
  <2>1. Moves(r)
    BY <1>1, <1>8, CardFailedMoves
  <2> QED BY <1>8, <2>1, StillKept DEF RunnerStep, ServerMoves, WireMoves, serverVars, Types, Refused
<1> QED BY <1>5, <1>6, <1>7, <1>8 DEF Post

LEMMA ReadChildMoves ==
  ASSUME Types, ChildrenDated, LoopInv, NEW r \in Runners, ReadChild(r)
  PROVE  RunnerStep(r)
<1>1. run[r] \in Invocations /\ run[r].pc = "read" /\ Progress(run[r]) /\ ~At(r, "over")
  BY DEF ReadChild, Types, At, LoopInv
<1>2. run[r].todo # {} /\ run[r].result = "none" /\ run[r].asof # 0
        /\ (~run[r].bad => run[r].ids = run[r].todo \cup Observed(run[r].obs))
  BY <1>1 DEF Progress
<1>3. Card(r) \in Cards /\ Card(r) \in run[r].todo
  BY <1>1, <1>2, CardToDo
<1>4. CASE /\ Answered(2) /\ UNCHANGED serverVars
           /\ Verified(Card(r), run[r].asof) /\ Go(r, CardVerified(r))
  <2> DEFINE s == CardVerified(r)
  <2>1. /\ s \in Invocations /\ s.bad = run[r].bad /\ s.ids = run[r].ids
        /\ s.obs = [run[r].obs EXCEPT ![Card(r)] = run[r].asof]
        /\ s.todo = run[r].todo \ {Card(r)}
        /\ s.pc = IF s.todo # {} THEN "child" ELSE IF s.bad THEN "fail" ELSE "done"
        /\ s.count = Cardinality(Observed(s.obs)) /\ s.result = "none"
    BY <1>1, <1>2, VerifiedCard
  <2>2. run' = [run EXCEPT ![r] = s] /\ live' = live
    BY <1>4 DEF Go
  <2> HIDE DEF s
  <2>3. Observed(s.obs) = Observed(run[r].obs) \cup {Card(r)}
    BY <1>1, <1>2, <1>3, <2>1 DEF Observed, Invocations
  <2>4. ~s.bad => s.ids = s.todo \cup Observed(s.obs)
    BY <1>2, <1>3, <2>1, <2>3
  <2>5. Moves(r)
    BY <1>1, <1>3, <1>4, <2>1, <2>2, <2>4 DEF Moves, Progress, Learns, Reports
  <2> QED BY <1>4, <2>5, Answers, StillKept DEF RunnerStep, ServerMoves, WireMoves, serverVars, Types
<1>5. CASE /\ Answered(2) /\ UNCHANGED serverVars
           /\ Go(r, CardFailed(r))
  <2>1. Moves(r)
    BY <1>1, <1>5, CardFailedMoves
  <2> QED BY <1>5, <2>1, Answers, StillKept DEF RunnerStep, ServerMoves, WireMoves, serverVars, Types
<1>6. CASE NoReply(2, {}) /\ Go(r, CardFailed(r))
  <2>1. Moves(r)
    BY <1>1, <1>6, CardFailedMoves
  <2> QED BY <1>6, <2>1, Silences, StillKept DEF RunnerStep, ServerMoves, WireMoves, serverVars, Types
<1> QED BY <1>4, <1>5, <1>6 DEF ReadChild

LEMMA FinishDoneMoves ==
  ASSUME Types, ChildrenDated, LoopInv, NEW r \in Runners, FinishDone(r)
  PROVE  RunnerStep(r)
<1>1. run[r] \in Invocations /\ run[r].pc = "done" /\ Progress(run[r]) /\ ~At(r, "over") /\ At(r, "done")
  BY DEF FinishDone, Types, At, LoopInv
<1>2. DoneOf(r) \in Requests /\ FinishOf(r, DoneOf(r)) /\ 0 \in 0..NumCards
  BY <1>1, RequestTypes, CardsAssumption DEF FinishOf
<1>3. CASE /\ Answered(1) /\ agg' = Finished(DoneOf(r).run) /\ UNCHANGED <<ctx, price>>
           /\ Go(r, [run[r] EXCEPT !.pc = "check"])
  <2> DEFINE s == [run[r] EXCEPT !.pc = "check"]
  <2>1. s \in Invocations /\ s.pc = "check" /\ s.todo = run[r].todo /\ s.obs = run[r].obs
        /\ s.bad = run[r].bad /\ s.ids = run[r].ids /\ s.result = run[r].result
        /\ s.count = run[r].count
    BY <1>1 DEF Invocations, Pcs
  <2>2. run' = [run EXCEPT ![r] = s] /\ live' = live
    BY <1>3 DEF Go
  <2> HIDE DEF s
  <2>3. Moves(r)
    BY <1>1, <2>1, <2>2 DEF Moves, Progress, Learns, Reports
  <2>4. ServerMoves(r)
    BY <1>2, <1>3, StillKept DEF ServerMoves
  <2> QED BY <1>3, <2>3, <2>4, Answers DEF RunnerStep, WireMoves, Types
<1>4. CASE NoReply(1, {DoneOf(r)}) /\ FailWith(r, 0)
  <2>1. WireMoves(r) /\ UNCHANGED serverVars
    BY <1>2, <1>4, Silences DEF WireMoves
  <2> QED BY <1>1, <1>2, <1>4, <2>1, FailMoves, StillKept DEF RunnerStep, ServerMoves, serverVars
<1> QED BY <1>3, <1>4 DEF FinishDone

LEMMA CheckDoneMoves ==
  ASSUME Types, ChildrenDated, LoopInv, NEW r \in Runners, CheckDone(r)
  PROVE  RunnerStep(r)
<1>1. run[r] \in Invocations /\ run[r].pc = "check" /\ ~At(r, "over")
      /\ run[r].count \in 0..NumCards /\ 0 \in 0..NumCards
  BY CardsAssumption DEF CheckDone, Types, At, Invocations
<1>2. CASE Answered(0) /\ UNCHANGED serverVars /\ agg = DoneOf(r).run /\ End(r, "ok")
  <2> DEFINE s == [run[r] EXCEPT !.pc = "over", !.result = "ok"]
  <2>1. s \in Invocations /\ s.pc = "over" /\ s.result = "ok" /\ s.obs = run[r].obs
        /\ s.ids = run[r].ids /\ s.count = run[r].count
    BY <1>1, Ended DEF Results
  <2>2. run' = [run EXCEPT ![r] = s] /\ live' = live
    BY <1>2 DEF End, Go
  <2> HIDE DEF s
  <2>3. Moves(r)
    BY <1>1, <1>2, <2>1, <2>2 DEF Moves, Progress, Learns, Reports, DoneOf, serverVars
  <2> QED BY <1>2, <2>3, Answers, StillKept DEF RunnerStep, ServerMoves, WireMoves, serverVars, Types
<1>3. CASE Answered(0) /\ UNCHANGED serverVars /\ FailWith(r, run[r].count)
  BY <1>1, <1>3, FailMoves, Answers, StillKept
     DEF RunnerStep, ServerMoves, WireMoves, serverVars, Types
<1>4. CASE NoReply(0, {}) /\ FailWith(r, 0)
  BY <1>1, <1>4, FailMoves, Silences, StillKept
     DEF RunnerStep, ServerMoves, WireMoves, serverVars, Types
<1> QED BY <1>2, <1>3, <1>4 DEF CheckDone

LEMMA FinishErrorMoves ==
  ASSUME Types, ChildrenDated, LoopInv, NEW r \in Runners, FinishError(r)
  PROVE  RunnerStep(r)
<1>1. run[r] \in Invocations /\ run[r].pc = "fail" /\ Progress(run[r]) /\ ~At(r, "over")
  BY DEF FinishError, Types, At, LoopInv
<1>2. ErrorOf(r) \in Requests /\ FinishOf(r, ErrorOf(r))
  BY <1>1, RequestTypes DEF FinishOf
<1>3. CASE /\ Answered(1) /\ agg' = Finished(ErrorOf(r).run) /\ UNCHANGED <<ctx, price>>
           /\ Go(r, [run[r] EXCEPT !.pc = "confirm"])
  <2> DEFINE s == [run[r] EXCEPT !.pc = "confirm"]
  <2>1. s \in Invocations /\ s.pc = "confirm" /\ s.obs = run[r].obs /\ s.result = run[r].result
    BY <1>1 DEF Invocations, Pcs
  <2>2. run' = [run EXCEPT ![r] = s] /\ live' = live
    BY <1>3 DEF Go
  <2> HIDE DEF s
  <2>3. Moves(r)
    BY <1>1, <2>1, <2>2 DEF Moves, Progress, Learns, Reports
  <2>4. ServerMoves(r)
    BY <1>2, <1>3, StillKept DEF ServerMoves
  <2> QED BY <1>3, <2>3, <2>4, Answers DEF RunnerStep, WireMoves, Types
<1>4. CASE NoReply(1, {ErrorOf(r)}) /\ End(r, "open")
  <2>1. WireMoves(r) /\ UNCHANGED serverVars
    BY <1>2, <1>4, Silences DEF WireMoves
  <2> QED BY <1>1, <1>4, <2>1, EndMoves, StillKept DEF RunnerStep, ServerMoves, serverVars
<1> QED BY <1>3, <1>4 DEF FinishError

LEMMA ConfirmErrorMoves ==
  ASSUME Types, ChildrenDated, LoopInv, NEW r \in Runners, ConfirmError(r)
  PROVE  RunnerStep(r)
<1>1. ~At(r, "over")
  BY DEF ConfirmError, At
<1>2. CASE /\ Answered(0) /\ UNCHANGED serverVars
           /\ End(r, IF agg.status = "error" /\ agg.count = run[r].count THEN "failed" ELSE "open")
  <2> DEFINE v == IF agg.status = "error" /\ agg.count = run[r].count THEN "failed" ELSE "open"
  <2>1. v \in {"failed", "open"} /\ (v = "failed" => Terminal(agg)) /\ End(r, v) /\ UNCHANGED agg
    BY <1>2 DEF Terminal, serverVars
  <2> HIDE DEF v
  <2>2. Moves(r)
    BY <1>1, <2>1, EndMoves
  <2> QED BY <1>2, <2>2, Answers, StillKept DEF RunnerStep, ServerMoves, WireMoves, serverVars, Types
<1>3. CASE NoReply(0, {}) /\ End(r, "open")
  BY <1>1, <1>3, EndMoves, Silences, StillKept
     DEF RunnerStep, ServerMoves, WireMoves, serverVars, Types
<1> QED BY <1>2, <1>3 DEF ConfirmError

LEMMA DieMoves ==
  ASSUME Types, ChildrenDated, LoopInv, NEW r \in Runners, Die(r)
  PROVE  RunnerStep(r)
<1>1. Moves(r)
  BY EndMoves DEF Die, At
<1> QED BY <1>1, StillKept, FaultsAssumption
        DEF Die, RunnerStep, ServerMoves, WireMoves, serverVars, Types

-----------------------------------------------------------------------------
(* Late requests.                                                            *)

\* What a delivery may do; the finishes left in the mail were there before.
ServerStep ==
  /\ Kept
  /\ \/ agg' = agg
     \/ agg' = Started
     \/ \E q \in mail : q.kind = "finish" /\ agg' = Finished(q.run)
  /\ mail' \subseteq Requests
  /\ \A q \in mail' : q.kind = "finish" => q \in mail

LEMMA Delivered ==
  ASSUME Types, ChildrenDated, Deliver PROVE ServerStep
<1>1. ASSUME NEW q \in mail, q.kind = "post" PROVE q.card \in Cards /\ q.asof \in Times
  BY <1>1 DEF Types, Requests, StartRequest
<1>2. ASSUME NEW q \in mail, q.kind = "price" PROVE q.card \in Cards /\ q.asof \in Times
  BY <1>2 DEF Types, Requests, StartRequest
<1>3. CASE DeliverStart
  BY <1>3, StillKept DEF DeliverStart, ServerStep, Types
<1>4. CASE DeliverFinish
  <2>1. PICK q \in mail : q.kind = "finish" /\ mail' = mail \ {q} /\ agg' = Finished(q.run)
    BY <1>4 DEF DeliverFinish
  <2>2. Kept
    BY <1>4, StillKept DEF DeliverFinish
  <2> QED BY <2>1, <2>2 DEF ServerStep, Types
<1>5. CASE DeliverPost
  <2>1. PICK q \in mail, got \in BOOLEAN :
          /\ q.kind = "post" /\ PostChild(q.card, q.asof, got)
          /\ mail' = (mail \ {q}) \cup
               (IF PostAllowed(q.card, q.asof, got) THEN {PriceRequest(q.card, q.asof)} ELSE {})
    BY <1>5 DEF DeliverPost
  <2>2. Kept /\ agg' = agg
    BY <1>1, <1>5, <2>1, ChildPosted DEF DeliverPost, Kept, Types
  <2>3. PriceRequest(q.card, q.asof) \in Requests /\ PriceRequest(q.card, q.asof).kind = "price"
    BY <1>1, <2>1 DEF PriceRequest, Requests
  <2> QED BY <2>1, <2>2, <2>3 DEF ServerStep, Types
<1>6. CASE DeliverPrice
  <2>1. PICK q \in mail : /\ q.kind = "price" /\ mail' = mail \ {q}
                          /\ price' = PriceWith(q.card, q.asof)
    BY <1>6 DEF DeliverPrice
  <2>2. Kept /\ agg' = agg
    BY <1>2, <1>6, <2>1, PricePosted DEF DeliverPrice, Kept, Types, ChildrenDated
  <2> QED BY <2>1, <2>2 DEF ServerStep, Types
<1> QED BY <1>3, <1>4, <1>5, <1>6 DEF Deliver

-----------------------------------------------------------------------------
(* The invariant.                                                            *)

LEMMA AnyStep ==
  ASSUME MInv, Next
  PROVE  \/ \E r \in Runners : RunnerStep(r)
         \/ ServerStep /\ UNCHANGED <<live, left, run, faults>>
         \/ live' \in [Cards -> BOOLEAN] /\ UNCHANGED <<serverVars, left, mail, run, faults>>
         \/ left' \in 0..Slots /\ UNCHANGED <<serverVars, live, mail, run, faults>>
<1>1. Types /\ ChildrenDated /\ LoopInv
  BY TypesHold DEF MInv
<1>2. ASSUME NEW r \in Runners, Launch(r) \/ Step(r) \/ Die(r) PROVE RunnerStep(r)
  BY <1>1, <1>2, LaunchMoves, StartMoves, ProbeMoves, GetChildMoves, PostMoves, ReadChildMoves,
     FinishDoneMoves, CheckDoneMoves, FinishErrorMoves, ConfirmErrorMoves, DieMoves DEF Step
<1>3. CASE Deliver
  BY <1>1, <1>3, Delivered DEF Deliver
<1>4. ASSUME NEW c \in Cards, Invalidate(c)
      PROVE  live' \in [Cards -> BOOLEAN] /\ UNCHANGED <<serverVars, left, mail, run, faults>>
  BY <1>1, <1>4 DEF Invalidate, Types
<1>5. CASE Tick
  BY <1>1, <1>5, SlotsAssumption DEF Tick, Types
<1> QED BY <1>2, <1>3, <1>4, <1>5 DEF Next

\* What is stored under an observation stays stored.
LEMMA StoredStays ==
  ASSUME Types, Kept, NEW obs, Stored(obs) PROVE Stored(obs)'
BY DEF Stored, Kept, NoChild

LEMMA LearnsStored ==
  ASSUME Types, Kept, NEW r \in Runners, NEW s \in Invocations, Stored(run[r].obs), Learns(r, s)
  PROVE  Stored(s.obs)'
<1>1. Stored(s.obs)
  BY DEF Learns, Stored, NoObs, Verified, Types, Invocations
<1> QED BY <1>1, StoredStays

\* A finish an invocation sends is backed by what it has read back.
LEMMA FinishBacked ==
  ASSUME Types, LoopInv, NEW r \in Runners, NEW q, FinishOf(r, q)
  PROVE  q.run.status \in {"done", "error"} /\ Backed(q.run)
<1>1. run[r] \in Invocations /\ Progress(run[r]) /\ Stored(run[r].obs)
  BY DEF Types, LoopInv
<1>2. CASE q = ErrorOf(r)
  BY <1>2 DEF ErrorOf, FinishRequest, Backed
<1>3. CASE At(r, "done") /\ q = DoneOf(r)
  <2>1. run[r].ids = Observed(run[r].obs) /\ run[r].count = Cardinality(run[r].ids)
    BY <1>1, <1>3 DEF Progress, At
  <2> QED BY <1>1, <1>3, <2>1 DEF DoneOf, FinishRequest, Backed
<1> QED BY <1>2, <1>3 DEF FinishOf

LEMMA BackedStays ==
  ASSUME Types, Kept, NEW a, Backed(a) PROVE Backed(a)'
BY StoredStays DEF Backed, Observed

\* A terminal run is never replaced.
LEMMA TerminalStays ==
  ASSUME Types, Terminal(agg),
         agg' = agg \/ agg' = Started \/ \E x : agg' = Finished(x)
  PROVE  agg' = agg
BY DEF Terminal, Started, Finished, NoRun

LEMMA InitInv == Init => MInv
<1> SUFFICES ASSUME Init PROVE MInv
  OBVIOUS
<1> USE SlotsAssumption, CardsAssumption, FaultsAssumption
<1>1. Types
  <2>1. NoChild \in Children /\ NoObs \in [Cards -> 0..Slots]
    BY DEF NoChild, Children, NoObs
  <2> QED BY <2>1, Idles DEF Init, Types, Runs
<1>2. ChildrenDated /\ FinishesBacked
  BY DEF Init, ChildrenDated, FinishesBacked, Backed, NoRun
<1>3. LoopInv
  BY Idles DEF Init, LoopInv, Stored, NoObs
<1>4. SuccessIsDurable /\ ReportedFailureIsTerminal
  BY DEF Init, SuccessIsDurable, ReportedFailureIsTerminal, Idle
<1> QED BY <1>1, <1>2, <1>3, <1>4, TypesHold DEF MInv

LEMMA RunnerInv ==
  ASSUME MInv, NEW r \in Runners, RunnerStep(r) PROVE MInv'
<1>1. Types /\ LoopInv /\ FinishesBacked /\ SuccessIsDurable /\ ReportedFailureIsTerminal
  BY TypesHold DEF MInv
<1>2. Kept /\ WireMoves(r)
  BY DEF RunnerStep, ServerMoves
<1>3. PICK s \in Invocations :
        /\ run' = [run EXCEPT ![r] = s] /\ live' = live /\ ~At(r, "over")
        /\ Progress(s) /\ Learns(r, s) /\ Reports(r, s)
  BY DEF RunnerStep, Moves
<1>4. \/ agg' = agg
      \/ agg' = Started
      \/ \E q \in Requests : q.kind = "finish" /\ FinishOf(r, q) /\ agg' = Finished(q.run)
  BY <1>1, RequestTypes DEF RunnerStep, ServerMoves, FinishOf, Types
<1>5. Types'
  <2>1. agg' \in Runs
    BY <1>1, <1>4, AggTypes DEF Types
  <2> QED BY <1>1, <1>2, <1>3, <2>1 DEF Types, Kept, WireMoves
<1>6. ChildrenDated'
  BY <1>2 DEF ChildrenDated, Kept
<1>7. LoopInv'
  <2>1. Stored(s.obs)'
    BY <1>1, <1>2, <1>3, LearnsStored DEF LoopInv
  <2>2. ASSUME NEW u \in Runners, u # r PROVE Progress(run'[u]) /\ Stored(run[u].obs)'
    BY <1>1, <1>2, <1>3, <2>2, StoredStays DEF LoopInv, Types
  <2>3. run'[r] = s /\ \A u \in Runners : u # r => run'[u] = run[u]
    BY <1>1, <1>3 DEF Types
  <2> QED BY <1>3, <2>1, <2>2, <2>3 DEF LoopInv, Stored
<1>8. FinishesBacked'
  <2>1. Backed(Started)
    BY <1>1 DEF FinishesBacked, Started, NoRun, Backed
  <2>2. \A q : FinishOf(r, q) => Backed(q.run)
    BY <1>1, FinishBacked
  <2>3. Backed(agg)'
    <3>1. Backed(agg')
      BY <1>1, <1>4, <2>1, <2>2 DEF FinishesBacked, Finished
    <3> QED BY <1>1, <1>2, <3>1, BackedStays
  <2>4. ASSUME NEW q \in mail', q.kind = "finish" PROVE Backed(q.run)'
    BY <1>1, <1>2, <2>2, <2>4, BackedStays DEF FinishesBacked, WireMoves
  <2> QED BY <2>3, <2>4 DEF FinishesBacked
<1>9. Terminal(agg) => agg' = agg
  BY <1>1, <1>4, TerminalStays
<1>10. run'[r] = s /\ \A u \in Runners : u # r => run'[u] = run[u]
  BY <1>1, <1>3 DEF Types
<1>11. SuccessIsDurable'
  <2>1. ASSUME NEW u \in Runners, run'[u].result = "ok"
        PROVE  agg' = FinishRequest("done", run'[u].count, run'[u].ids, run'[u].obs).run
    <3>1. CASE u = r
      BY <1>3, <1>10, <2>1, <3>1 DEF Reports
    <3>2. CASE u # r
      <4>1. agg = DoneOf(u).run
        BY <1>1, <1>10, <2>1, <3>2 DEF SuccessIsDurable
      <4>2. Terminal(agg)
        BY <4>1 DEF DoneOf, FinishRequest, Terminal
      <4> QED BY <1>9, <1>10, <3>2, <4>1, <4>2 DEF DoneOf
    <3> QED BY <3>1, <3>2
  <2> QED BY <2>1 DEF SuccessIsDurable, DoneOf
<1>12. ReportedFailureIsTerminal'
  BY <1>1, <1>3, <1>9, <1>10 DEF ReportedFailureIsTerminal, Reports, Terminal
<1> QED
  <2>1. TypeOK'
    BY <1>5 DEF TypeOK, Types, Outcomes, Runs, Requests, Children, Pcs, Results, Invocations
  <2> QED BY <1>6, <1>7, <1>8, <1>11, <1>12, <2>1 DEF MInv

LEMMA DeliveryInv ==
  ASSUME MInv, ServerStep, UNCHANGED <<live, left, run, faults>> PROVE MInv'
<1>1. Types /\ LoopInv /\ FinishesBacked /\ SuccessIsDurable /\ ReportedFailureIsTerminal
  BY TypesHold DEF MInv
<1>2. Kept
  BY DEF ServerStep
<1>3. \/ agg' = agg
      \/ agg' = Started
      \/ \E q \in mail : q.kind = "finish" /\ agg' = Finished(q.run)
  BY DEF ServerStep
<1>4. Types'
  <2>1. agg' \in Runs
    BY <1>1, <1>3, AggTypes DEF Types
  <2> QED BY <1>1, <1>2, <2>1 DEF Types, Kept, ServerStep
<1>5. ChildrenDated'
  BY <1>2 DEF ChildrenDated, Kept
<1>6. LoopInv'
  <2>1. \A u \in Runners : Stored(run[u].obs)'
    BY <1>1, <1>2, StoredStays DEF LoopInv
  <2> QED BY <1>1, <2>1 DEF LoopInv, Stored
<1>7. FinishesBacked'
  <2>1. Backed(Started)
    BY <1>1 DEF FinishesBacked, Started, NoRun, Backed
  <2>2. Backed(agg')
    BY <1>1, <1>3, <2>1 DEF FinishesBacked, Finished
  <2>3. Backed(agg)'
    BY <1>1, <1>2, <2>2, BackedStays
  <2>4. ASSUME NEW q \in mail', q.kind = "finish" PROVE Backed(q.run)'
    BY <1>1, <1>2, <2>4, BackedStays DEF FinishesBacked, ServerStep
  <2> QED BY <2>3, <2>4 DEF FinishesBacked
<1>8. Terminal(agg) => agg' = agg
  BY <1>1, <1>3, TerminalStays
<1>9. SuccessIsDurable'
  <2>1. \A u \in Runners : DoneOf(u).run.status = "done" /\ DoneOf(u)' = DoneOf(u)
    BY DEF DoneOf, FinishRequest
  <2> QED BY <1>1, <1>8, <2>1 DEF SuccessIsDurable, Terminal
<1>10. ReportedFailureIsTerminal'
  BY <1>1, <1>8 DEF ReportedFailureIsTerminal, Terminal
<1> QED
  <2>1. TypeOK'
    BY <1>4 DEF TypeOK, Types, Outcomes, Runs, Requests, Children, Pcs, Results, Invocations
  <2> QED BY <1>5, <1>6, <1>7, <1>9, <1>10, <2>1 DEF MInv

LEMMA StepInv == MInv /\ [Next]_vars => MInv'
<1> SUFFICES ASSUME MInv, [Next]_vars PROVE MInv'
  OBVIOUS
<1>1. ASSUME Next PROVE MInv'
  <2>1. ASSUME UNCHANGED <<serverVars, mail, run, faults>>,
               live' \in [Cards -> BOOLEAN], left' \in 0..Slots
        PROVE  MInv'
    BY <2>1 DEF MInv, TypeOK, serverVars, ChildrenDated, LoopInv, Stored, FinishesBacked, Backed,
                SuccessIsDurable, ReportedFailureIsTerminal, DoneOf, Terminal
  <2>2. live \in [Cards -> BOOLEAN] /\ left \in 0..Slots
    BY TypesHold DEF MInv, Types
  <2> QED BY <1>1, <2>1, <2>2, AnyStep, RunnerInv, DeliveryInv
<1>2. CASE UNCHANGED vars
  BY <1>2 DEF vars, serverVars, MInv, TypeOK, ChildrenDated, LoopInv, Stored, FinishesBacked, Backed,
              SuccessIsDurable, ReportedFailureIsTerminal, DoneOf, Terminal
<1> QED BY <1>1, <1>2

LEMMA ContextInvariance == Spec => []MInv
  BY InitInv, StepInv, PTL DEF Spec

-----------------------------------------------------------------------------
\* For any cards, invocations, slots and faults: stored rows, late requests and
\* invocations have their types, and no count leaves the cards of the day.
THEOREM ContextTypes == Spec => []TypeOK
  BY ContextInvariance, PTL DEF MInv

\* A done run stands on what is stored: its count, its cards and, per card, the child
\* and the expected price at the time it recorded (scheduler_finish, runner:309-370).
THEOREM DoneRunsAreBacked == Spec => []DoneRunIsBacked
<1>1. MInv => DoneRunIsBacked
  <2> SUFFICES ASSUME MInv, agg.status = "done"
               PROVE  /\ agg.count = Cardinality(agg.ids)
                      /\ \A c \in Cards : agg.obs[c] # 0 <=> c \in agg.ids
                      /\ \A c \in agg.ids : ctx[c].asof = agg.obs[c] /\ price[c] = agg.obs[c]
    BY DEF DoneRunIsBacked
  <2>1. agg.count = Cardinality(agg.ids) /\ Observed(agg.obs) = agg.ids /\ Stored(agg.obs)
    BY DEF MInv, FinishesBacked, Backed
  <2> QED BY <2>1 DEF Observed, Stored
<1> QED BY <1>1, ContextInvariance, PTL

\* Completion that an invocation has read back is never taken back, however many
\* invocations and late finishes there are (terminal_readback_matches).
THEOREM SuccessStays == Spec => []SuccessIsDurable
  BY ContextInvariance, PTL DEF MInv

\* An invocation reports a plain failure only of a run that is and stays terminal
\* (raise_after_error_terminalization, recover_ambiguous_start).
THEOREM FailureReportsHold == Spec => []ReportedFailureIsTerminal
  BY ContextInvariance, PTL DEF MInv

\* The server's first terminal answer is its last: no finish, start or late request
\* changes a terminal run (scheduler_finish updates only a started row).
THEOREM TerminalRunIsFinal == Spec => [][Terminal(agg) => agg' = agg]_vars
<1>1. MInv /\ [Next]_vars => [Terminal(agg) => agg' = agg]_vars
  <2> SUFFICES ASSUME MInv, Next, Terminal(agg) PROVE agg' = agg
    BY DEF vars, serverVars
  <2>1. Types
    BY TypesHold DEF MInv
  <2> QED BY <2>1, AnyStep, TerminalStays DEF RunnerStep, ServerMoves, ServerStep, serverVars
<1> QED BY <1>1, ContextInvariance, PTL DEF Spec
=============================================================================
