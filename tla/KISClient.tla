----------------------------- MODULE KISClient -----------------------------
(***************************************************************************)
(* KISReadOnlyClient, one object shared by the server's worker threads: the *)
(* access token held in the object, the token stored in the database for    *)
(* every client of the application key, and one quotation request at a      *)
(* time, retried once with another token when the broker refuses the token. *)
(* A token is refreshed within a BEGIN IMMEDIATE transaction that spans the *)
(* OAuth request; every request also holds the process-wide start lock.     *)
(***************************************************************************)
EXTENDS Naturals, FiniteSets

CONSTANTS
  Threads,   \* worker threads of the server
  NoThread,  \* a lock nobody holds
  MaxTokens, \* bound: tokens the broker issues
  MaxCalls   \* bound: calls per thread

ASSUME NoThreadAssumption == NoThread \notin Threads
ASSUME MaxTokensAssumption == MaxTokens \in Nat \ {0}
ASSUME MaxCallsAssumption == MaxCalls \in Nat

VARIABLES
  mem,     \* the token in the client object, 0 for None
  row,     \* the token in kis_oauth_token_cache, 0 while there is no row
  token,   \* what has become of each token
  writer,  \* the thread in a BEGIN IMMEDIATE transaction
  wire,    \* the thread holding _request_start_lock
  call     \* per thread, its call of current_price (orderbook, ...)

vars == <<mem, row, token, writer, wire, call>>

Tokens == 1..MaxTokens
Ready(n) == [pc |-> "ready", tok |-> 0, attempt |-> 1, calls |-> n]

\* A token is good until it nears its expiry (old) or the broker revokes it.
Fresh(k) == k # 0 /\ token[k] \in {"good", "revoked"}
Refusable(k) == k \notin {j \in Tokens : token[j] = "good"}

-----------------------------------------------------------------------------
Pc(t, pc) == call[t].pc = pc
Go(t, c) == call' = [call EXCEPT ![t] = c]
To(t, pc) == Go(t, [call[t] EXCEPT !.pc = pc])
With(t, pc, k) == Go(t, [call[t] EXCEPT !.pc = pc, !.tok = k])
Return(t) == Go(t, Ready(call[t].calls))      \* a quote, or the unavailable projection

MayWriteDeferred(t) == TRUE      \* mutant: BEGIN instead of BEGIN IMMEDIATE
MayWrite(t) == writer = NoThread
UnwiredNever(t) == t             \* mutant: the start lock is not released
Unwired(t) == NoThread
Last(attempt) == attempt = 2
Busy == writer # NoThread        \* the busy timeout may run out

\* current_price, orderbook, daily_snapshot or intraday_minute_bars
Call(t) ==
  /\ Pc(t, "ready") /\ call[t].calls > 0
  /\ Go(t, [Ready(call[t].calls - 1) EXCEPT !.pc = "memory"])
  /\ UNCHANGED <<mem, row, token, writer, wire>>

\* The test of the token in memory; its value is read again when it is returned.
CheckMemory(t) ==
  /\ Pc(t, "memory")
  /\ IF Fresh(mem) THEN To(t, "take") /\ UNCHANGED mem ELSE To(t, "begin") /\ mem' = 0
  /\ UNCHANGED <<row, token, writer, wire>>

TakeMemory(t) ==
  /\ Pc(t, "take") /\ With(t, "send", mem)
  /\ UNCHANGED <<mem, row, token, writer, wire>>

BeginImmediate(t) ==
  /\ Pc(t, "begin")
  /\ \/ MayWrite(t) /\ writer' = t /\ To(t, "row")
     \/ Busy /\ Return(t) /\ UNCHANGED writer
  /\ UNCHANGED <<mem, row, token, wire>>

ReadRow(t) ==
  /\ Pc(t, "row")
  /\ IF Fresh(row) THEN With(t, "remember", row) /\ writer' = NoThread
     ELSE To(t, "oauth") /\ UNCHANGED writer
  /\ UNCHANGED <<mem, row, token, wire>>

StartOAuth(t) ==
  /\ Pc(t, "oauth") /\ wire = NoThread
  /\ wire' = t /\ To(t, "issuing")
  /\ UNCHANGED <<mem, row, token, writer>>

\* The reply, or a failure before or after the broker issued the token.
EndOAuth(t) ==
  /\ Pc(t, "issuing") /\ wire' = Unwired(t) /\ writer' = NoThread
  /\ \/ \E k \in Tokens :
          /\ token[k] = "unissued" /\ \A j \in 1..(k - 1) : token[j] # "unissued"
          /\ \/ token' = [token EXCEPT ![k] = "good"] /\ row' = k /\ With(t, "remember", k)
             \/ token' = [token EXCEPT ![k] = "lost"] /\ Return(t) /\ UNCHANGED row
     \/ Return(t) /\ UNCHANGED <<token, row>>
  /\ UNCHANGED mem

Remember(t) ==
  /\ Pc(t, "remember") /\ mem' = call[t].tok /\ To(t, "send")
  /\ UNCHANGED <<row, token, writer, wire>>

StartQuote(t) ==
  /\ Pc(t, "send") /\ wire = NoThread
  /\ wire' = t /\ To(t, "sending")
  /\ UNCHANGED <<mem, row, token, writer>>

EndQuote(t) ==
  /\ Pc(t, "sending") /\ wire' = Unwired(t)
  /\ Return(t) \/ (Refusable(call[t].tok) /\ To(t, "clear"))
  /\ UNCHANGED <<mem, row, token, writer>>

ClearToken(t) ==
  /\ Pc(t, "clear") /\ mem' = 0 /\ To(t, "delete")
  /\ UNCHANGED <<row, token, writer, wire>>

WithoutAny(k) == 0               \* mutant: the DELETE does not name the refused token
Without(k) == IF row = k THEN 0 ELSE row

\* _invalidate_cached_token; then the second attempt, or the end.
InvalidateRow(t) ==
  /\ Pc(t, "delete")
  /\ \/ /\ MayWrite(t) /\ row' = Without(call[t].tok)
        /\ IF Last(call[t].attempt) THEN Return(t)
           ELSE Go(t, [call[t] EXCEPT !.pc = "memory", !.attempt = @ + 1])
     \/ Busy /\ Return(t) /\ UNCHANGED row
  /\ UNCHANGED <<mem, token, writer, wire>>

Step(t) ==
  \/ CheckMemory(t) \/ TakeMemory(t) \/ BeginImmediate(t) \/ ReadRow(t)
  \/ StartOAuth(t) \/ EndOAuth(t) \/ Remember(t)
  \/ StartQuote(t) \/ EndQuote(t) \/ ClearToken(t) \/ InvalidateRow(t)

\* The clock and the broker.
TokenEnds == \E k \in Tokens, end \in {"old", "revoked"} :
  /\ token[k] = "good" /\ token' = [token EXCEPT ![k] = end]
  /\ UNCHANGED <<mem, row, writer, wire, call>>

Init ==
  /\ mem = 0 /\ row = 0
  /\ token = [k \in Tokens |-> "unissued"]
  /\ writer = NoThread /\ wire = NoThread
  /\ call = [t \in Threads |-> Ready(MaxCalls)]

Next == (\E t \in Threads : Call(t) \/ Step(t)) \/ TokenEnds

Spec == Init /\ [][Next]_vars

\* Every thread is scheduled; a request to the broker and a wait for the database
\* have timeouts, and the threads make finitely many calls here.
FairSpec == Spec /\ \A t \in Threads : WF_vars(Step(t))

-----------------------------------------------------------------------------
(* Properties *)

\* Types of the tokens, the locks and the calls.
TypeOK ==
  /\ mem \in 0..MaxTokens /\ row \in 0..MaxTokens
  /\ token \in [Tokens -> {"unissued", "good", "old", "revoked", "lost"}]
  /\ {writer, wire} \subseteq Threads \cup {NoThread}
  /\ call \in [Threads ->
       [pc : {"ready", "memory", "take", "begin", "row", "oauth", "issuing", "remember",
              "send", "sending", "clear", "delete"},
        tok : 0..MaxTokens, attempt : {1, 2}, calls : 0..MaxCalls]]

\* Threads that find the token missing or stale together do not each ask the broker
\* for one: no two stored tokens are good at once (kis_readonly.py:178-180).
OneLiveToken == Cardinality({k \in Tokens : token[k] = "good"}) <= 1

\* A thread that throws away a token the broker refused never throws away the newer
\* one another thread has stored meanwhile: a good token is in the row
\* (kis_readonly.py:140-156).
LiveTokenIsStored == \A k \in Tokens : token[k] = "good" => row = k

\* Every call returns: no thread waits for the database while it keeps another from
\* the start lock the holder of the database needs.
CallsReturn == \A t \in Threads : ~Pc(t, "ready") ~> Pc(t, "ready")
=============================================================================
