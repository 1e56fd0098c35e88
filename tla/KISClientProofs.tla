-------------------------- MODULE KISClientProofs --------------------------
(***************************************************************************)
(* Proofs about KISClient, for any number of threads, tokens and calls.     *)
(*                                                                         *)
(* That a live token is the stored one is not inductive alone: the thread   *)
(* that asks the broker must hold the database (HolderWrites) and have seen *)
(* that nothing usable is stored (RefillIsNeeded), the token a thread is    *)
(* about to delete must be one the broker refused (RefusedIsDead), and the  *)
(* broker must not issue under a number somebody holds (HeldIsIssued).      *)
(***************************************************************************)
EXTENDS KISClient, FiniteSetTheorems, TLAPS

HolderWrites ==
  \A t \in Threads : call[t].pc \in {"row", "oauth", "issuing"} => writer = t
RefillIsNeeded ==
  \A t \in Threads : call[t].pc \in {"oauth", "issuing"} => ~Fresh(row)
HeldIsIssued ==
  /\ mem # 0 => token[mem] # "unissued"
  /\ row # 0 => token[row] # "unissued"
  /\ \A t \in Threads : call[t].tok # 0 => token[call[t].tok] # "unissued"
RefusedIsDead ==
  \A t \in Threads : call[t].pc \in {"clear", "delete"} => Refusable(call[t].tok)

TokenInv == HolderWrites /\ RefillIsNeeded /\ HeldIsIssued /\ RefusedIsDead /\ LiveTokenIsStored
KInv == TypeOK /\ TokenInv

-----------------------------------------------------------------------------
Pcs == {"ready", "memory", "take", "begin", "row", "oauth", "issuing", "remember",
        "send", "sending", "clear", "delete"}

(* A step that puts a token in a thread's hands touches no other thread. *)
LEMMA Handed ==
  ASSUME TypeOK, NEW t \in Threads, NEW pc \in Pcs, NEW k \in 0..MaxTokens, With(t, pc, k)
  PROVE  /\ call' \in [Threads -> [pc : Pcs, tok : 0..MaxTokens, attempt : {1, 2},
                                   calls : 0..MaxCalls]]
         /\ call'[t].pc = pc /\ call'[t].tok = k
         /\ \A u \in Threads : u # t => call'[u] = call[u]
<1> DEFINE c == [pc |-> pc, tok |-> k, attempt |-> call[t].attempt, calls |-> call[t].calls]
<1>1. /\ call \in [Threads -> [pc : Pcs, tok : 0..MaxTokens, attempt : {1, 2},
                               calls : 0..MaxCalls]]
      /\ call[t] \in [pc : Pcs, tok : 0..MaxTokens, attempt : {1, 2}, calls : 0..MaxCalls]
  BY DEF TypeOK, Pcs
<1>2. c = [call[t] EXCEPT !.pc = pc, !.tok = k]
  <2> DEFINE at == [call[t] EXCEPT !.pc = pc]
  <2>1. /\ at \in [pc : Pcs, tok : 0..MaxTokens, attempt : {1, 2}, calls : 0..MaxCalls]
        /\ at.pc = pc /\ at.attempt = call[t].attempt /\ at.calls = call[t].calls
    BY <1>1
  <2> HIDE DEF at
  <2>2. c = [at EXCEPT !.tok = k]
    BY <2>1
  <2> QED BY <2>2 DEF at
<1>3. call' = [call EXCEPT ![t] = c]
  BY <1>2 DEF With, Go
<1>4. c \in [pc : Pcs, tok : 0..MaxTokens, attempt : {1, 2}, calls : 0..MaxCalls]
  BY <1>1
<1> QED BY <1>1, <1>3, <1>4

LEMMA InitTypes == Init => TypeOK
  BY NoThreadAssumption, MaxTokensAssumption, MaxCallsAssumption
     DEF Init, TypeOK, Ready, Tokens

LEMMA StepTypes == TypeOK /\ [Next]_vars => TypeOK'
<1> SUFFICES ASSUME TypeOK, [Next]_vars PROVE TypeOK'
  OBVIOUS
<1> USE NoThreadAssumption, MaxTokensAssumption, MaxCallsAssumption
<1>1. ASSUME NEW t \in Threads, Call(t) PROVE TypeOK'
  BY <1>1 DEF TypeOK, Call, Pc, Go, Ready
<1>2. ASSUME NEW t \in Threads, CheckMemory(t) PROVE TypeOK'
  BY <1>2 DEF TypeOK, CheckMemory, Pc, To, Go
<1>3. ASSUME NEW t \in Threads, TakeMemory(t) PROVE TypeOK'
  <2>1. With(t, "send", mem) /\ mem \in 0..MaxTokens /\ "send" \in Pcs
        /\ UNCHANGED <<mem, row, token, writer, wire>>
    BY <1>3 DEF TakeMemory, TypeOK, Pcs
  <2>2. call' \in [Threads -> [pc : Pcs, tok : 0..MaxTokens, attempt : {1, 2},
                               calls : 0..MaxCalls]]
    BY <2>1, Handed
  <2> QED BY <2>1, <2>2 DEF TypeOK, Pcs
<1>4. ASSUME NEW t \in Threads, BeginImmediate(t) PROVE TypeOK'
  BY <1>4 DEF TypeOK, BeginImmediate, Pc, To, Go, Return, Ready
<1>5. ASSUME NEW t \in Threads, ReadRow(t) PROVE TypeOK'
  <2>1. CASE Fresh(row)
    <3>1. With(t, "remember", row) /\ writer' = NoThread /\ UNCHANGED <<mem, row, token, wire>>
      BY <1>5, <2>1 DEF ReadRow
    <3> QED BY <3>1, Handed DEF TypeOK, Pcs
  <2>2. CASE ~Fresh(row)
    BY <1>5, <2>2 DEF TypeOK, ReadRow, To, Go
  <2> QED BY <2>1, <2>2
<1>6. ASSUME NEW t \in Threads, StartOAuth(t) PROVE TypeOK'
  BY <1>6 DEF TypeOK, StartOAuth, Pc, To, Go
<1>7. ASSUME NEW t \in Threads, EndOAuth(t) PROVE TypeOK'
  <2>1. wire' = NoThread /\ writer' = NoThread /\ mem' = mem
    BY <1>7 DEF EndOAuth, Unwired
  <2>2. ASSUME NEW k \in Tokens, token' = [token EXCEPT ![k] = "good"], row' = k,
               With(t, "remember", k)
        PROVE  TypeOK'
    <3>1. "remember" \in Pcs /\ k \in 0..MaxTokens
      BY DEF Pcs, Tokens
    <3>2. call' \in [Threads -> [pc : Pcs, tok : 0..MaxTokens, attempt : {1, 2},
                                 calls : 0..MaxCalls]]
      BY <2>2, <3>1, Handed
    <3>3. token' \in [Tokens -> {"unissued", "good", "old", "revoked", "lost"}]
      BY <2>2 DEF TypeOK
    <3> QED BY <2>1, <2>2, <3>1, <3>2, <3>3 DEF TypeOK, Pcs
  <2>3. ASSUME NEW k \in Tokens, token' = [token EXCEPT ![k] = "lost"], row' = row,
               Return(t)
        PROVE  TypeOK'
    BY <2>1, <2>3 DEF TypeOK, Return, Go, Ready, Tokens
  <2>4. ASSUME Return(t), token' = token, row' = row PROVE TypeOK'
    BY <2>1, <2>4 DEF TypeOK, Return, Go, Ready
  <2> QED BY <1>7, <2>2, <2>3, <2>4 DEF EndOAuth
<1>8. ASSUME NEW t \in Threads, Remember(t) PROVE TypeOK'
  BY <1>8 DEF TypeOK, Remember, Pc, To, Go
<1>9. ASSUME NEW t \in Threads, StartQuote(t) PROVE TypeOK'
  BY <1>9 DEF TypeOK, StartQuote, Pc, To, Go
<1>10. ASSUME NEW t \in Threads, EndQuote(t) PROVE TypeOK'
  BY <1>10 DEF TypeOK, EndQuote, Pc, To, Go, Return, Ready, Unwired
<1>11. ASSUME NEW t \in Threads, ClearToken(t) PROVE TypeOK'
  BY <1>11 DEF TypeOK, ClearToken, Pc, To, Go
<1>12. ASSUME NEW t \in Threads, InvalidateRow(t) PROVE TypeOK'
  <2>1. Without(call[t].tok) \in 0..MaxTokens
    BY DEF TypeOK, Without
  <2>2. ~Last(call[t].attempt) => call[t].attempt + 1 \in {1, 2}
    BY DEF TypeOK, Last
  <2>3. mem' = mem /\ token' = token /\ writer' = writer /\ wire' = wire
        /\ row' \in 0..MaxTokens
    BY <1>12, <2>1 DEF InvalidateRow, TypeOK
  <2>4. ASSUME Return(t) PROVE TypeOK'
    BY <2>3, <2>4 DEF TypeOK, Return, Go, Ready
  <2>5. ASSUME ~Last(call[t].attempt),
               Go(t, [call[t] EXCEPT !.pc = "memory", !.attempt = @ + 1])
        PROVE  TypeOK'
    <3> DEFINE at == [call[t] EXCEPT !.pc = "memory"]
               again == [at EXCEPT !.attempt = call[t].attempt + 1]
               Calls == [pc : Pcs, tok : 0..MaxTokens, attempt : {1, 2}, calls : 0..MaxCalls]
    <3>1. call \in [Threads -> Calls] /\ "memory" \in Pcs
      BY DEF TypeOK, Pcs
    <3>2. at \in Calls
      BY <3>1
    <3>3. again \in Calls
      BY <2>2, <2>5, <3>2
    <3>4. call' = [call EXCEPT ![t] = again]
      BY <2>5 DEF Go
    <3> HIDE DEF again
    <3>5. call' \in [Threads -> Calls]
      BY <3>1, <3>3, <3>4
    <3> QED BY <2>3, <3>5 DEF TypeOK, Pcs
  <2> QED BY <1>12, <2>4, <2>5 DEF InvalidateRow
<1>13. ASSUME TokenEnds PROVE TypeOK'
  BY <1>13 DEF TypeOK, TokenEnds
<1>14. CASE UNCHANGED vars
  BY <1>14 DEF TypeOK, vars
<1> QED
  BY <1>1, <1>2, <1>3, <1>4, <1>5, <1>6, <1>7, <1>8, <1>9, <1>10, <1>11, <1>12, <1>13,
     <1>14 DEF Next, Step

\* Every token anybody holds has the broker's number, the row and the call of each
\* thread keep theirs (KISReadOnlyClient._token_value).
THEOREM ClientTypes == Spec => []TypeOK
  BY InitTypes, StepTypes, PTL DEF Spec

-----------------------------------------------------------------------------
\* Nothing becomes fresh or alive but by the reply of an OAuth request.
LEMMA StepKeeps == KInv /\ [Next]_vars => TokenInv'
<1> SUFFICES ASSUME KInv, [Next]_vars PROVE TokenInv'
  OBVIOUS
<1>t. TypeOK /\ TypeOK'
  BY StepTypes DEF KInv
<1> USE MaxTokensAssumption, NoThreadAssumption
<1> USE <1>t DEF KInv, TokenInv, TypeOK, Tokens
<1>1. ASSUME NEW t \in Threads, Call(t) PROVE TokenInv'
  BY <1>1 DEF Call, Pc, Go, Ready, HolderWrites, RefillIsNeeded, HeldIsIssued,
     RefusedIsDead, LiveTokenIsStored, Fresh, Refusable
<1>2. ASSUME NEW t \in Threads, CheckMemory(t) PROVE TokenInv'
  <2>1. CASE Fresh(mem)
    <3>1. /\ mem' = mem /\ call' = [call EXCEPT ![t] = [call[t] EXCEPT !.pc = "take"]]
          /\ row' = row /\ token' = token /\ writer' = writer
      BY <1>2, <2>1 DEF CheckMemory, To, Go
    <3> QED
      BY <3>1 DEF HolderWrites, RefillIsNeeded, HeldIsIssued,
         RefusedIsDead, LiveTokenIsStored, Fresh, Refusable
  <2>2. CASE ~Fresh(mem)
    <3>1. /\ mem' = 0 /\ call' = [call EXCEPT ![t] = [call[t] EXCEPT !.pc = "begin"]]
          /\ row' = row /\ token' = token /\ writer' = writer
      BY <1>2, <2>2 DEF CheckMemory, To, Go
    <3> QED
      BY <3>1 DEF HolderWrites, RefillIsNeeded, HeldIsIssued,
         RefusedIsDead, LiveTokenIsStored, Fresh, Refusable
  <2> QED BY <2>1, <2>2
<1>3. ASSUME NEW t \in Threads, TakeMemory(t) PROVE TokenInv'
  BY <1>3 DEF TakeMemory, Pc, With, Go, HolderWrites, RefillIsNeeded, HeldIsIssued,
     RefusedIsDead, LiveTokenIsStored, Fresh, Refusable
<1>4. ASSUME NEW t \in Threads, BeginImmediate(t) PROVE TokenInv'
  <2>1. CASE MayWrite(t) /\ writer' = t /\ To(t, "row")
    BY <1>4, <2>1 DEF BeginImmediate, MayWrite, To, Go, HolderWrites, RefillIsNeeded,
       HeldIsIssued, RefusedIsDead, LiveTokenIsStored, Fresh, Refusable
  <2>2. CASE Return(t) /\ UNCHANGED writer
    BY <1>4, <2>2 DEF BeginImmediate, Return, Go, Ready, HolderWrites, RefillIsNeeded,
       HeldIsIssued, RefusedIsDead, LiveTokenIsStored, Fresh, Refusable
  <2> QED BY <1>4, <2>1, <2>2 DEF BeginImmediate
<1>5. ASSUME NEW t \in Threads, ReadRow(t) PROVE TokenInv'
  <2>1. writer = t /\ row' = row /\ mem' = mem /\ token' = token
    BY <1>5 DEF ReadRow, Pc, HolderWrites
  <2>2. CASE Fresh(row) /\ With(t, "remember", row)
    BY <2>1, <2>2 DEF With, Go, HolderWrites, RefillIsNeeded,
       HeldIsIssued, RefusedIsDead, LiveTokenIsStored, Fresh, Refusable
  <2>3. CASE ~Fresh(row) /\ To(t, "oauth") /\ writer' = writer
    BY <2>1, <2>3 DEF To, Go, HolderWrites, RefillIsNeeded,
       HeldIsIssued, RefusedIsDead, LiveTokenIsStored, Fresh, Refusable
  <2> QED BY <1>5, <2>2, <2>3 DEF ReadRow
<1>6. ASSUME NEW t \in Threads, StartOAuth(t) PROVE TokenInv'
  BY <1>6 DEF StartOAuth, Pc, To, Go, HolderWrites, RefillIsNeeded, HeldIsIssued,
     RefusedIsDead, LiveTokenIsStored, Fresh, Refusable
<1>7. ASSUME NEW t \in Threads, EndOAuth(t) PROVE TokenInv'
  <2>0. /\ writer = t /\ ~Fresh(row)
        /\ \A u \in Threads : u # t =>
             call[u].pc \notin {"row", "oauth", "issuing"} /\ call'[u] = call[u]
    BY <1>7 DEF EndOAuth, Pc, With, Go, Return, HolderWrites, RefillIsNeeded
  <2>1. \A j \in Tokens : token[j] # "good"
    BY <2>0 DEF LiveTokenIsStored, Fresh
  <2>2. ASSUME NEW k \in Tokens, token[k] = "unissued",
               token' = [token EXCEPT ![k] = "good"], row' = k, With(t, "remember", k),
               mem' = mem
        PROVE  TokenInv'
    BY <2>0, <2>1, <2>2 DEF With, Go, HolderWrites, RefillIsNeeded, HeldIsIssued,
       RefusedIsDead, LiveTokenIsStored, Refusable
  <2>3. ASSUME NEW k \in Tokens, token[k] = "unissued",
               token' = [token EXCEPT ![k] = "lost"], row' = row, Return(t), mem' = mem
        PROVE  TokenInv'
    BY <2>0, <2>1, <2>3 DEF Return, Go, Ready, HolderWrites, RefillIsNeeded, HeldIsIssued,
       RefusedIsDead, LiveTokenIsStored, Refusable
  <2>4. ASSUME token' = token, row' = row, Return(t), mem' = mem
        PROVE  TokenInv'
    BY <2>0, <2>1, <2>4 DEF Return, Go, Ready, HolderWrites, RefillIsNeeded, HeldIsIssued,
       RefusedIsDead, LiveTokenIsStored, Refusable
  <2> QED BY <1>7, <2>2, <2>3, <2>4 DEF EndOAuth
<1>8. ASSUME NEW t \in Threads, Remember(t) PROVE TokenInv'
  BY <1>8 DEF Remember, Pc, To, Go, HolderWrites, RefillIsNeeded, HeldIsIssued,
     RefusedIsDead, LiveTokenIsStored, Fresh, Refusable
<1>9. ASSUME NEW t \in Threads, StartQuote(t) PROVE TokenInv'
  BY <1>9 DEF StartQuote, Pc, To, Go, HolderWrites, RefillIsNeeded, HeldIsIssued,
     RefusedIsDead, LiveTokenIsStored, Fresh, Refusable
<1>10. ASSUME NEW t \in Threads, EndQuote(t) PROVE TokenInv'
  <2>1. CASE Return(t)
    BY <1>10, <2>1 DEF EndQuote, Return, Go, Ready, HolderWrites, RefillIsNeeded,
       HeldIsIssued, RefusedIsDead, LiveTokenIsStored, Fresh, Refusable
  <2>2. CASE Refusable(call[t].tok) /\ To(t, "clear")
    BY <1>10, <2>2 DEF EndQuote, To, Go, HolderWrites, RefillIsNeeded,
       HeldIsIssued, RefusedIsDead, LiveTokenIsStored, Fresh, Refusable
  <2> QED BY <1>10, <2>1, <2>2 DEF EndQuote
<1>11. ASSUME NEW t \in Threads, ClearToken(t) PROVE TokenInv'
  BY <1>11 DEF ClearToken, Pc, To, Go, HolderWrites, RefillIsNeeded, HeldIsIssued,
     RefusedIsDead, LiveTokenIsStored, Fresh, Refusable
<1>12. ASSUME NEW t \in Threads, InvalidateRow(t) PROVE TokenInv'
  <2>1. /\ \A k \in Tokens : token[k] = "good" => row' = k
        /\ row' \in {0, row}
    BY <1>12 DEF InvalidateRow, Pc, Without, LiveTokenIsStored, RefusedIsDead, Refusable
  <2>2. mem' = mem /\ token' = token /\ writer' = writer
    BY <1>12 DEF InvalidateRow
  <2>3. \A u \in Threads : u # t => call'[u] = call[u]
    BY <1>12 DEF InvalidateRow, Go, Return
  <2>4. /\ call'[t].pc \in {"ready", "memory"}
        /\ call'[t].tok \in {0, call[t].tok}
    <3>1. CASE Return(t)
      BY <3>1 DEF Return, Go, Ready
    <3>2. CASE Go(t, [call[t] EXCEPT !.pc = "memory", !.attempt = @ + 1])
      BY <3>2 DEF Go
    <3> QED BY <1>12, <3>1, <3>2 DEF InvalidateRow
  <2> QED
    BY <2>1, <2>2, <2>3, <2>4 DEF HolderWrites, RefillIsNeeded,
       HeldIsIssued, RefusedIsDead, LiveTokenIsStored, Fresh, Refusable
<1>13. ASSUME TokenEnds PROVE TokenInv'
  BY <1>13 DEF TokenEnds, HolderWrites, RefillIsNeeded, HeldIsIssued,
     RefusedIsDead, LiveTokenIsStored, Fresh, Refusable
<1>14. CASE UNCHANGED vars
  BY <1>14 DEF vars, HolderWrites, RefillIsNeeded, HeldIsIssued,
     RefusedIsDead, LiveTokenIsStored, Fresh, Refusable
<1> QED
  BY <1>1, <1>2, <1>3, <1>4, <1>5, <1>6, <1>7, <1>8, <1>9, <1>10, <1>11, <1>12, <1>13,
     <1>14 DEF Next, Step

LEMMA ClientInvariance == Spec => []KInv
<1>1. Init => KInv
  BY InitTypes DEF KInv, TokenInv, Init, Ready, Tokens, HolderWrites, RefillIsNeeded,
     HeldIsIssued, RefusedIsDead, LiveTokenIsStored
<1>2. KInv /\ [Next]_vars => KInv'
  BY StepTypes, StepKeeps DEF KInv
<1> QED BY <1>1, <1>2, PTL DEF Spec

\* A good token is the stored one: what _invalidate_cached_token deletes is never a
\* token another thread has stored meanwhile (kis_readonly.py:140-156).
THEOREM LiveTokenStaysStored == Spec => []LiveTokenIsStored
  BY ClientInvariance, PTL DEF KInv, TokenInv

\* Threads that miss the token together do not each ask for one: BEGIN IMMEDIATE spans
\* the second look and the OAuth request (kis_readonly.py:178-211).
THEOREM TokenIsShared == Spec => []OneLiveToken
<1>1. KInv => OneLiveToken
  <2> SUFFICES ASSUME KInv PROVE OneLiveToken
    OBVIOUS
  <2> DEFINE live == {k \in Tokens : token[k] = "good"}
  <2>1. live \subseteq {row}
    BY DEF KInv, TokenInv, LiveTokenIsStored
  <2>2. IsFiniteSet({row}) /\ Cardinality({row}) = 1
    BY FS_Singleton
  <2>3. Cardinality(live) <= Cardinality({row})
    BY <2>1, <2>2, FS_Subset
  <2> QED BY <2>2, <2>3 DEF OneLiveToken
<1> QED BY ClientInvariance, <1>1, PTL
=============================================================================
