----------------------------- MODULE QuoteCache -----------------------------
(***************************************************************************)
(* The quote cache and the live dry run of api.py: registered locks that    *)
(* exist only while somebody uses them, one fetch at a time per client and  *)
(* symbol, a bounded cache, and one receipt per dry-run key.  The client is *)
(* built at first use with no lock, so that there may be several of them.   *)
(* The provider is what KISClient promises: each call returns a quote or    *)
(* the unavailable answer.                                                  *)
(***************************************************************************)
EXTENDS Naturals, FiniteSets, Sequences, SequencesExt

CONSTANTS
  Threads,     \* worker threads of the server
  NoThread,    \* a lock nobody holds, and a client nobody has built
  Symbols,     \* the symbols asked for
  PlanSymbol,  \* the symbol of the plan that is dry-run
  MaxEntries,  \* QUOTE_CACHE_MAX_ENTRIES
  MaxJobs      \* bound: requests per thread

\* What locks are registered under: (id(client), symbol), and (plan, user, dry_run_key) in a
\* registry of its own.  A client has the name of the thread that built it: a thread builds one
\* only if it has found none, and there is one ever after.
Dry == <<NoThread, PlanSymbol>>
QuoteKeys == Threads \X Symbols
Identities == QuoteKeys \cup {Dry}
SlotIds == 1..(2 * Cardinality(Threads))

ASSUME NoThreadAssumption == NoThread \notin Threads
ASSUME ThreadsAssumption == IsFiniteSet(Threads)
ASSUME SymbolsAssumption == PlanSymbol \in Symbols
ASSUME MaxEntriesAssumption == MaxEntries \in Nat \ {0}
ASSUME MaxJobsAssumption == MaxJobs \in Nat

VARIABLES
  client,    \* _default_kis_client: the client that the process uses now
  cache,     \* the keys of the entries, in insertion order
  registry,  \* per identity, its _LockSlot, 0 while there is none
  slot,      \* per slot object, its reference count and the holder of its lock
  live,      \* whether the plan is approved and its card not invalidated
  receipt,   \* the stored receipt of the dry-run key
  job        \* per thread, its request

vars == <<client, cache, registry, slot, live, receipt, job>>

NoReceipt == "no receipt"
Results == {"WOULD_SUBMIT", "WOULD_WAIT", "WOULD_REJECT"}
NoJob(n) == [pc |-> "idle", dry |-> FALSE, sym |-> PlanSymbol, client |-> NoThread,
             slots |-> <<>>, ok |-> FALSE, reply |-> NoReceipt, jobs |-> n]

JobAt(t, pc) == job[t].pc = pc
Job(t, j) == job' = [job EXCEPT ![t] = j]
JobTo(t, pc) == Job(t, [job[t] EXCEPT !.pc = pc])
EndJob(t, reply) == Job(t, [NoJob(job[t].jobs) EXCEPT !.reply = reply])

-----------------------------------------------------------------------------
(* _registered_lock: enter under the guard, wait for the lock, release it,   *)
(* leave under the guard.  A thread holds its slots in a stack.              *)

UnusedSlot == CHOOSE i \in SlotIds :
  slot[i].refs = 0 /\ \A id \in Identities : registry[id] # i
Counted(refs) == refs + 1
Join(t, id, pc) ==
  LET i == IF registry[id] = 0 THEN UnusedSlot ELSE registry[id] IN
  /\ registry' = [registry EXCEPT ![id] = i]
  /\ slot' = [slot EXCEPT ![i].refs = Counted(@)]
  /\ Job(t, [job[t] EXCEPT !.pc = pc, !.slots = <<[id |-> id, at |-> i]>> \o @])

Mine(t) == Head(job[t].slots)
Acquire(t) ==
  /\ slot[Mine(t).at].holder = NoThread
  /\ slot' = [slot EXCEPT ![Mine(t).at].holder = t]
  /\ UNCHANGED registry
FreedOnSuccess(t) == IF job[t].ok THEN NoThread ELSE t      \* mutant: no finally
Freed(t) == NoThread
Release(t, pc) ==
  /\ slot' = [slot EXCEPT ![Mine(t).at].holder = Freed(t)]
  /\ JobTo(t, pc) /\ UNCHANGED registry

DropsAlways(i) == TRUE          \* mutant: the slot goes with its first user
NeverDrops(i) == FALSE          \* mutant: every seen key is retained
Drops(i) == slot[i].refs = 1
Leave(t, j) ==
  LET i == Mine(t).at IN
  /\ registry' = IF Drops(i) /\ registry[Mine(t).id] = i
                 THEN [registry EXCEPT ![Mine(t).id] = 0] ELSE registry
  /\ slot' = [slot EXCEPT ![i].refs = @ - 1]
  /\ Job(t, [j EXCEPT !.slots = Tail(@)])

-----------------------------------------------------------------------------
(* The cache *)

Key(j) == <<j.client, j.sym>>

Hit(key) == key \in Range(cache)
Without(key) == SelectSeq(cache, LAMBDA e : e # key)

\* _cache_get_validated: a hit whose quote no longer passes (its time lies ahead of the
\* server's, or is over five minutes old, after the clock was set) is deleted.
LookedUp(key, passes) == cache' = IF passes THEN cache ELSE Without(key)

Evicted(c) == SubSeq(c, Max({1, Len(c) - MaxEntries + 2}), Len(c))
Stored(key) == Append(Evicted(cache), key)

\* _quote_provider: the global is looked at, filled if it is None, and read again.
Provide(t) ==
  /\ JobAt(t, "provide")
  /\ Job(t, IF client = NoThread THEN [job[t] EXCEPT !.pc = "build"]
             ELSE [job[t] EXCEPT !.pc = "get", !.client = client])
  /\ UNCHANGED <<client, cache, registry, slot, live, receipt>>

Build(t) ==
  /\ JobAt(t, "build") /\ client' = t /\ JobTo(t, "provide")
  /\ UNCHANGED <<cache, registry, slot, live, receipt>>

\* _cached_kis_quote: the first lookup, the lookup under the lock, the fetch.  A hit that
\* does not pass is answered "unavailable", without a fetch.
Lookup(t) ==
  /\ JobAt(t, "get")
  /\ \E passes \in BOOLEAN :
       /\ LookedUp(Key(job[t]), passes)
       /\ IF ~Hit(Key(job[t])) THEN JobTo(t, "join")
          ELSE IF job[t].dry THEN Job(t, [job[t] EXCEPT !.pc = "got", !.ok = passes])
          ELSE EndJob(t, NoReceipt)
  /\ UNCHANGED <<client, registry, slot, live, receipt>>

JoinQuote(t) ==
  /\ JobAt(t, "join") /\ Join(t, Key(job[t]), "wait")
  /\ UNCHANGED <<client, cache, live, receipt>>

Recheck(t) ==
  /\ JobAt(t, "wait") /\ Acquire(t)
  /\ \E passes \in BOOLEAN :
       /\ LookedUp(Key(job[t]), passes)
       /\ Job(t, IF Hit(Key(job[t])) THEN [job[t] EXCEPT !.pc = "release", !.ok = passes]
                  ELSE [job[t] EXCEPT !.pc = "fetch"])
  /\ UNCHANGED <<client, live, receipt>>

Fetch(t) ==
  /\ JobAt(t, "fetch")
  /\ \E ok \in BOOLEAN :
       /\ cache' = IF ok THEN Stored(Key(job[t])) ELSE cache
       /\ Job(t, [job[t] EXCEPT !.pc = "release", !.ok = ok])
  /\ UNCHANGED <<client, registry, slot, live, receipt>>

UnlockQuote(t) ==
  /\ \/ JobAt(t, "release") /\ Release(t, "leave")
     \/ JobAt(t, "leave")
        /\ Leave(t, IF job[t].dry THEN [job[t] EXCEPT !.pc = "got"]
                    ELSE [NoJob(job[t].jobs) EXCEPT !.slots = job[t].slots])
  /\ UNCHANGED <<client, cache, live, receipt>>

-----------------------------------------------------------------------------
(* Requests: a quote, or a live dry run of the plan *)

AskQuote(t) ==
  /\ JobAt(t, "idle") /\ job[t].jobs > 0
  /\ \E s \in Symbols : Job(t, [NoJob(job[t].jobs - 1) EXCEPT !.pc = "provide", !.sym = s])
  /\ UNCHANGED <<client, cache, registry, slot, live, receipt>>

\* The plan is read here and not again.
AskDryRun(t) ==
  /\ JobAt(t, "idle") /\ job[t].jobs > 0 /\ live
  /\ Job(t, [NoJob(job[t].jobs - 1) EXCEPT !.pc = "seek", !.dry = TRUE])
  /\ UNCHANGED <<client, cache, registry, slot, live, receipt>>

\* existing_live_dry_run_receipt before the lock, and again under it
SeekReceipt(t) ==
  /\ JobAt(t, "seek")
  /\ IF receipt # NoReceipt THEN EndJob(t, receipt) ELSE JobTo(t, "dryJoin")
  /\ UNCHANGED <<client, cache, registry, slot, live, receipt>>

JoinDry(t) ==
  /\ JobAt(t, "dryJoin") /\ Join(t, Dry, "dryWait")
  /\ UNCHANGED <<client, cache, live, receipt>>

SeekAgain(t) ==
  /\ JobAt(t, "dryWait") /\ Acquire(t)
  /\ Job(t, [job[t] EXCEPT !.pc = IF receipt # NoReceipt THEN "dryRelease" ELSE "provide",
                           !.reply = receipt])
  /\ UNCHANGED <<client, cache, live, receipt>>

\* evaluate_live_dry_run: clock, window, price cap and remaining limits are left open.
Outcomes(ok) ==
  IF ~live THEN {"WOULD_REJECT"}
  ELSE IF ok THEN Results ELSE {"WOULD_WAIT", "WOULD_REJECT"}

InsertedUnlessWaiting(old, new) == IF new = "WOULD_WAIT" THEN old ELSE new      \* mutant
Inserted(old, new) == IF old # NoReceipt THEN old ELSE new
Persist(t) ==
  /\ JobAt(t, "got")
  /\ \E result \in Outcomes(job[t].ok) :
       /\ receipt' = Inserted(receipt, result)
       /\ Job(t, [job[t] EXCEPT !.pc = "dryRelease", !.reply = IF receipt = NoReceipt THEN result ELSE receipt])
  /\ UNCHANGED <<client, cache, registry, slot, live>>

UnlockDry(t) ==
  /\ \/ JobAt(t, "dryRelease") /\ Release(t, "dryLeave")
     \/ JobAt(t, "dryLeave")
        /\ Leave(t, [NoJob(job[t].jobs) EXCEPT !.slots = job[t].slots, !.reply = job[t].reply])
  /\ UNCHANGED <<client, cache, live, receipt>>

Work(t) ==
  \/ Provide(t) \/ Build(t) \/ Lookup(t) \/ JoinQuote(t) \/ Recheck(t) \/ Fetch(t) \/ UnlockQuote(t)
  \/ SeekReceipt(t) \/ JoinDry(t) \/ SeekAgain(t) \/ Persist(t) \/ UnlockDry(t)

\* Time, and the other requests on the plan and its card.
\* Every lookup and store purges what is past its TTL first, so that such an entry is gone.
EntryAges == \E key \in Range(cache) :
  /\ cache' = Without(key)
  /\ UNCHANGED <<client, registry, slot, live, receipt, job>>

\* The card is invalidated, and its plans with it.  A plan that ends without its card refuses
\* dry runs, as if nobody asked for one.
PlanEnds ==
  /\ live /\ live' = FALSE
  /\ UNCHANGED <<client, cache, registry, slot, receipt, job>>

Init ==
  /\ client = NoThread
  /\ cache = <<>>
  /\ registry = [id \in Identities |-> 0]
  /\ slot = [i \in SlotIds |-> [refs |-> 0, holder |-> NoThread]]
  /\ live = TRUE
  /\ receipt = NoReceipt
  /\ job = [t \in Threads |-> NoJob(MaxJobs)]

Next ==
  \/ \E t \in Threads : AskQuote(t) \/ AskDryRun(t) \/ Work(t)
  \/ EntryAges \/ PlanEnds

Spec == Init /\ [][Next]_vars

\* Every thread is scheduled, the provider returns (CallsReturn of KISClient), and the
\* threads make finitely many requests here.
FairSpec == Spec /\ \A t \in Threads : WF_vars(Work(t))

-----------------------------------------------------------------------------
(* Properties *)

Using(t, id) == \E i \in DOMAIN job[t].slots : job[t].slots[i].id = id

\* t runs the code that the lock of id protects: the fetch by a client of a symbol, and from the
\* second look for a receipt to the insert of one.
Inside(t, id) ==
  \/ id = Key(job[t]) /\ job[t].pc \in {"fetch", "release"}
  \/ id = Dry /\ \/ job[t].pc \in {"got", "dryRelease"}
                 \/ job[t].dry /\ job[t].pc \in {"provide", "build", "get", "join", "wait", "fetch", "release", "leave"}

\* Simultaneous misses of a symbol by one client, and simultaneous dry runs of a key, pass
\* the critical section one at a time although lock objects come and go (api.py:186-205).
\* Threads that met no client at first use may each have built one (api.py:379-381), and
\* two clients do fetch one symbol at a time: the key holds the client.
SingleFlight ==
  \A id \in Identities : Cardinality({t \in Threads : Inside(t, id)}) <= 1

\* "Registry entries count their holder and queued waiters, and disappear after the
\* last exit" (api.py:160).
RegistryMatchesUsers ==
  \A id \in Identities :
    IF registry[id] = 0 THEN \A t \in Threads : ~Using(t, id)
    ELSE slot[registry[id]].refs = Cardinality({t \in Threads : Using(t, id)})
         /\ \E t \in Threads : Using(t, id)

\* Whatever threads, refusals and evaluations did in between, every dry run of the
\* key was answered with the one receipt that is stored.
RepliesAreTheReceipt ==
  \A t \in Threads : job[t].dry = FALSE /\ job[t].reply # NoReceipt => job[t].reply = receipt

\* Every request is answered: the dry-run lock and the quote lock are never waited
\* for in a circle, and no wait is forgotten.
RequestsReturn == \A t \in Threads : ~JobAt(t, "idle") ~> JobAt(t, "idle")
=============================================================================
