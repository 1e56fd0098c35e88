-------------------------- MODULE QuoteCacheProofs --------------------------
(***************************************************************************)
(* Proofs about QuoteCache, for any number of threads, symbols and requests.*)
(*                                                                         *)
(* Lock objects come and go, so that a lock excludes anybody must be shown  *)
(* of identities: a request's pc tells which identities it uses and which   *)
(* it holds, its stack is what the registry has for those it uses (Proper), *)
(* a registered slot counts the users of one identity (Registered,          *)
(* SlotsApart), and its lock is with the thread inside (HeldInside).  That   *)
(* a joining thread finds an unused slot is a pigeonhole argument           *)
(* (SlotLeft).  Steps are sorted by what they do to the locks (Plain,       *)
(* Enters, Takes, Gives, Quits), and the invariant is proved of each kind.  *)
(***************************************************************************)
EXTENDS QuoteCache, FiniteSetTheorems, SequenceTheorems, TLAPS

\* The types, with the records named.
Pcs == {"idle", "provide", "build", "get", "join", "wait", "fetch", "release", "leave",
        "seek", "dryJoin", "dryWait", "got", "dryRelease", "dryLeave"}
Locks == [id : Identities, at : SlotIds]
Jobs == [pc : Pcs, dry : BOOLEAN, sym : Symbols, client : Threads \cup {NoThread},
         slots : Seq(Locks), ok : BOOLEAN, reply : Results \cup {NoReceipt}, jobs : Nat]
Types == /\ client \in Threads \cup {NoThread}
         /\ registry \in [Identities -> SlotIds \cup {0}]
         /\ slot \in [SlotIds -> [refs : Nat, holder : Threads \cup {NoThread}]]
         /\ receipt \in Results \cup {NoReceipt}
         /\ job \in [Threads -> Jobs]

\* What a request uses, and which locks it holds, told by its pc.
AtQuote(j) == j.pc \in {"wait", "fetch", "release", "leave"}
AtDry(j) ==
  \/ j.pc \in {"dryWait", "got", "dryRelease", "dryLeave"}
  \/ j.dry /\ j.pc \in {"provide", "build", "get", "join", "wait", "fetch", "release", "leave"}
Uses(j, id) == (AtQuote(j) /\ id = Key(j)) \/ (AtDry(j) /\ id = Dry)
Holds(j, id) ==
  \/ id = Key(j) /\ j.pc \in {"fetch", "release"}
  \/ id = Dry /\ \/ j.pc \in {"got", "dryRelease"}
                 \/ j.dry /\ j.pc \in {"provide", "build", "get", "join", "wait", "fetch", "release", "leave"}
Users(id) == {t \in Threads : Uses(job[t], id)}

\* The stack of a request is the registered slots of what it uses.
Lock(reg, id) == [id |-> id, at |-> reg[id]]
StackOf(j, reg) ==
  IF AtQuote(j) THEN IF AtDry(j) THEN <<Lock(reg, Key(j)), Lock(reg, Dry)>>
                                 ELSE <<Lock(reg, Key(j))>>
  ELSE IF AtDry(j) THEN <<Lock(reg, Dry)>> ELSE <<>>
Proper(j, reg, stored) ==
  /\ j.slots = StackOf(j, reg)
  /\ j.pc \in {"seek", "dryJoin", "dryWait"} => j.dry
  /\ j.pc \in {"get", "join"} \/ AtQuote(j) => j.client \in Threads
  /\ j.reply # NoReceipt => j.reply = stored
RequestInv == \A t \in Threads : Proper(job[t], registry, receipt)

\* One slot per identity, counting its users; its lock is with the one that holds it.
SlotsApart ==
  \A a, b \in Identities : registry[a] # 0 /\ registry[a] = registry[b] => a = b
Registered ==
  \A id \in Identities :
    IF registry[id] = 0 THEN Users(id) = {}
    ELSE Users(id) # {} /\ slot[registry[id]].refs = Cardinality(Users(id))
HeldInside ==
  \A id \in Identities, t \in Threads :
    Holds(job[t], id) <=> registry[id] # 0 /\ slot[registry[id]].holder = t
RestUnused ==
  \A i \in SlotIds : (\A id \in Identities : registry[id] # i) =>
    slot[i].refs = 0 /\ slot[i].holder = NoThread

QInv == Types /\ RequestInv /\ SlotsApart /\ Registered /\ HeldInside /\ RestUnused
-----------------------------------------------------------------------------
(* Stacks of at most two locks, and the lock that is always left.            *)

LEMMA Stacks ==
  /\ \A a : Head(<<a>>) = a /\ Tail(<<a>>) = <<>> /\ <<a>> \o <<>> = <<a>>
  /\ \A a, b : Head(<<a, b>>) = a /\ Tail(<<a, b>>) = <<b>> /\ <<a>> \o <<b>> = <<a, b>>
<1>1. ASSUME NEW a PROVE Head(<<a>>) = a /\ Tail(<<a>>) = <<>>
  OBVIOUS
<1>2. ASSUME NEW a PROVE <<a>> \o <<>> = <<a>>
  OBVIOUS
<1>3. ASSUME NEW a, NEW b PROVE Head(<<a, b>>) = a /\ Tail(<<a, b>>) = <<b>> 
  OBVIOUS
<1>4. ASSUME NEW a, NEW b PROVE <<a>> \o <<b>> = <<a, b>>
  <2>1. <<a>> \in Seq({a, b}) /\ <<b>> \in Seq({a, b}) /\ <<a, b>> \in Seq({a, b})
    OBVIOUS
  <2>2. Len(<<a>>) = 1 /\ Len(<<b>>) = 1 /\ Len(<<a,b>>) = 2
    OBVIOUS
  <2>3. Len(<<a>> \o <<b>>) = 2 /\ <<a>> \o <<b>> \in Seq({a,b})
    BY <2>1, <2>2
  <2>4. (<<a>> \o <<b>>)[1] = a /\ (<<a>> \o <<b>>)[2] = b
    BY <2>1, <2>2
  <2> DEFINE s == <<a>> \o <<b>>
             u == <<a, b>>
  <2>5. \A i \in 1..Len(s) : s[i] = u[i]
    BY <2>3, <2>4
  <2>6. s \in Seq({a, b}) /\ u \in Seq({a, b}) /\ Len(s) = Len(u)
    BY <2>1, <2>2, <2>3
  <2>7. s = u
    <3> HIDE DEF s, u
    <3> QED BY <2>5, <2>6, SeqEqual
  <2> QED BY <2>7
<1> QED BY <1>1, <1>2, <1>3, <1>4

LEMMA ThreadCount ==
  /\ Cardinality(Threads) \in Nat /\ SlotIds \subseteq Nat \ {0} /\ IsFiniteSet(SlotIds)
  /\ Cardinality(SlotIds) = 2 * Cardinality(Threads)
<1>1. Cardinality(Threads) \in Nat
  BY ThreadsAssumption, FS_CardinalityType
<1>2. IsFiniteSet(1..(2 * Cardinality(Threads)))
      /\ Cardinality(1..(2 * Cardinality(Threads))) = 2 * Cardinality(Threads)
  <2>1. \A n \in Nat : IsFiniteSet(1..n) /\ Cardinality(1..n) = n
    BY FS_Interval
  <2>2. 2 * Cardinality(Threads) \in Nat
    BY <1>1
  <2> QED BY <2>1, <2>2
<1> QED BY <1>1, <1>2 DEF SlotIds

\* A thread that asks for a quote's lock finds an unused slot: every registered slot has a user,
\* and the other locks in use are at most one quote and one dry run per thread.
LEMMA SlotLeft ==
  ASSUME Types, Registered, RestUnused, NEW t \in Threads, ~AtQuote(job[t])
  PROVE  /\ UnusedSlot \in SlotIds /\ slot[UnusedSlot].refs = 0
         /\ \A id \in Identities : registry[id] # UnusedSlot
<1> DEFINE P == (Threads \X {1, 2}) \ {<<t, 1>>}
           Ident(p) == IF p[2] = 1 THEN Key(job[p[1]]) ELSE Dry
           Taken(i) == \E id \in Identities : registry[id] = i
<1>1. IsFiniteSet(P) /\ Cardinality(P) < Cardinality(SlotIds)
  <2>1. IsFiniteSet({1, 2}) /\ Cardinality({1, 2}) = 2
    <3>1. {1, 2} = 1..2 /\ 1 \in Int /\ 2 \in Int
      OBVIOUS
    <3>2. IsFiniteSet(1..2) /\ Cardinality(1..2) = IF 1 > 2 THEN 0 ELSE 2 - 1 + 1
      BY <3>1, FS_Interval
    <3> QED BY <3>1, <3>2
  <2>2. IsFiniteSet(Threads \X {1, 2}) /\ Cardinality(Threads \X {1, 2}) = Cardinality(Threads) * 2
    BY <2>1, ThreadsAssumption, FS_Product
  <2>3. <<t, 1>> \in Threads \X {1, 2}
    OBVIOUS
  <2>4. IsFiniteSet(P) /\ Cardinality(P) = Cardinality(Threads \X {1, 2}) - 1
    <3> DEFINE Pairs == Threads \X {1, 2}
    <3> HIDE DEF Pairs
    <3>1. IsFiniteSet(Pairs) /\ <<t, 1>> \in Pairs
      BY <2>2, <2>3 DEF Pairs
    <3>2. IsFiniteSet(Pairs \ {<<t, 1>>}) /\ Cardinality(Pairs \ {<<t, 1>>}) = Cardinality(Pairs) - 1
      BY <3>1, FS_RemoveElement
    <3> QED BY <3>2 DEF Pairs
  <2> HIDE DEF P
  <2> QED BY <2>2, <2>4, ThreadCount
<1>2. ASSUME NEW i \in SlotIds, Taken(i) PROVE \E p \in P : registry[Ident(p)] = i
  <2>1. PICK id \in Identities : registry[id] = i /\ i # 0
    BY <1>2, ThreadCount
  <2>2. PICK u \in Threads : Uses(job[u], id)
    BY <2>1 DEF Registered, Users
  <2>3. CASE AtQuote(job[u]) /\ id = Key(job[u])
    <3>1. <<u, 1>> \in P /\ Ident(<<u, 1>>) = id
      BY <2>3
    <3> QED BY <2>1, <3>1
  <2>4. CASE AtDry(job[u]) /\ id = Dry
    <3>1. <<u, 2>> \in P /\ Ident(<<u, 2>>) = id
      BY <2>4
    <3> QED BY <2>1, <3>1
  <2> QED BY <2>2, <2>3, <2>4 DEF Uses
<1>3. \E i \in SlotIds : ~Taken(i)
  <2> SUFFICES ASSUME \A i \in SlotIds : Taken(i) PROVE FALSE
    OBVIOUS
  <2> DEFINE f == [i \in SlotIds |-> CHOOSE p \in P : registry[Ident(p)] = i]
  <2>1. \A i \in SlotIds : f[i] \in P /\ registry[Ident(f[i])] = i
    BY <1>2
  <2>2. f \in [SlotIds -> P]
    BY <2>1
  <2>3. IsFiniteSet(SlotIds)
    BY ThreadCount
  <2> HIDE DEF f, P, Ident
  <2>4. \E i, k \in SlotIds : i # k /\ f[i] = f[k]
    BY <1>1, <2>2, <2>3, FS_PigeonHole
  <2> QED BY <2>1, <2>4
<1> QED BY <1>3 DEF UnusedSlot, RestUnused

-----------------------------------------------------------------------------
(* What a step does to the locks, seen from one identity.                    *)

Keeps(t, s) ==
  \A x \in Identities : (Uses(s, x) <=> Uses(job[t], x)) /\ (Holds(s, x) <=> Holds(job[t], x))
Plain(t, s) == UNCHANGED <<registry, slot>> /\ Keeps(t, s)

Enters(t, s) == \E id \in Identities, i \in SlotIds :
  /\ ~Uses(job[t], id)
  /\ \A x \in Identities : /\ Uses(s, x) <=> Uses(job[t], x) \/ x = id
                           /\ Holds(s, x) <=> Holds(job[t], x)
  /\ registry[id] = i \/ (registry[id] = 0 /\ \A x \in Identities : registry[x] # i)
  /\ registry' = [registry EXCEPT ![id] = i]
  /\ slot' = [slot EXCEPT ![i].refs = @ + 1]

Takes(t, s) == \E id \in Identities :
  /\ Uses(job[t], id) /\ slot[registry[id]].holder = NoThread
  /\ \A x \in Identities : /\ Uses(s, x) <=> Uses(job[t], x)
                           /\ Holds(s, x) <=> Holds(job[t], x) \/ x = id
  /\ registry' = registry
  /\ slot' = [slot EXCEPT ![registry[id]].holder = t]

Gives(t, s) == \E id \in Identities :
  /\ Uses(job[t], id) /\ Holds(job[t], id)
  /\ \A x \in Identities : /\ Uses(s, x) <=> Uses(job[t], x)
                           /\ Holds(s, x) <=> Holds(job[t], x) /\ x # id
  /\ registry' = registry
  /\ slot' = [slot EXCEPT ![registry[id]].holder = NoThread]

Quits(t, s) == \E id \in Identities :
  /\ Uses(job[t], id) /\ ~Holds(job[t], id)
  /\ \A x \in Identities : /\ Uses(s, x) <=> Uses(job[t], x) /\ x # id
                           /\ Holds(s, x) <=> Holds(job[t], x)
  /\ registry' = IF slot[registry[id]].refs = 1 THEN [registry EXCEPT ![id] = 0] ELSE registry
  /\ slot' = [slot EXCEPT ![registry[id]].refs = @ - 1]

Stores ==
  /\ client' \in Threads \cup {NoThread}
  /\ receipt' \in Results \cup {NoReceipt} /\ (receipt = NoReceipt \/ receipt' = receipt)
RequestStep(t) == \E s \in Jobs :
  /\ job' = [job EXCEPT ![t] = s] /\ Proper(s, registry', receipt') /\ Stores
  /\ Plain(t, s) \/ Enters(t, s) \/ Takes(t, s) \/ Gives(t, s) \/ Quits(t, s)

\* A used identity is registered.
LEMMA UsedIsRegistered ==
  ASSUME Types, Registered, NEW t \in Threads, NEW id \in Identities, Uses(job[t], id)
  PROVE  registry[id] \in SlotIds /\ Lock(registry, id) \in Locks
<1>1. registry[id] # 0
  BY DEF Registered, Users
<1> QED BY <1>1 DEF Types, Lock, Locks

LEMMA DryIsApart == Dry \in Identities /\ \A y \in QuoteKeys : y \in Identities /\ y # Dry
  BY NoThreadAssumption DEF Identities, QuoteKeys, Dry

LEMMA KeyIsQuoteKey ==
  ASSUME NEW k \in Jobs PROVE k.client \in Threads <=> Key(k) \in QuoteKeys
<1>1. k.sym \in Symbols /\ Key(k) = <<k.client, k.sym>>
  BY DEF Jobs, Key
<1> QED BY <1>1 DEF QuoteKeys

LEMMA Endings ==
  ASSUME NEW n \in Nat PROVE NoJob(n) \in Jobs
<1>1. <<>> \in Seq(Locks)
  OBVIOUS
<1> QED BY <1>1, SymbolsAssumption DEF NoJob, Jobs, Pcs

LEMMA AskSteps ==
  ASSUME Types, RequestInv, NEW t \in Threads, AskQuote(t) \/ AskDryRun(t)
  PROVE  RequestStep(t)
<1> USE DEF JobAt, Job, Proper, StackOf, AtQuote, AtDry, Uses, Holds
<1>1. job[t] \in Jobs /\ job[t].jobs \in Nat /\ Proper(job[t], registry, receipt)
  BY DEF Types, RequestInv, Jobs
<1>2. CASE AskQuote(t)
  <2>1. PICK y \in Symbols :
          job' = [job EXCEPT ![t] = [NoJob(job[t].jobs - 1) EXCEPT !.pc = "provide", !.sym = y]]
    BY <1>2 DEF AskQuote
  <2> DEFINE s == [NoJob(job[t].jobs - 1) EXCEPT !.pc = "provide", !.sym = y]
  <2>1a. job[t].jobs > 0
    BY <1>2 DEF AskQuote
  <2>2. job[t].jobs - 1 \in Nat
    <3> HIDE DEF JobAt, Job, Proper, StackOf
    <3> QED BY <1>1, <2>1a
  <2>3. s \in Jobs /\ s.pc = "provide" /\ ~s.dry /\ s.slots = <<>> /\ s.reply = NoReceipt
    BY <2>2, Endings DEF NoJob, Jobs, Pcs
  <2> HIDE DEF s
  <2>4. Plain(t, s)
    BY <1>2, <2>3 DEF AskQuote, Plain, Keeps
  <2> QED BY <1>2, <2>1, <2>3, <2>4 DEF AskQuote, RequestStep, Stores, Types, s
<1>3. CASE AskDryRun(t)
  <2> DEFINE s == [NoJob(job[t].jobs - 1) EXCEPT !.pc = "seek", !.dry = TRUE]
  <2>1a. job[t].jobs > 0
    BY <1>3 DEF AskDryRun
  <2>2. job[t].jobs - 1 \in Nat
    <3> HIDE DEF JobAt, Job, Proper, StackOf
    <3> QED BY <1>1, <2>1a
  <2>3. s \in Jobs /\ s.pc = "seek" /\ s.dry /\ s.slots = <<>> /\ s.reply = NoReceipt
    BY <2>2, Endings DEF NoJob, Jobs, Pcs
  <2>5. job' = [job EXCEPT ![t] = s]
    BY <1>3 DEF AskDryRun
  <2> HIDE DEF s
  <2>4. Plain(t, s)
    BY <1>3, <2>3 DEF AskDryRun, Plain, Keeps
  <2> QED BY <1>3, <2>5, <2>3, <2>4 DEF AskDryRun, RequestStep, Stores, Types
<1> QED BY <1>2, <1>3

\* The steps that touch no lock.
LEMMA PlainSteps ==
  ASSUME Types, RequestInv, NEW t \in Threads,
         Provide(t) \/ Build(t) \/ Lookup(t) \/ Fetch(t) \/ SeekReceipt(t) \/ Persist(t)
  PROVE  RequestStep(t)
<1> USE DEF JobAt, Job, JobTo, Proper, StackOf, AtQuote, AtDry, Uses, Holds
<1> DEFINE j == job[t]
<1>1. j \in Jobs /\ Proper(j, registry, receipt) /\ j.jobs \in Nat
  BY DEF Types, RequestInv, Jobs
<1>2. ASSUME NEW reply \in Results \cup {NoReceipt}
      PROVE  LET s == [NoJob(j.jobs) EXCEPT !.reply = reply]
             IN  /\ s \in Jobs /\ s.pc = "idle" /\ ~s.dry /\ s.slots = <<>> /\ s.reply = reply
                 /\ EndJob(t, reply) => job' = [job EXCEPT ![t] = s]
  <2>1. NoJob(j.jobs) \in Jobs
    BY <1>1, Endings
  <2> QED BY <1>2, <2>1 DEF NoJob, Jobs, EndJob
<1>3. CASE Lookup(t)
  <2>1. UNCHANGED <<client, registry, slot, receipt>> /\ j.pc = "get"
    BY <1>3 DEF Lookup
  <2>a. PICK passes \in BOOLEAN :
          \/ JobTo(t, "join")
          \/ j.dry /\ Job(t, [j EXCEPT !.pc = "got", !.ok = passes])
          \/ ~j.dry /\ EndJob(t, NoReceipt)
    BY <1>3 DEF Lookup
  <2>2. CASE JobTo(t, "join")
    <3> DEFINE s == [j EXCEPT !.pc = "join"]
    <3>1. s \in Jobs /\ s.pc = "join" /\ s.dry = j.dry /\ s.sym = j.sym
          /\ s.client = j.client /\ Key(s) = Key(j) /\ s.slots = j.slots /\ s.reply = j.reply
      BY <1>1 DEF Jobs, Pcs, Key
    <3>2. job' = [job EXCEPT ![t] = s]
      BY <2>2
    <3> HIDE DEF s
    <3> QED BY <1>1, <2>1, <3>1, <3>2 DEF Plain, Keeps, RequestStep, Stores, Types, Lock
  <2>3. CASE j.dry /\ Job(t, [j EXCEPT !.pc = "got", !.ok = passes])
    <3> DEFINE s == [j EXCEPT !.pc = "got", !.ok = passes]
    <3>1. s \in Jobs /\ s.pc = "got" /\ s.dry = j.dry /\ s.sym = j.sym
          /\ s.client = j.client /\ Key(s) = Key(j) /\ s.slots = j.slots /\ s.reply = j.reply
      BY <1>1 DEF Jobs, Pcs, Key
    <3>2. job' = [job EXCEPT ![t] = s]
      BY <2>3
    <3> HIDE DEF s
    <3> QED BY <1>1, <2>1, <2>3, <3>1, <3>2 DEF Plain, Keeps, RequestStep, Stores, Types, Lock
  <2>4. CASE ~j.dry /\ EndJob(t, NoReceipt)
    <3> DEFINE s == [NoJob(j.jobs) EXCEPT !.reply = NoReceipt]
    <3>1. s \in Jobs /\ s.pc = "idle" /\ ~s.dry /\ s.slots = <<>> /\ s.reply = NoReceipt
          /\ job' = [job EXCEPT ![t] = s]
      BY <1>2, <2>4
    <3> HIDE DEF s
    <3> QED BY <1>1, <2>1, <2>4, <3>1 DEF Plain, Keeps, RequestStep, Stores, Types
  <2> QED BY <2>a, <2>2, <2>3, <2>4
<1>4. CASE Fetch(t)
  <2>1. PICK ok \in BOOLEAN : Job(t, [j EXCEPT !.pc = "release", !.ok = ok])
    BY <1>4 DEF Fetch
  <2> DEFINE s == [j EXCEPT !.pc = "release", !.ok = ok]
  <2>2. s \in Jobs /\ s.pc = "release" /\ s.dry = j.dry /\ s.sym = j.sym
        /\ s.client = j.client /\ Key(s) = Key(j) /\ s.slots = j.slots /\ s.reply = j.reply
    BY <1>1 DEF Jobs, Pcs, Key
  <2>3. job' = [job EXCEPT ![t] = s] /\ UNCHANGED <<client, registry, slot, receipt>> /\ j.pc = "fetch"
    BY <1>4, <2>1 DEF Fetch
  <2> HIDE DEF s
  <2> QED BY <1>1, <2>2, <2>3 DEF Plain, Keeps, RequestStep, Stores, Types, Lock
<1>5. CASE SeekReceipt(t)
  <2>1. UNCHANGED <<client, registry, slot, receipt>> /\ j.pc = "seek"
    BY <1>5 DEF SeekReceipt
  <2>2. CASE EndJob(t, receipt)
    <3> DEFINE s == [NoJob(j.jobs) EXCEPT !.reply = receipt]
    <3>1. s \in Jobs /\ s.pc = "idle" /\ ~s.dry /\ s.slots = <<>> /\ s.reply = receipt
          /\ job' = [job EXCEPT ![t] = s]
      BY <1>2, <2>2 DEF Types
    <3> HIDE DEF s
    <3> QED BY <1>1, <2>1, <3>1 DEF Plain, Keeps, RequestStep, Stores, Types
  <2>3. CASE JobTo(t, "dryJoin")
    <3> DEFINE s == [j EXCEPT !.pc = "dryJoin"]
    <3>1. s \in Jobs /\ s.pc = "dryJoin" /\ s.dry = j.dry /\ s.sym = j.sym
          /\ s.client = j.client /\ Key(s) = Key(j) /\ s.slots = j.slots /\ s.reply = j.reply
      BY <1>1 DEF Jobs, Pcs, Key
    <3>2. job' = [job EXCEPT ![t] = s]
      BY <2>3
    <3> HIDE DEF s
    <3> QED BY <1>1, <2>1, <3>1, <3>2 DEF Plain, Keeps, RequestStep, Stores, Types, Lock
  <2> QED BY <1>5, <2>2, <2>3 DEF SeekReceipt
<1>6. CASE Persist(t)
  <2>1. PICK result \in Outcomes(j.ok) :
          /\ receipt' = Inserted(receipt, result)
          /\ Job(t, [j EXCEPT !.pc = "dryRelease",
                              !.reply = IF receipt = NoReceipt THEN result ELSE receipt])
    BY <1>6 DEF Persist
  <2> DEFINE reply == IF receipt = NoReceipt THEN result ELSE receipt
             s == [j EXCEPT !.pc = "dryRelease", !.reply = reply]
  <2>2. result \in Results /\ reply \in Results /\ receipt' = reply
    BY <2>1 DEF Outcomes, Results, Types, Inserted, NoReceipt
  <2>3. s \in Jobs /\ s.pc = "dryRelease" /\ s.dry = j.dry /\ s.sym = j.sym
        /\ s.client = j.client /\ Key(s) = Key(j) /\ s.slots = j.slots /\ s.reply = reply
    BY <1>1, <2>2 DEF Jobs, Pcs, Key
  <2>4. job' = [job EXCEPT ![t] = s] /\ UNCHANGED <<registry, slot>> /\ j.pc = "got"
    BY <1>6, <2>1 DEF Persist
  <2>5. Stores
    BY <1>6, <2>2 DEF Persist, Stores, Types
  <2> HIDE DEF s
  <2> QED BY <1>1, <2>2, <2>3, <2>4, <2>5 DEF Plain, Keeps, RequestStep, Lock
<1>7. CASE Provide(t)
  <2>1. UNCHANGED <<client, registry, slot, receipt>> /\ j.pc = "provide"
    BY <1>7 DEF Provide
  <2>2. CASE client = NoThread /\ Job(t, [j EXCEPT !.pc = "build"])
    <3> DEFINE s == [j EXCEPT !.pc = "build"]
    <3>1. s \in Jobs /\ s.pc = "build" /\ s.dry = j.dry /\ s.slots = j.slots /\ s.reply = j.reply
      BY <1>1 DEF Jobs, Pcs
    <3>2. job' = [job EXCEPT ![t] = s]
      BY <2>2
    <3> HIDE DEF s
    <3> QED BY <1>1, <2>1, <3>1, <3>2 DEF Plain, Keeps, RequestStep, Stores, Types, Lock
  <2>3. CASE client # NoThread /\ Job(t, [j EXCEPT !.pc = "get", !.client = client])
    <3> DEFINE s == [j EXCEPT !.pc = "get", !.client = client]
    <3>1. s \in Jobs /\ s.pc = "get" /\ s.client \in Threads /\ s.dry = j.dry
          /\ s.slots = j.slots /\ s.reply = j.reply
      BY <1>1, <2>3 DEF Jobs, Pcs, Types
    <3>2. job' = [job EXCEPT ![t] = s]
      BY <2>3
    <3> HIDE DEF s
    <3> QED BY <1>1, <2>1, <3>1, <3>2 DEF Plain, Keeps, RequestStep, Stores, Types, Lock
  <2> QED BY <1>7, <2>2, <2>3 DEF Provide
<1>8. CASE Build(t)
  <2> DEFINE s == [j EXCEPT !.pc = "provide"]
  <2>1. UNCHANGED <<registry, slot, receipt>> /\ j.pc = "build" /\ client' = t
        /\ job' = [job EXCEPT ![t] = s]
    BY <1>8 DEF Build
  <2>2. s \in Jobs /\ s.pc = "provide" /\ s.dry = j.dry /\ s.slots = j.slots /\ s.reply = j.reply
    BY <1>1 DEF Jobs, Pcs
  <2> HIDE DEF s
  <2> QED BY <1>1, <2>1, <2>2 DEF Plain, Keeps, RequestStep, Stores, Types, Lock
<1> QED BY <1>3, <1>4, <1>5, <1>6, <1>7, <1>8

\* Entering a lock: its slot is the registered one or an unused one.
Joined(t, id, i, pc) ==
  /\ registry[id] = i \/ (registry[id] = 0 /\ \A x \in Identities : registry[x] # i)
  /\ registry' = [registry EXCEPT ![id] = i]
  /\ slot' = [slot EXCEPT ![i].refs = @ + 1]
  /\ job' = [job EXCEPT ![t] = [job[t] EXCEPT !.pc = pc, !.slots = <<[id |-> id, at |-> i]>> \o @]]

LEMMA JoinEnters ==
  ASSUME Types, Registered, RestUnused, NEW t \in Threads, ~AtQuote(job[t]),
         NEW id \in Identities, NEW pc, Join(t, id, pc)
  PROVE  \E i \in SlotIds : Joined(t, id, i, pc)
<1> DEFINE i == IF registry[id] = 0 THEN UnusedSlot ELSE registry[id]
<1>1. i \in SlotIds
      /\ (registry[id] = i \/ (registry[id] = 0 /\ \A x \in Identities : registry[x] # i))
  BY SlotLeft DEF Types
<1>2. /\ registry' = [registry EXCEPT ![id] = i]
      /\ slot' = [slot EXCEPT ![i].refs = @ + 1]
      /\ job' = [job EXCEPT ![t] = [job[t] EXCEPT !.pc = pc,
                                      !.slots = <<[id |-> id, at |-> i]>> \o @]]
  BY DEF Join, Job, Counted
<1>3. Joined(t, id, i, pc)
  BY <1>1, <1>2 DEF Joined
<1> HIDE DEF i
<1> QED BY <1>1, <1>3

LEMMA JoinSteps ==
  ASSUME Types, RequestInv, Registered, RestUnused, NEW t \in Threads, JoinQuote(t) \/ JoinDry(t)
  PROVE  RequestStep(t)
<1> DEFINE j == job[t]
<1>1. /\ j \in Jobs /\ Proper(j, registry, receipt) /\ client \in Threads \cup {NoThread}
      /\ j.pc \in {"get", "join"} \/ AtQuote(j) => Key(j) \in QuoteKeys
  BY KeyIsQuoteKey DEF Types, RequestInv, Proper
<1>2. Dry \in Identities /\ \A y \in QuoteKeys : y \in Identities /\ y # Dry
  BY DryIsApart
<1>3. CASE JoinQuote(t)
  <2>1. j.pc = "join" /\ Join(t, Key(j), "wait") /\ UNCHANGED <<client, receipt>>
    BY <1>3 DEF JoinQuote, JobAt
  <2>a. ~AtQuote(j) /\ Key(j) \in Identities /\ Key(j) # Dry
    BY <1>1, <1>2, <2>1 DEF AtQuote
  <2>b. PICK i \in SlotIds : Joined(t, Key(j), i, "wait")
    BY <2>1, <2>a, JoinEnters
  <2>2. /\ registry[Key(j)] = i \/ (registry[Key(j)] = 0 /\ \A x \in Identities : registry[x] # i)
        /\ registry' = [registry EXCEPT ![Key(j)] = i]
        /\ slot' = [slot EXCEPT ![i].refs = @ + 1]
        /\ job' = [job EXCEPT ![t] = [j EXCEPT !.pc = "wait",
                                        !.slots = <<[id |-> Key(j), at |-> i]>> \o @]]
    BY <2>b DEF Joined
  <2> DEFINE s == [j EXCEPT !.pc = "wait", !.slots = <<[id |-> Key(j), at |-> i]>> \o @]
  <2>3. j.slots = IF AtDry(j) THEN <<Lock(registry, Dry)>> ELSE <<>>
    BY <1>1, <2>1 DEF Proper, StackOf, AtQuote
  <2>4. j.slots \in Seq(Locks) /\ <<[id |-> Key(j), at |-> i]>> \in Seq(Locks)
    <3>1. [id |-> Key(j), at |-> i] \in Locks
      BY <2>a DEF Locks
    <3> QED BY <1>1, <3>1 DEF Jobs
  <2>5. <<[id |-> Key(j), at |-> i]>> \o j.slots \in Seq(Locks)
    BY <2>4, ConcatProperties
  <2>6. s \in Jobs /\ s.pc = "wait" /\ s.dry = j.dry /\ s.sym = j.sym
        /\ s.client = j.client /\ Key(s) = Key(j) /\ s.reply = j.reply
        /\ s.slots = <<[id |-> Key(j), at |-> i]>> \o j.slots
    BY <1>1, <2>5 DEF Jobs, Pcs, Key
  <2>7. job' = [job EXCEPT ![t] = s]
    BY <2>2
  <2> HIDE DEF s
  <2>8. Lock(registry', Key(j)) = [id |-> Key(s), at |-> i] /\ Lock(registry', Dry) = Lock(registry, Dry)
    BY <1>2, <2>2, <2>a, <2>6 DEF Lock, Types
  <2>9. Proper(s, registry', receipt')
    <3>1. AtQuote(s) /\ (AtDry(s) <=> AtDry(j))
      BY <2>1, <2>6 DEF AtQuote, AtDry
    <3>2. s.slots = IF AtDry(s) THEN <<[id |-> Key(s), at |-> i], Lock(registry, Dry)>> ELSE <<[id |-> Key(s), at |-> i]>>
      BY <2>3, <2>6, <3>1, Stacks
    <3>3. Lock(registry', Dry) = Lock(registry, Dry) /\ registry'[Key(s)] = i
      BY <1>2, <2>2, <2>a, <2>6, <2>8 DEF Types
    <3> QED BY <1>1, <2>1, <2>6, <3>1, <3>2, <3>3 DEF Proper, StackOf, Lock
  <2>10. Enters(t, s)
    <3>1. /\ ~Uses(j, Key(j))
          /\ \A x \in Identities : /\ Uses(s, x) <=> Uses(j, x) \/ x = Key(j)
                                   /\ Holds(s, x) <=> Holds(j, x)
      BY <2>1, <2>a, <2>6 DEF Uses, Holds, AtQuote, AtDry
    <3> QED BY <2>2, <2>a, <3>1 DEF Enters
  <2> QED BY <2>1, <2>6, <2>7, <2>9, <2>10 DEF RequestStep, Stores, Types
<1>4. CASE JoinDry(t)
  <2>1. j.pc = "dryJoin" /\ Join(t, Dry, "dryWait") /\ UNCHANGED <<client, receipt>>
    BY <1>4 DEF JoinDry, JobAt
  <2>a. ~AtQuote(j) /\ Dry \in Identities
    BY <1>1, <1>2, <2>1 DEF AtQuote
  <2>b. PICK i \in SlotIds : Joined(t, Dry, i, "dryWait")
    BY <2>1, <2>a, JoinEnters
  <2>2. /\ registry[Dry] = i \/ (registry[Dry] = 0 /\ \A x \in Identities : registry[x] # i)
        /\ registry' = [registry EXCEPT ![Dry] = i]
        /\ slot' = [slot EXCEPT ![i].refs = @ + 1]
        /\ job' = [job EXCEPT ![t] = [j EXCEPT !.pc = "dryWait",
                                        !.slots = <<[id |-> Dry, at |-> i]>> \o @]]
    BY <2>b DEF Joined
  <2> DEFINE s == [j EXCEPT !.pc = "dryWait", !.slots = <<[id |-> Dry, at |-> i]>> \o @]
  <2>3. j.slots = <<>> /\ j.dry
    BY <1>1, <2>1 DEF Proper, StackOf, AtQuote, AtDry
  <2>4. [id |-> Dry, at |-> i] \in Locks
    BY <1>2 DEF Locks
  <2>5. <<[id |-> Dry, at |-> i]>> \in Seq(Locks) /\ <<[id |-> Dry, at |-> i]>> \o j.slots = <<[id |-> Dry, at |-> i]>>
    BY <2>3, <2>4, Stacks
  <2>6. s \in Jobs /\ s.pc = "dryWait" /\ s.dry = j.dry /\ s.sym = j.sym
        /\ s.client = j.client /\ Key(s) = Key(j) /\ s.reply = j.reply
        /\ s.slots = <<[id |-> Dry, at |-> i]>>
    BY <1>1, <2>5 DEF Jobs, Pcs, Key
  <2>7. job' = [job EXCEPT ![t] = s]
    BY <2>2
  <2> HIDE DEF s
  <2>9. Proper(s, registry', receipt')
    <3>1. registry'[Dry] = i
      BY <1>2, <2>2 DEF Types
    <3>2. AtDry(s) /\ ~AtQuote(s) /\ s.dry
      BY <2>3, <2>6 DEF AtQuote, AtDry
    <3> QED BY <1>1, <2>1, <2>6, <3>1, <3>2 DEF Proper, StackOf, Lock
  <2>10. Enters(t, s)
    <3>1. /\ ~Uses(j, Dry)
          /\ \A x \in Identities : /\ Uses(s, x) <=> Uses(j, x) \/ x = Dry
                                   /\ Holds(s, x) <=> Holds(j, x)
      BY <1>1, <1>2, <2>1, <2>6 DEF Uses, Holds, AtQuote, AtDry
    <3> QED BY <1>2, <2>2, <3>1 DEF Enters
  <2> QED BY <2>1, <2>6, <2>7, <2>9, <2>10 DEF RequestStep, Stores, Types
<1> QED BY <1>3, <1>4

\* The lock a request is at is that of the quote, or else that of the dry run.
LEMMA TopOfStack ==
  ASSUME Types, RequestInv, NEW t \in Threads
  PROVE  /\ AtQuote(job[t]) =>
              /\ Mine(t) = Lock(registry, Key(job[t]))
              /\ Tail(job[t].slots) = IF AtDry(job[t]) THEN <<Lock(registry, Dry)>> ELSE <<>>
         /\ AtDry(job[t]) /\ ~AtQuote(job[t]) =>
              Mine(t) = Lock(registry, Dry) /\ Tail(job[t].slots) = <<>>
<1>1. job[t].slots = StackOf(job[t], registry) /\ Mine(t) = Head(job[t].slots)
  BY DEF RequestInv, Proper, Mine
<1>2. Head(<<Lock(registry, Dry)>>) = Lock(registry, Dry) /\ Tail(<<Lock(registry, Dry)>>) = <<>>
  BY Stacks
<1>3. CASE AtQuote(job[t])
  BY <1>1, <1>3, Stacks DEF StackOf
<1>4. CASE ~AtQuote(job[t])
  BY <1>1, <1>2, <1>4 DEF StackOf
<1> QED BY <1>3, <1>4

LEMMA AcquireSteps ==
  ASSUME Types, RequestInv, HeldInside, NEW t \in Threads, Recheck(t) \/ SeekAgain(t)
  PROVE  RequestStep(t)
<1> DEFINE j == job[t]
<1>1. /\ j \in Jobs /\ Proper(j, registry, receipt) /\ client \in Threads \cup {NoThread}
      /\ j.pc \in {"get", "join"} \/ AtQuote(j) => Key(j) \in QuoteKeys
  BY KeyIsQuoteKey DEF Types, RequestInv, Proper
<1>2. Dry \in Identities /\ \A y \in QuoteKeys : y \in Identities /\ y # Dry
  BY DryIsApart
<1>3. CASE Recheck(t)
  <2>1. j.pc = "wait" /\ Acquire(t) /\ UNCHANGED <<client, receipt>>
    BY <1>3 DEF Recheck, JobAt
  <2>a. Key(j) \in Identities /\ Key(j) # Dry
    BY <1>1, <1>2, <2>1 DEF AtQuote
  <2>2. Mine(t).at = registry[Key(j)]
    BY <2>1, TopOfStack DEF AtQuote, Lock
  <2>3. PICK ok \in BOOLEAN, pc \in {"release", "fetch"} :
          job' = [job EXCEPT ![t] = [j EXCEPT !.pc = pc, !.ok = ok]]
    <3>1. PICK passes \in BOOLEAN :
            job' = [job EXCEPT ![t] = IF Hit(Key(j)) THEN [j EXCEPT !.pc = "release", !.ok = passes]
                                      ELSE [j EXCEPT !.pc = "fetch"]]
      BY <1>3 DEF Recheck, Job
    <3>2. [j EXCEPT !.pc = "fetch"] = [j EXCEPT !.pc = "fetch", !.ok = j.ok] /\ j.ok \in BOOLEAN
      BY <1>1 DEF Jobs
    <3>3. CASE Hit(Key(j))
      BY <3>1, <3>3
    <3>4. CASE ~Hit(Key(j))
      BY <3>1, <3>2, <3>4
    <3> QED BY <3>3, <3>4
  <2> DEFINE s == [j EXCEPT !.pc = pc, !.ok = ok]
  <2>4. s \in Jobs /\ s.pc \in {"release", "fetch"} /\ s.dry = j.dry /\ s.sym = j.sym
        /\ s.client = j.client /\ Key(s) = Key(j)
        /\ s.slots = j.slots /\ s.reply = j.reply
    BY <1>1 DEF Jobs, Pcs, Key
  <2>5. job' = [job EXCEPT ![t] = s]
    BY <2>3
  <2> HIDE DEF s
  <2>6. registry' = registry /\ slot[registry[Key(j)]].holder = NoThread
        /\ slot' = [slot EXCEPT ![registry[Key(j)]].holder = t]
    BY <2>1, <2>2 DEF Acquire
  <2>7. Proper(s, registry', receipt')
    BY <1>1, <2>1, <2>4, <2>6 DEF Proper, StackOf, AtQuote, AtDry
  <2>8. Takes(t, s)
    <3>1. /\ Uses(j, Key(j))
          /\ \A x \in Identities : /\ Uses(s, x) <=> Uses(j, x)
                                   /\ Holds(s, x) <=> Holds(j, x) \/ x = Key(j)
      BY <2>1, <2>a, <2>4 DEF Uses, Holds, AtQuote, AtDry
    <3> QED BY <2>6, <2>a, <3>1 DEF Takes
  <2> QED BY <2>1, <2>4, <2>5, <2>7, <2>8 DEF RequestStep, Stores, Types
<1>4. CASE SeekAgain(t)
  <2>1. j.pc = "dryWait" /\ Acquire(t) /\ UNCHANGED <<client, receipt>>
    BY <1>4 DEF SeekAgain, JobAt
  <2>2. Mine(t).at = registry[Dry]
    BY <2>1, TopOfStack DEF AtQuote, AtDry, Lock
  <2> DEFINE s == [j EXCEPT !.pc = IF receipt # NoReceipt THEN "dryRelease" ELSE "provide",
                            !.reply = receipt]
  <2>3. s \in Jobs /\ s.pc \in {"dryRelease", "provide"} /\ s.dry = j.dry /\ s.sym = j.sym
        /\ s.client = j.client /\ Key(s) = Key(j)
        /\ s.slots = j.slots /\ s.reply = receipt
    BY <1>1 DEF Jobs, Pcs, Types, Key
  <2>4. job' = [job EXCEPT ![t] = s]
    BY <1>4 DEF SeekAgain, Job
  <2> HIDE DEF s
  <2>5. j.dry
    BY <1>1, <2>1 DEF Proper
  <2>6. registry' = registry /\ slot[registry[Dry]].holder = NoThread
        /\ slot' = [slot EXCEPT ![registry[Dry]].holder = t]
    BY <2>1, <2>2 DEF Acquire
  <2>7. Proper(s, registry', receipt')
    BY <1>1, <2>1, <2>3, <2>5, <2>6 DEF Proper, StackOf, AtQuote, AtDry
  <2>8. Takes(t, s)
    <3>1. /\ Uses(j, Dry)
          /\ \A x \in Identities : /\ Uses(s, x) <=> Uses(j, x)
                                   /\ Holds(s, x) <=> Holds(j, x) \/ x = Dry
      BY <1>1, <1>2, <2>1, <2>3, <2>5 DEF Uses, Holds, AtQuote, AtDry
    <3> QED BY <1>2, <2>6, <3>1 DEF Takes
  <2> QED BY <2>1, <2>3, <2>4, <2>7, <2>8 DEF RequestStep, Stores, Types
<1> QED BY <1>3, <1>4

LEMMA ReleaseSteps ==
  ASSUME Types, RequestInv, NEW t \in Threads,
         NEW at \in {"release", "dryRelease"}, JobAt(t, at),
         Release(t, IF at = "release" THEN "leave" ELSE "dryLeave"), UNCHANGED <<client, receipt>>
  PROVE  RequestStep(t)
<1> DEFINE j == job[t]
           id == IF at = "release" THEN Key(j) ELSE Dry
           s == [j EXCEPT !.pc = IF at = "release" THEN "leave" ELSE "dryLeave"]
<1>1. /\ j \in Jobs /\ Proper(j, registry, receipt) /\ j.pc = at
      /\ j.pc \in {"get", "join"} \/ AtQuote(j) => Key(j) \in QuoteKeys
  BY KeyIsQuoteKey DEF Types, RequestInv, Proper, JobAt
<1>2. Dry \in Identities /\ \A y \in QuoteKeys : y \in Identities /\ y # Dry
  BY DryIsApart
<1>3. Mine(t).at = registry[id]
  BY <1>1, TopOfStack DEF AtQuote, AtDry, Lock
<1>4. s \in Jobs /\ s.dry = j.dry /\ s.sym = j.sym
      /\ s.client = j.client /\ Key(s) = Key(j) /\ s.slots = j.slots /\ s.reply = j.reply
      /\ s.pc = IF at = "release" THEN "leave" ELSE "dryLeave"
  BY <1>1 DEF Jobs, Pcs, Key
<1>5. job' = [job EXCEPT ![t] = s] /\ registry' = registry
      /\ slot' = [slot EXCEPT ![registry[id]].holder = NoThread]
  BY <1>3 DEF Release, JobTo, Job, Freed
<1> HIDE DEF s
<1>6. Proper(s, registry', receipt')
  BY <1>1, <1>4, <1>5 DEF Proper, StackOf, AtQuote, AtDry
<1>7. Gives(t, s)
  <2>1. /\ Uses(j, id) /\ Holds(j, id)
        /\ \A x \in Identities : /\ Uses(s, x) <=> Uses(j, x)
                                 /\ Holds(s, x) <=> Holds(j, x) /\ x # id
    <3>1. CASE at = "release"
      <4>1. Key(j) # Dry
        BY <1>1, <1>2, <3>1 DEF AtQuote
      <4> QED BY <1>1, <1>4, <3>1, <4>1 DEF Uses, Holds, AtQuote, AtDry
    <3>2. CASE at = "dryRelease"
      BY <1>1, <1>4, <3>2 DEF Uses, Holds, AtQuote, AtDry
    <3> QED BY <3>1, <3>2
  <2>2. id \in Identities
    BY <1>1, <1>2 DEF AtQuote
  <2> HIDE DEF id
  <2> QED BY <1>5, <2>1, <2>2 DEF Gives
<1> QED BY <1>4, <1>5, <1>6, <1>7 DEF RequestStep, Stores, Types

Popped(k) == [k EXCEPT !.slots = Tail(@)]

\* Leaving a lock whose code the request has left.
LEMMA LeaveQuits ==
  ASSUME Types, NEW t \in Threads, NEW id \in Identities, Mine(t) = Lock(registry, id),
         Uses(job[t], id), ~Holds(job[t], id), NEW k \in Jobs, NEW s,
         s = Popped(k), Leave(t, k),
         \A x \in Identities : /\ Uses(s, x) <=> Uses(job[t], x) /\ x # id
                               /\ Holds(s, x) <=> Holds(job[t], x)
  PROVE  Quits(t, s) /\ job' = [job EXCEPT ![t] = s]
         /\ \A x \in Identities : x # id => registry'[x] = registry[x]
<1>1. Mine(t).at = registry[id] /\ Mine(t).id = id
  BY DEF Lock
<1>2. /\ registry' = IF slot[registry[id]].refs = 1 THEN [registry EXCEPT ![id] = 0] ELSE registry
      /\ slot' = [slot EXCEPT ![registry[id]].refs = @ - 1]
      /\ job' = [job EXCEPT ![t] = s]
  BY <1>1 DEF Leave, Drops, Job, Popped
<1> QED BY <1>2 DEF Quits, Types

LEMMA LeaveSteps ==
  ASSUME Types, RequestInv, NEW t \in Threads, UNCHANGED <<client, receipt>>,
         \/ /\ JobAt(t, "leave")
            /\ Leave(t, IF job[t].dry THEN [job[t] EXCEPT !.pc = "got"]
                        ELSE [NoJob(job[t].jobs) EXCEPT !.slots = job[t].slots])
         \/ /\ JobAt(t, "dryLeave")
            /\ Leave(t, [NoJob(job[t].jobs) EXCEPT !.slots = job[t].slots, !.reply = job[t].reply])
  PROVE  RequestStep(t)
<1> DEFINE j == job[t]
<1>1. /\ j \in Jobs /\ Proper(j, registry, receipt) /\ j.jobs \in Nat
      /\ j.slots \in Seq(Locks)
      /\ j.pc \in {"get", "join"} \/ AtQuote(j) => Key(j) \in QuoteKeys
  <2>1. /\ j \in Jobs /\ Proper(j, registry, receipt)
        /\ j.pc \in {"get", "join"} \/ AtQuote(j) => Key(j) \in QuoteKeys
    BY KeyIsQuoteKey DEF Types, RequestInv, Proper
  <2> QED BY <2>1 DEF Jobs
<1>2. Dry \in Identities /\ \A y \in QuoteKeys : y \in Identities /\ y # Dry
  BY DryIsApart
<1>3. NoJob(j.jobs) \in Jobs /\ NoJob(j.jobs).pc = "idle" /\ ~NoJob(j.jobs).dry
      /\ NoJob(j.jobs).reply = NoReceipt
  BY <1>1, Endings DEF NoJob
<1>4. j.slots # <<>> => Tail(j.slots) \in Seq(Locks)
  BY <1>1
<1>5. CASE JobAt(t, "leave") /\ j.dry /\ Leave(t, [j EXCEPT !.pc = "got"])
  <2> DEFINE k == [j EXCEPT !.pc = "got"]
             s == Popped(k)
  <2>a. Key(j) \in Identities /\ Key(j) # Dry
    BY <1>1, <1>2, <1>5 DEF AtQuote, JobAt
  <2>1. Mine(t) = Lock(registry, Key(j)) /\ Tail(j.slots) = <<Lock(registry, Dry)>> /\ j.slots # <<>>
    <3>1. AtQuote(j) /\ AtDry(j)
      BY <1>5 DEF AtQuote, AtDry, JobAt
    <3>2. j.slots # <<>>
      BY <1>1, <3>1 DEF Proper, StackOf
    <3> QED BY <3>1, <3>2, TopOfStack
  <2>2. k \in Jobs /\ k.pc = "got" /\ k.dry /\ k.slots = j.slots /\ k.reply = j.reply /\ k.sym = j.sym
        /\ k.client = j.client /\ Key(k) = Key(j)
    BY <1>1, <1>5 DEF Jobs, Pcs, Key
  <2> HIDE DEF k
  <2>3. s \in Jobs /\ s.pc = "got" /\ s.dry /\ s.slots = <<Lock(registry, Dry)>> /\ s.reply = j.reply
        /\ s.sym = j.sym /\ s.client = j.client /\ Key(s) = Key(j)
    BY <1>4, <2>1, <2>2 DEF Jobs, Popped, Key
  <2>4. /\ Uses(j, Key(j)) /\ ~Holds(j, Key(j))
        /\ \A x \in Identities : /\ Uses(s, x) <=> Uses(j, x) /\ x # Key(j)
                                 /\ Holds(s, x) <=> Holds(j, x)
    <3> HIDE DEF s
    <3> QED BY <1>1, <1>2, <1>5, <2>a, <2>3 DEF Uses, Holds, AtQuote, AtDry, JobAt
  <2>5. Quits(t, s) /\ job' = [job EXCEPT ![t] = s] /\ registry'[Dry] = registry[Dry]
    <3>1. s = Popped(k)
      OBVIOUS
    <3>2. Leave(t, k)
      BY <1>5 DEF k
    <3> HIDE DEF s
    <3> QED BY <1>2, <2>a, <2>1, <2>2, <2>4, <3>1, <3>2, LeaveQuits
  <2> HIDE DEF s
  <2>6. Proper(s, registry', receipt')
    <3>1. AtDry(s) /\ ~AtQuote(s)
      BY <2>3 DEF AtDry, AtQuote
    <3> QED BY <1>1, <2>3, <2>5, <3>1 DEF Proper, StackOf, Lock
  <2> QED BY <2>3, <2>5, <2>6 DEF RequestStep, Stores, Types
<1>6. CASE JobAt(t, "leave") /\ ~j.dry /\ Leave(t, [NoJob(j.jobs) EXCEPT !.slots = j.slots])
  <2> DEFINE k == [NoJob(j.jobs) EXCEPT !.slots = j.slots]
             s == Popped(k)
  <2>a. Key(j) \in Identities /\ Key(j) # Dry
    BY <1>1, <1>2, <1>6 DEF AtQuote, JobAt
  <2>1. Mine(t) = Lock(registry, Key(j)) /\ Tail(j.slots) = <<>> /\ j.slots # <<>>
    <3>1. AtQuote(j) /\ ~AtDry(j)
      BY <1>6 DEF AtQuote, AtDry, JobAt
    <3>2. j.slots # <<>>
      BY <1>1, <3>1 DEF Proper, StackOf
    <3> QED BY <3>1, <3>2, TopOfStack
  <2>2. k \in Jobs /\ k.pc = "idle" /\ ~k.dry /\ k.slots = j.slots /\ k.reply = NoReceipt
    BY <1>1, <1>3 DEF Jobs
  <2> HIDE DEF k
  <2>3. s \in Jobs /\ s.pc = "idle" /\ ~s.dry /\ s.slots = <<>> /\ s.reply = NoReceipt
    BY <1>4, <2>1, <2>2 DEF Jobs, Popped
  <2>4. /\ Uses(j, Key(j)) /\ ~Holds(j, Key(j))
        /\ \A x \in Identities : /\ Uses(s, x) <=> Uses(j, x) /\ x # Key(j)
                                 /\ Holds(s, x) <=> Holds(j, x)
    <3> HIDE DEF s
    <3> QED BY <1>1, <1>2, <1>6, <2>a, <2>3 DEF Uses, Holds, AtQuote, AtDry, JobAt
  <2>5. Quits(t, s) /\ job' = [job EXCEPT ![t] = s]
    <3>1. s = Popped(k)
      OBVIOUS
    <3>2. Leave(t, k)
      BY <1>6 DEF k
    <3> HIDE DEF s
    <3> QED BY <1>2, <2>a, <2>1, <2>2, <2>4, <3>1, <3>2, LeaveQuits
  <2> HIDE DEF s
  <2>6. Proper(s, registry', receipt')
    BY <2>3 DEF Proper, StackOf, AtQuote, AtDry
  <2> QED BY <2>3, <2>5, <2>6 DEF RequestStep, Stores, Types
<1>7. CASE JobAt(t, "dryLeave")
           /\ Leave(t, [NoJob(j.jobs) EXCEPT !.slots = j.slots, !.reply = j.reply])
  <2> DEFINE k == [NoJob(j.jobs) EXCEPT !.slots = j.slots, !.reply = j.reply]
             s == Popped(k)
  <2>1. Mine(t) = Lock(registry, Dry) /\ Tail(j.slots) = <<>> /\ j.slots # <<>>
    <3>1. AtDry(j) /\ ~AtQuote(j)
      BY <1>7 DEF AtQuote, AtDry, JobAt
    <3>2. j.slots # <<>>
      BY <1>1, <3>1 DEF Proper, StackOf
    <3> QED BY <3>1, <3>2, TopOfStack
  <2>2. k \in Jobs /\ k.pc = "idle" /\ ~k.dry /\ k.slots = j.slots /\ k.reply = j.reply
    BY <1>1, <1>3 DEF Jobs
  <2> HIDE DEF k
  <2>3. s \in Jobs /\ s.pc = "idle" /\ ~s.dry /\ s.slots = <<>> /\ s.reply = j.reply
    BY <1>4, <2>1, <2>2 DEF Jobs, Popped
  <2>4. /\ Uses(j, Dry) /\ ~Holds(j, Dry)
        /\ \A x \in Identities : /\ Uses(s, x) <=> Uses(j, x) /\ x # Dry
                                 /\ Holds(s, x) <=> Holds(j, x)
    <3> HIDE DEF s
    <3> QED BY <1>1, <1>2, <1>7, <2>3 DEF Uses, Holds, AtQuote, AtDry, JobAt
  <2>5. Quits(t, s) /\ job' = [job EXCEPT ![t] = s]
    <3>1. s = Popped(k)
      OBVIOUS
    <3>2. Leave(t, k)
      BY <1>7 DEF k
    <3> HIDE DEF s
    <3> QED BY <1>2, <2>1, <2>2, <2>4, <3>1, <3>2, LeaveQuits
  <2> HIDE DEF s
  <2>6. Proper(s, registry', receipt')
    BY <1>1, <2>3 DEF Proper, StackOf, AtQuote, AtDry
  <2> QED BY <2>3, <2>5, <2>6 DEF RequestStep, Stores, Types
<1> QED BY <1>5, <1>6, <1>7

LEMMA EveryRequestStep ==
  ASSUME Types, RequestInv, Registered, HeldInside, RestUnused, NEW t \in Threads,
         AskQuote(t) \/ AskDryRun(t) \/ Work(t)
  PROVE  RequestStep(t)
<1>1. CASE UnlockQuote(t)
  BY <1>1, ReleaseSteps, LeaveSteps DEF UnlockQuote
<1>2. CASE UnlockDry(t)
  BY <1>2, ReleaseSteps, LeaveSteps DEF UnlockDry
<1> QED BY <1>1, <1>2, AskSteps, PlainSteps, JoinSteps, AcquireSteps DEF Work

-----------------------------------------------------------------------------
(* The invariant under each kind of step.                                    *)

LEMMA HoldsUses ==
  ASSUME NEW j \in Jobs, NEW id \in Identities, Holds(j, id) PROVE Uses(j, id)
BY DEF Holds, Uses, AtQuote, AtDry

LEMMA OthersProper ==
  ASSUME Types, RequestInv, Stores, NEW t \in Threads, NEW s \in Jobs,
         job' = [job EXCEPT ![t] = s], Proper(s, registry', receipt'),
         \A u \in Threads \ {t}, x \in Identities : Uses(job[u], x) => registry'[x] = registry[x]
  PROVE  RequestInv'
<1> SUFFICES ASSUME NEW u \in Threads PROVE Proper(job'[u], registry', receipt')
  BY DEF RequestInv
<1>1. CASE u = t
  BY <1>1 DEF Types
<1>2. CASE u # t
  <2>1. job'[u] = job[u] /\ Proper(job[u], registry, receipt) /\ job[u] \in Jobs
    BY <1>2 DEF Types, RequestInv
  <2>2. (AtQuote(job[u]) => Key(job[u]) \in Identities) /\ Dry \in Identities
    BY <2>1, DryIsApart, KeyIsQuoteKey DEF Proper
  <2>3. AtQuote(job[u]) => registry'[Key(job[u])] = registry[Key(job[u])]
    BY <1>2, <2>2 DEF Uses
  <2>4. AtDry(job[u]) => registry'[Dry] = registry[Dry]
    BY <1>2, <2>2 DEF Uses
  <2>5. StackOf(job[u], registry') = StackOf(job[u], registry)
    BY <2>3, <2>4 DEF StackOf, Lock
  <2> QED BY <2>1, <2>5 DEF Proper, Stores
<1> QED BY <1>1, <1>2

\* The users of an identity after a step of one thread.
LEMMA UsersAfter ==
  ASSUME Types, NEW t \in Threads, NEW s \in Jobs, job' = [job EXCEPT ![t] = s], NEW x \in Identities
  PROVE  /\ (Uses(s, x) <=> Uses(job[t], x)) => Users(x)' = Users(x)
         /\ Uses(s, x) => Users(x)' = Users(x) \cup {t}
         /\ ~Uses(s, x) => Users(x)' = Users(x) \ {t}
<1>1. \A u \in Threads : job'[u] = IF u = t THEN s ELSE job[u]
  BY DEF Types
<1> QED BY <1>1 DEF Users

LEMMA PlainInv ==
  ASSUME QInv, NEW t \in Threads, NEW s \in Jobs, job' = [job EXCEPT ![t] = s],
         Proper(s, registry', receipt'), Stores, Plain(t, s)
  PROVE  QInv'
<1> USE DEF QInv
<1>1. \A u \in Threads : job'[u] = IF u = t THEN s ELSE job[u]
  BY DEF Types
<1>2. Types' /\ RequestInv'
  BY OthersProper DEF Types, Stores, Plain
<1>3. \A x \in Identities : Users(x)' = Users(x)
  BY UsersAfter DEF Plain, Keeps
<1>4. Registered' /\ SlotsApart' /\ RestUnused'
  BY <1>3 DEF Plain, Registered, SlotsApart, RestUnused
<1>5. HeldInside'
  BY <1>1 DEF Plain, Keeps, HeldInside
<1> QED BY <1>2, <1>4, <1>5

\* The slot a used identity is registered under, and that of another identity.
LEMMA SlotOf ==
  ASSUME Types, Registered, SlotsApart, NEW t \in Threads, NEW id \in Identities, Uses(job[t], id)
  PROVE  /\ registry[id] \in SlotIds /\ registry[id] # 0
         /\ slot[registry[id]].refs = Cardinality(Users(id))
         /\ \A x \in Identities : x # id => registry[x] # registry[id]
<1>1. registry[id] \in SlotIds /\ registry[id] # 0
  BY UsedIsRegistered, ThreadCount
<1> QED BY <1>1 DEF Registered, SlotsApart

LEMMA HolderInv ==
  ASSUME QInv, NEW t \in Threads, NEW s \in Jobs, job' = [job EXCEPT ![t] = s],
         Proper(s, registry', receipt'), Stores, Takes(t, s) \/ Gives(t, s)
  PROVE  QInv'
<1> USE DEF QInv
<1>1. \A u \in Threads : job'[u] = IF u = t THEN s ELSE job[u]
  BY DEF Types
<1>2. PICK id \in Identities, h \in Threads \cup {NoThread} :
        /\ Uses(job[t], id) /\ \A x \in Identities : Uses(s, x) <=> Uses(job[t], x)
        /\ registry' = registry
        /\ slot' = [slot EXCEPT ![registry[id]].holder = h]
        /\ \/ /\ h = t /\ slot[registry[id]].holder = NoThread
              /\ \A x \in Identities : Holds(s, x) <=> Holds(job[t], x) \/ x = id
           \/ /\ h = NoThread /\ Holds(job[t], id)
              /\ \A x \in Identities : Holds(s, x) <=> Holds(job[t], x) /\ x # id
  BY DEF Takes, Gives
<1>3. /\ registry[id] \in SlotIds /\ registry[id] # 0
      /\ \A x \in Identities : x # id => registry[x] # registry[id]
  BY <1>2, SlotOf
<1>4. \A i \in SlotIds : /\ slot'[i].refs = slot[i].refs
                         /\ slot'[i].holder = IF i = registry[id] THEN h ELSE slot[i].holder
  BY <1>2, <1>3 DEF Types
<1>5. Types' /\ RequestInv'
  <2>1. slot' \in [SlotIds -> [refs : Nat, holder : Threads \cup {NoThread}]]
    BY <1>2, <1>3 DEF Types
  <2>2. RequestInv'
    BY <1>2, OthersProper
  <2> QED BY <1>2, <2>1, <2>2 DEF Types, Stores
<1>6. \A x \in Identities : Users(x)' = Users(x)
  BY <1>2, UsersAfter
<1>7. \A x \in Identities : registry[x] # 0 => registry[x] \in SlotIds
  BY DEF Types
<1>8. Registered' /\ SlotsApart' /\ RestUnused'
  BY <1>2, <1>3, <1>4, <1>6, <1>7 DEF Registered, SlotsApart, RestUnused
<1>9. HeldInside'
  <2> SUFFICES ASSUME NEW x \in Identities, NEW u \in Threads
               PROVE  Holds(job'[u], x) <=> registry[x] # 0 /\ slot'[registry[x]].holder = u
    BY <1>2 DEF HeldInside
  <2>1. CASE x = id
    BY <1>1, <1>2, <1>3, <1>4, <2>1, NoThreadAssumption DEF HeldInside
  <2>2. CASE x # id
    BY <1>1, <1>2, <1>3, <1>4, <1>7, <2>2 DEF HeldInside
  <2> QED BY <2>1, <2>2
<1> QED BY <1>5, <1>8, <1>9

LEMMA FiniteUsers ==
  ASSUME NEW x
  PROVE  /\ IsFiniteSet(Users(x)) /\ Cardinality(Users(x)) \in Nat
         /\ \A t : Cardinality(Users(x) \cup {t}) =
                     IF t \in Users(x) THEN Cardinality(Users(x)) ELSE Cardinality(Users(x)) + 1
         /\ \A t : Cardinality(Users(x) \ {t}) =
                     IF t \in Users(x) THEN Cardinality(Users(x)) - 1 ELSE Cardinality(Users(x))
         /\ Cardinality(Users(x)) = 0 <=> Users(x) = {}
<1>1. IsFiniteSet(Users(x))
  BY ThreadsAssumption, FS_Subset DEF Users
<1> QED BY <1>1, FS_CardinalityType, FS_AddElement, FS_RemoveElement, FS_EmptySet

LEMMA EntersInv ==
  ASSUME QInv, NEW t \in Threads, NEW s \in Jobs, job' = [job EXCEPT ![t] = s],
         Proper(s, registry', receipt'), Stores, Enters(t, s)
  PROVE  QInv'
<1> USE DEF QInv
<1>1. \A u \in Threads : job'[u] = IF u = t THEN s ELSE job[u]
  BY DEF Types
<1>2. PICK id \in Identities, i \in SlotIds :
        /\ ~Uses(job[t], id)
        /\ \A x \in Identities : /\ Uses(s, x) <=> Uses(job[t], x) \/ x = id
                                 /\ Holds(s, x) <=> Holds(job[t], x)
        /\ registry[id] = i \/ (registry[id] = 0 /\ \A x \in Identities : registry[x] # i)
        /\ registry' = [registry EXCEPT ![id] = i]
        /\ slot' = [slot EXCEPT ![i].refs = @ + 1]
  BY DEF Enters
<1>3. i \in Nat \ {0} /\ \A x \in Identities : registry'[x] = IF x = id THEN i ELSE registry[x]
  BY <1>2, ThreadCount DEF Types
<1>4. \A k \in SlotIds : /\ slot'[k].refs = IF k = i THEN slot[k].refs + 1 ELSE slot[k].refs
                         /\ slot'[k].holder = slot[k].holder
                         /\ slot[k].refs \in Nat
  BY <1>2 DEF Types
<1>5. \A x \in Identities : x # id => registry[x] # i
  BY <1>2, <1>3 DEF SlotsApart
<1>6. SlotsApart'
  BY <1>3, <1>5 DEF SlotsApart
<1>7. Types' /\ RequestInv'
  <2>1. slot' \in [SlotIds -> [refs : Nat, holder : Threads \cup {NoThread}]]
    BY <1>2 DEF Types
  <2>2. registry' \in [Identities -> SlotIds \cup {0}]
    BY <1>2 DEF Types
  <2>3. ASSUME NEW u \in Threads \ {t}, NEW x \in Identities, Uses(job[u], x)
        PROVE  registry'[x] = registry[x]
    <3>1. registry[x] # 0
      BY <2>3 DEF Registered, Users
    <3> QED BY <1>2, <1>3, <3>1
  <2>4. RequestInv'
    BY <2>3, OthersProper
  <2> QED BY <2>1, <2>2, <2>4 DEF Types, Stores
<1>8. \A x \in Identities : registry[x] # 0 => registry[x] \in SlotIds
  BY DEF Types
<1>9. Registered'
  <2> SUFFICES ASSUME NEW x \in Identities
               PROVE  IF registry'[x] = 0 THEN Users(x)' = {}
                      ELSE Users(x)' # {} /\ slot'[registry'[x]].refs = Cardinality(Users(x)')
    BY DEF Registered
  <2>1. CASE x # id
    <3>1. Users(x)' = Users(x)
      BY <1>2, <2>1, UsersAfter
    <3>2. registry'[x] = registry[x]
      BY <1>3, <2>1
    <3>3. registry[x] # 0 => slot'[registry[x]].refs = slot[registry[x]].refs
      BY <1>4, <1>5, <1>8, <2>1
    <3> QED BY <3>1, <3>2, <3>3 DEF Registered
  <2>2. CASE x = id
    <3>1. Users(x)' = Users(x) \cup {t} /\ t \notin Users(x)
      BY <1>2, <2>2, UsersAfter DEF Users
    <3>2. Cardinality(Users(x)') = Cardinality(Users(x)) + 1
      BY <3>1, FiniteUsers
    <3>3. slot[i].refs = Cardinality(Users(x))
      <4>1. CASE registry[id] = i
        BY <1>3, <2>2, <4>1 DEF Registered
      <4>2. CASE registry[id] = 0 /\ \A y \in Identities : registry[y] # i
        <5>1. slot[i].refs = 0 /\ Users(x) = {}
          BY <2>2, <4>2 DEF Registered, RestUnused
        <5> QED BY <5>1, FS_EmptySet
      <4> QED BY <1>2, <4>1, <4>2
    <3> QED BY <1>3, <1>4, <2>2, <3>1, <3>2, <3>3
  <2> QED BY <2>1, <2>2
<1>10. HeldInside'
  <2> SUFFICES ASSUME NEW x \in Identities, NEW u \in Threads
               PROVE  Holds(job'[u], x) <=> registry'[x] # 0 /\ slot'[registry'[x]].holder = u
    BY DEF HeldInside
  <2>1. Holds(job'[u], x) <=> Holds(job[u], x)
    BY <1>1, <1>2
  <2>2. CASE x # id
    <3>1. registry'[x] = registry[x]
      BY <1>3, <2>2
    <3>2. registry[x] # 0 => slot'[registry[x]].holder = slot[registry[x]].holder
      BY <1>4, <1>8
    <3> QED BY <2>1, <3>1, <3>2 DEF HeldInside
  <2>3. CASE x = id /\ registry[id] = i
    BY <1>3, <1>4, <2>1, <2>3 DEF HeldInside
  <2>4. CASE x = id /\ registry[id] = 0 /\ \A y \in Identities : registry[y] # i
    <3>1. slot[i].holder = NoThread
      BY <2>4 DEF RestUnused
    <3> QED BY <1>3, <1>4, <2>1, <2>4, <3>1, NoThreadAssumption DEF HeldInside
  <2> QED BY <1>2, <2>2, <2>3, <2>4
<1>11. RestUnused'
  <2> SUFFICES ASSUME NEW k \in SlotIds, \A x \in Identities : registry'[x] # k
               PROVE  slot'[k].refs = 0 /\ slot'[k].holder = NoThread
    BY DEF RestUnused
  <2>1. k # i
    BY <1>3
  <2>2. \A x \in Identities : registry[x] # k
    BY <1>2, <1>3, <2>1, ThreadCount
  <2> QED BY <1>4, <2>1, <2>2 DEF RestUnused
<1> QED BY <1>6, <1>7, <1>9, <1>10, <1>11

LEMMA QuitsInv ==
  ASSUME QInv, NEW t \in Threads, NEW s \in Jobs, job' = [job EXCEPT ![t] = s],
         Proper(s, registry', receipt'), Stores, Quits(t, s)
  PROVE  QInv'
<1> USE DEF QInv
<1>1. \A u \in Threads : job'[u] = IF u = t THEN s ELSE job[u]
  BY DEF Types
<1>2. PICK id \in Identities :
        /\ Uses(job[t], id) /\ ~Holds(job[t], id)
        /\ \A x \in Identities : /\ Uses(s, x) <=> Uses(job[t], x) /\ x # id
                                 /\ Holds(s, x) <=> Holds(job[t], x)
        /\ registry' = IF slot[registry[id]].refs = 1 THEN [registry EXCEPT ![id] = 0] ELSE registry
        /\ slot' = [slot EXCEPT ![registry[id]].refs = @ - 1]
  BY DEF Quits
<1> DEFINE i == registry[id]
           last == slot[i].refs = 1
<1>3. /\ i \in SlotIds /\ i # 0 /\ slot[i].refs = Cardinality(Users(id))
      /\ \A x \in Identities : x # id => registry[x] # i
  BY <1>2, SlotOf
<1>4. t \in Users(id) /\ Users(id)' = Users(id) \ {t}
      /\ \A x \in Identities : x # id => Users(x)' = Users(x)
  BY <1>2, UsersAfter DEF Users
<1>5. /\ Cardinality(Users(id)) \in Nat \ {0}
      /\ Cardinality(Users(id)') = Cardinality(Users(id)) - 1
      /\ Users(id)' = {} <=> last
  <2>1. Cardinality(Users(id)) \in Nat /\ Cardinality(Users(id)') = Cardinality(Users(id)) - 1
        /\ Users(id) # {} /\ (Cardinality(Users(id)) = 0 <=> Users(id) = {})
    BY <1>4, FiniteUsers
  <2>2. Users(id)' = {} <=> Cardinality(Users(id)') = 0
    <3>1. IsFiniteSet(Users(id)')
      BY <1>4, FiniteUsers, FS_RemoveElement
    <3> QED BY <3>1, FS_EmptySet
  <2> QED BY <1>3, <2>1, <2>2
<1>6. \A x \in Identities : registry'[x] = IF x = id /\ last THEN 0 ELSE registry[x]
  BY <1>2 DEF Types
<1>7. \A k \in SlotIds : /\ slot'[k].refs = IF k = i THEN slot[k].refs - 1 ELSE slot[k].refs
                         /\ slot'[k].holder = slot[k].holder
                         /\ slot[k].refs \in Nat
                         /\ slot[k].holder \in Threads \cup {NoThread}
  BY <1>2, <1>3 DEF Types
<1>8. \A x \in Identities : registry[x] # 0 => registry[x] \in SlotIds
  BY DEF Types
<1> HIDE DEF i, last
<1>9. Types' /\ RequestInv'
  <2>1. slot' \in [SlotIds -> [refs : Nat, holder : Threads \cup {NoThread}]]
    BY <1>2, <1>3, <1>5 DEF Types, i
  <2>2. registry' \in [Identities -> SlotIds \cup {0}]
    BY <1>2 DEF Types
  <2>3. ASSUME NEW u \in Threads \ {t}, NEW x \in Identities, Uses(job[u], x)
        PROVE  registry'[x] = registry[x]
    <3>1. u \in Users(x)
      BY <2>3 DEF Users
    <3>2. x = id => Users(id)' # {}
      BY <1>4, <2>3, <3>1
    <3> QED BY <1>5, <1>6, <3>2
  <2>4. RequestInv'
    BY <2>3, OthersProper
  <2> QED BY <2>1, <2>2, <2>4 DEF Types, Stores
<1>10. SlotsApart'
  BY <1>6 DEF SlotsApart
<1>11. Registered'
  <2> SUFFICES ASSUME NEW x \in Identities
               PROVE  IF registry'[x] = 0 THEN Users(x)' = {}
                      ELSE Users(x)' # {} /\ slot'[registry'[x]].refs = Cardinality(Users(x)')
    BY DEF Registered
  <2>1. CASE x # id
    BY <1>3, <1>4, <1>6, <1>7, <1>8, <2>1 DEF Registered
  <2>2. CASE x = id
    BY <1>3, <1>5, <1>6, <1>7, <2>2 DEF i
  <2> QED BY <2>1, <2>2
<1>12. last => slot[i].holder = NoThread
  <2> SUFFICES ASSUME last, NEW u \in Threads, slot[i].holder = u PROVE FALSE
    BY <1>3, <1>7
  <2>1. Holds(job[u], id)
    BY <1>3 DEF HeldInside, i
  <2>2. job[u] \in Jobs
    BY DEF Types
  <2>3. u \in Users(id)
    BY <2>1, <2>2, HoldsUses DEF Users
  <2>4. u = t
    BY <1>4, <1>5, <2>3
  <2> QED BY <1>2, <2>1, <2>4
<1>13. HeldInside'
  <2> SUFFICES ASSUME NEW x \in Identities, NEW u \in Threads
               PROVE  Holds(job'[u], x) <=> registry'[x] # 0 /\ slot'[registry'[x]].holder = u
    BY DEF HeldInside
  <2>1. Holds(job'[u], x) <=> Holds(job[u], x)
    BY <1>1, <1>2
  <2>2. CASE x # id \/ ~last
    BY <1>6, <1>7, <1>8, <2>1, <2>2 DEF HeldInside
  <2>3. CASE x = id /\ last
    BY <1>6, <1>12, <2>1, <2>3, NoThreadAssumption DEF HeldInside, i
  <2> QED BY <2>2, <2>3
<1>14. RestUnused'
  <2> SUFFICES ASSUME NEW k \in SlotIds, \A x \in Identities : registry'[x] # k
               PROVE  slot'[k].refs = 0 /\ slot'[k].holder = NoThread
    BY DEF RestUnused
  <2>1. CASE k = i
    <3>1. last
      BY <1>6, <2>1 DEF i
    <3> QED BY <1>7, <1>12, <2>1, <3>1 DEF last
  <2>2. CASE k # i
    <3>1. \A x \in Identities : registry[x] # k
      BY <1>6, <2>2 DEF i
    <3> QED BY <1>7, <2>2, <3>1 DEF RestUnused
  <2> QED BY <2>1, <2>2
<1> QED BY <1>9, <1>10, <1>11, <1>13, <1>14

LEMMA RequestInvariant ==
  ASSUME QInv, NEW t \in Threads, RequestStep(t) PROVE QInv'
BY PlainInv, HolderInv, EntersInv, QuitsInv DEF RequestStep

LEMMA InitInv == Init => QInv
<1> SUFFICES ASSUME Init PROVE QInv
  OBVIOUS
<1> USE DEF Init
<1>1. \A t \in Threads : job[t] = NoJob(MaxJobs)
  OBVIOUS
<1>2. NoJob(MaxJobs) \in Jobs /\ \A id \in Identities : ~Uses(NoJob(MaxJobs), id) /\ ~Holds(NoJob(MaxJobs), id)
  <2>1. NoJob(MaxJobs) \in Jobs
    BY MaxJobsAssumption, Endings
  <2> QED BY <2>1 DEF NoJob, Uses, Holds, AtQuote, AtDry
<1>3. Types
  BY <1>2 DEF Types
<1>4. RequestInv
  BY <1>1 DEF RequestInv, Proper, NoJob, StackOf, AtQuote, AtDry
<1>5. \A id \in Identities : registry[id] = 0 /\ Users(id) = {}
  BY <1>1, <1>2 DEF Users
<1>6. SlotsApart /\ Registered /\ RestUnused
  BY <1>5 DEF SlotsApart, Registered, RestUnused
<1>7. HeldInside
  BY <1>1, <1>2, <1>5 DEF HeldInside
<1> QED BY <1>3, <1>4, <1>6, <1>7 DEF QInv

LEMMA StepInv == QInv /\ [Next]_vars => QInv'
<1> SUFFICES ASSUME QInv, [Next]_vars PROVE QInv'
  OBVIOUS
<1>1. ASSUME NEW t \in Threads, AskQuote(t) \/ AskDryRun(t) \/ Work(t) PROVE QInv'
  BY <1>1, EveryRequestStep, RequestInvariant DEF QInv
<1>2. CASE UNCHANGED <<client, registry, slot, receipt, job>>
  <2>1. \A id \in Identities : Users(id)' = Users(id)
    BY <1>2 DEF Users
  <2>2. Registered'
    BY <1>2, <2>1 DEF QInv, Registered
  <2>3. Types' /\ RequestInv'
    BY <1>2 DEF QInv, Types, RequestInv
  <2>4. SlotsApart' /\ HeldInside' /\ RestUnused'
    BY <1>2 DEF QInv, SlotsApart, HeldInside, RestUnused
  <2> QED BY <2>2, <2>3, <2>4 DEF QInv
<1> QED BY <1>1, <1>2 DEF Next, EntryAges, PlanEnds, vars

LEMMA CacheInvariance == Spec => []QInv
  BY InitInv, StepInv, PTL DEF Spec

-----------------------------------------------------------------------------
LEMMA UsingIsUses ==
  ASSUME QInv, NEW t \in Threads, NEW id \in Identities
  PROVE  Using(t, id) <=> Uses(job[t], id)
<1> DEFINE j == job[t]
<1>1. j.slots = StackOf(j, registry)
  BY DEF QInv, RequestInv, Proper
<1>2. CASE AtQuote(j) /\ AtDry(j)
  <2>1. j.slots = <<Lock(registry, Key(j)), Lock(registry, Dry)>>
    BY <1>1, <1>2 DEF StackOf
  <2>2. DOMAIN j.slots = {1, 2} /\ j.slots[1].id = Key(j) /\ j.slots[2].id = Dry
    BY <2>1 DEF Lock
  <2> QED BY <1>2, <2>2 DEF Using, Uses
<1>3. CASE AtQuote(j) /\ ~AtDry(j)
  <2>1. j.slots = <<Lock(registry, Key(j))>>
    BY <1>1, <1>3 DEF StackOf
  <2>2. DOMAIN j.slots = {1} /\ j.slots[1].id = Key(j)
    BY <2>1 DEF Lock
  <2> QED BY <1>3, <2>2 DEF Using, Uses
<1>4. CASE ~AtQuote(j) /\ AtDry(j)
  <2>1. j.slots = <<Lock(registry, Dry)>>
    BY <1>1, <1>4 DEF StackOf
  <2>2. DOMAIN j.slots = {1} /\ j.slots[1].id = Dry
    BY <2>1 DEF Lock
  <2> QED BY <1>4, <2>2 DEF Using, Uses
<1>5. CASE ~AtQuote(j) /\ ~AtDry(j)
  BY <1>1, <1>5 DEF StackOf, Using, Uses
<1> QED BY <1>2, <1>3, <1>4, <1>5

\* Whatever the threads, symbols and requests, and however many clients were built at first
\* use (api.py:379-381): the fetch of a symbol by one client and the evaluation
\* of a dry-run key run in one thread at a time, although their locks come and go
\* (_registered_lock, api.py:186-205).
THEOREM OneFlightPerKey == Spec => []SingleFlight
<1>1. QInv => SingleFlight
  <2> SUFFICES ASSUME QInv, NEW id \in Identities
               PROVE  Cardinality({t \in Threads : Inside(t, id)}) <= 1
    BY DEF SingleFlight
  <2> DEFINE In == {t \in Threads : Inside(t, id)}
  <2>1. \A t, u \in In : t = u
    BY DEF QInv, HeldInside, Inside, Holds
  <2>2. In = {} \/ \E t : In = {t}
    BY <2>1
  <2> QED BY <2>2, FS_EmptySet, FS_Singleton
<1> QED BY <1>1, CacheInvariance, PTL

\* A lock's registry entry is there exactly while somebody uses it and counts its
\* users, for any number of threads that join and leave in any order (api.py:160).
THEOREM RegistryIsExact == Spec => []RegistryMatchesUsers
<1>1. QInv => RegistryMatchesUsers
  <2> SUFFICES ASSUME QInv, NEW id \in Identities
               PROVE  IF registry[id] = 0 THEN \A t \in Threads : ~Using(t, id)
                      ELSE slot[registry[id]].refs = Cardinality({t \in Threads : Using(t, id)})
                           /\ \E t \in Threads : Using(t, id)
    BY DEF RegistryMatchesUsers
  <2>1. Users(id) = {t \in Threads : Using(t, id)}
    BY UsingIsUses DEF Users
  <2>2. IF registry[id] = 0 THEN Users(id) = {}
        ELSE Users(id) # {} /\ slot[registry[id]].refs = Cardinality(Users(id))
    BY DEF QInv, Registered
  <2> QED BY <2>1, <2>2
<1> QED BY <1>1, CacheInvariance, PTL

\* No lock is left behind: a lock is held only by a thread that is inside the code it
\* protects, on success and on every error path (the finally blocks of _registered_lock).
NoLockLeft == \A i \in SlotIds : slot[i].holder # NoThread =>
  \E id \in Identities : registry[id] = i /\ Inside(slot[i].holder, id)
THEOREM LocksAreGivenBack == Spec => []NoLockLeft
<1>1. QInv => NoLockLeft
  <2> SUFFICES ASSUME QInv, NEW i \in SlotIds, slot[i].holder # NoThread
               PROVE  \E id \in Identities : registry[id] = i /\ Inside(slot[i].holder, id)
    BY DEF NoLockLeft
  <2>1. PICK id \in Identities : registry[id] = i
    BY DEF QInv, RestUnused
  <2>2. slot[i].holder \in Threads /\ i # 0
    BY ThreadCount DEF QInv, Types
  <2> QED BY <2>1, <2>2 DEF QInv, HeldInside, Inside, Holds
<1> QED BY <1>1, CacheInvariance, PTL

\* Every dry run of a key that was answered was answered with the receipt that is
\* stored, whatever ran in between (existing_live_dry_run_receipt, api.py).
THEOREM OneAnswerPerKey == Spec => []RepliesAreTheReceipt
<1>1. QInv => RepliesAreTheReceipt
  BY DEF QInv, RequestInv, Proper, RepliesAreTheReceipt
<1> QED BY <1>1, CacheInvariance, PTL

\* The receipt of a key is written once.
THEOREM ReceiptIsFinal == Spec => [][receipt # NoReceipt => receipt' = receipt]_vars
<1>1. QInv /\ [Next]_vars => [receipt # NoReceipt => receipt' = receipt]_vars
  <2> SUFFICES ASSUME QInv, Next, receipt # NoReceipt PROVE receipt' = receipt
    BY DEF vars
  <2>1. ASSUME NEW t \in Threads, AskQuote(t) \/ AskDryRun(t) \/ Work(t) PROVE receipt' = receipt
    BY <2>1, EveryRequestStep DEF QInv, RequestStep, Stores
  <2> QED BY <2>1 DEF Next, EntryAges, PlanEnds
<1> QED BY <1>1, CacheInvariance, PTL DEF Spec
=============================================================================
