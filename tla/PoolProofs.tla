----------------------------- MODULE PoolProofs -----------------------------
(* What the connection pool and the mappers that use it promise, for every   *)
(* set of threads and of handles, every pool size and any number of inner    *)
(* mapper calls.  The theorems about Spec are about ConnectionPool alone.    *)
EXTENDS MapperPool, DataTheorems

\* The inductive invariant behind ownership.  Exclusive alone is not inductive:
\* createConnection() makes a handle that is not open, so it takes Accounted to
\* know that it is neither idle nor held.
Owned == TypeOK /\ Exclusive /\ Accounted

\* The state of a pool nobody has initialised is owned.
LEMMA OwnedInit == Init => Owned
<1> SUFFICES ASSUME Init PROVE Owned
  OBVIOUS
<1>1. pool \in Seq(Conns) /\ Range(pool) = {} /\ IsInjective(pool)
  BY EmptySeq DEF Init, Range, IsInjective
<1>2. Held = {}
  BY DEF Init, Held
<1>3. 0 \in 0..MaxInits
  BY SizeAssumption
<1>4. TypeOK
  BY <1>1, <1>3 DEF Init, TypeOK
<1> QED BY <1>1, <1>2, <1>4 DEF Owned, Exclusive, Accounted, Idle, Init

\* What a step that only moves threads between waiting and woken leaves alone.
LEMMA NotifyType ==
    ASSUME TypeOK, NotifyOne \/ NotifyAll
    PROVE  at' \in [Threads -> {"out", "waiting", "woken"}]
BY DEF TypeOK, NotifyOne, NotifyAll, NotifyNobody, Waiting

\* acquire() hands a connection over without ever sharing or losing it, whether
\* the front of the queue is alive, is replaced, or is lost.
LEMMA EnterOwned ==
    ASSUME Owned, NEW t \in Threads, Enter(t)
    PROVE  Owned'
<1> USE DEF Owned
<1>1. at' \in [Threads -> {"out", "waiting", "woken"}]
  BY DEF Enter, TypeOK
<1>2. initialized' = initialized /\ up' = up /\ inits' = inits
  BY DEF Enter
<1>3. CASE UNCHANGED <<pool, held, open, live>>
  BY <1>1, <1>2, <1>3 DEF TypeOK, Exclusive, Accounted, Idle, Held
<1> DEFINE h == Head(pool)
<1>4. ASSUME initialized, CanProceed
      PROVE  /\ h \in Idle /\ Idle \subseteq Conns
             /\ Tail(pool) \in Seq(Conns)
             /\ Range(Tail(pool)) = Idle \ {h}
             /\ IsInjective(Tail(pool))
  BY <1>4, PopFront, RangeOfSeq DEF CanProceed, TypeOK, Exclusive, Idle
<1>5. ASSUME NEW N \in SUBSET Conns, NEW rest \in SUBSET Conns,
             held' = [held EXCEPT ![t] = @ \cup N],
             pool' = Tail(pool), initialized, CanProceed,
             open' = rest \cup N,
             rest = (Idle \ {h}) \cup Held,
             N \cap rest = {},
             live' \subseteq open',
             \A x, y \in N : x = y
      PROVE  Owned'
  <2>1. held' \in [Threads -> SUBSET Conns]
    BY <1>5 DEF TypeOK
  <2>2. Held' = Held \cup N
    BY <1>5, <2>1 DEF Held, TypeOK
  <2>3. Idle' = Idle \ {h}
    BY <1>4, <1>5 DEF Idle
  <2>4. TypeOK'
    BY <1>1, <1>2, <1>4, <1>5, <2>1 DEF TypeOK
  <2>5. Accounted'
    BY <1>5, <2>2, <2>3 DEF Accounted
  <2>6. \A s, u \in Threads : s # u => held'[s] \cap held'[u] = {}
    <3> SUFFICES ASSUME NEW s \in Threads, NEW u \in Threads, s # u
                 PROVE  held'[s] \cap held'[u] = {}
      OBVIOUS
    <3>1. held[s] \cap held[u] = {} /\ held[s] \subseteq Held /\ held[u] \subseteq Held
      BY DEF Exclusive, Held
    <3>2. /\ held'[s] = IF s = t THEN held[s] \cup N ELSE held[s]
          /\ held'[u] = IF u = t THEN held[u] \cup N ELSE held[u]
      BY <1>5 DEF TypeOK
    <3>3. N \cap Held = {}
      BY <1>5
    <3> QED BY <3>1, <3>2, <3>3
  <2>7. Exclusive'
    BY <1>4, <1>5, <2>2, <2>3, <2>6 DEF Exclusive
  <2> QED BY <2>4, <2>5, <2>7
<1>6. CASE CanProceed /\ ReturnFront(t)
  <2> DEFINE N == {h}
             rest == (Idle \ {h}) \cup Held
  <2>1. /\ initialized /\ pool' = Tail(pool)
        /\ held' = [held EXCEPT ![t] = @ \cup N]
        /\ open' = open /\ live' = live
    BY <1>6 DEF ReturnFront
  <2>2. N \in SUBSET Conns /\ N \cap rest = {}
    BY <1>4, <1>6, <2>1 DEF Exclusive
  <2>3. open' = rest \cup N
    BY <1>4, <1>6, <2>1 DEF Accounted
  <2>4. rest \in SUBSET Conns /\ live' \subseteq open'
    BY <2>1, <2>3 DEF TypeOK
  <2>5. \A x, y \in N : x = y
    OBVIOUS
  <2> HIDE DEF N, rest
  <2> QED BY <1>5, <1>6, <2>1, <2>2, <2>3, <2>4, <2>5 DEF rest
<1>7. CASE CanProceed /\ ReplaceDeadFront(t)
  <2> DEFINE rest == open \ {h}
  <2>1. PICK c \in CreateConnection(rest) :
            /\ held' = [held EXCEPT ![t] = @ \cup ({c} \ {NULL})]
            /\ open' = rest \cup ({c} \ {NULL})
            /\ live' = live \cup ({c} \ {NULL})
    BY <1>7 DEF ReplaceDeadFront
  <2> DEFINE N == {c} \ {NULL}
  <2>2. N \in SUBSET Conns /\ N \cap rest = {}
    BY DEF CreateConnection
  <2>3. rest \in SUBSET Conns /\ rest = (Idle \ {h}) \cup Held
    BY <1>4, <1>7 DEF ReplaceDeadFront, TypeOK, Accounted, Exclusive
  <2>4. live' \subseteq open'
    BY <1>7, <2>1 DEF ReplaceDeadFront, TypeOK
  <2>5. initialized /\ pool' = Tail(pool)
    BY <1>7 DEF ReplaceDeadFront
  <2> HIDE DEF rest
  <2>6. \A x, y \in N : x = y
    OBVIOUS
  <2> HIDE DEF N
  <2> QED BY <1>5, <1>7, <2>1, <2>2, <2>3, <2>4, <2>5, <2>6 DEF N
<1>8. UNCHANGED <<pool, held, open, live>> \/ (CanProceed /\ ReturnFront(t))
         \/ (CanProceed /\ ReplaceDeadFront(t))
  BY DEF Enter, ReturnNull
<1> QED BY <1>3, <1>6, <1>7, <1>8

\* release() moves a connection from its holder to the back of the queue.
LEMMA ReleaseOwned ==
    ASSUME Owned, NEW t \in Threads, NEW c \in held[t], Release(t, c)
    PROVE  Owned'
<1> USE DEF Owned
<1>1. c \in Conns /\ c \in Held /\ c \notin Idle
  BY DEF TypeOK, Held, Exclusive
<1>2. /\ pool' \in Seq(Conns)
      /\ Idle' = Idle \cup {c}
      /\ IsInjective(pool')
  BY <1>1, PushBack DEF Release, TypeOK, Exclusive, Idle
<1>3. /\ held' \in [Threads -> SUBSET Conns]
      /\ \A s \in Threads : held'[s] = IF s = t THEN held[s] \ {c} ELSE held[s]
  BY DEF Release, TypeOK
<1>4. \A s \in Threads : s # t => c \notin held[s]
  BY DEF Exclusive
<1>5. Held' = Held \ {c}
  BY <1>3, <1>4 DEF Held
<1>6. TypeOK'
  BY <1>2, <1>3, NotifyType DEF Release, TypeOK
<1>7. Exclusive'
  BY <1>1, <1>2, <1>3, <1>5 DEF Exclusive
<1>8. Accounted'
  BY <1>1, <1>2, <1>5 DEF Release, Accounted
<1> QED BY <1>6, <1>7, <1>8

\* init() closes idle connections only, and opens connections that are neither
\* kept nor held.
LEMMA InitPoolOwned ==
    ASSUME Owned, InitPool
    PROVE  Owned'
<1> USE DEF Owned
<1> DEFINE kept  == IF initialized THEN <<>> ELSE pool
           inUse == IF initialized THEN open \ Idle ELSE open
<1>1. /\ kept \in Seq(Conns) /\ IsInjective(kept)
      /\ inUse = Range(kept) \cup Held
      /\ Range(kept) \subseteq Idle
      /\ inUse \in SUBSET Conns
  <2>1. Range(<<>>) = {} /\ IsInjective(<<>>) /\ <<>> \in Seq(Conns)
    BY EmptySeq DEF Range, IsInjective
  <2> QED BY <2>1 DEF TypeOK, Exclusive, Accounted, Idle
<1>2. PICK new \in Batches(inUse) :
          /\ pool' = kept \o new
          /\ initialized' = (pool' # <<>>)
          /\ open' = inUse \cup Range(new)
          /\ live' = (live \cap inUse) \cup Range(new)
  BY DEF InitPool
<1>3. new \in Seq(Conns) /\ IsInjective(new) /\ Range(new) \cap inUse = {}
  <2>1. PICK n \in 0..(IF up THEN PoolSize ELSE 0) : new \in [1..n -> Conns \ inUse]
    BY DEF Batches
  <2>2. n \in Nat
    BY SizeAssumption
  <2>3. new \in Seq(Conns \ inUse)
    BY <2>1, <2>2, SeqDef
  <2>4. Range(new) \in SUBSET (Conns \ inUse)
    BY <2>3, RangeOfSeq
  <2>5. new \in Seq(Conns)
    BY <2>3, SeqMonotonic
  <2>6. IsInjective(new)
    BY DEF Batches
  <2> QED BY <2>4, <2>5, <2>6
<1> HIDE DEF kept, inUse
<1>4. /\ pool' \in Seq(Conns)
      /\ Idle' = Range(kept) \cup Range(new)
      /\ IsInjective(pool')
  BY <1>1, <1>2, <1>3, JoinQueues DEF Idle
<1>5. Held' = Held /\ held' = held /\ at' = at /\ up' = up
  BY DEF InitPool, Held
<1>6. TypeOK'
  <2>1. inits' \in 0..MaxInits
    BY SizeAssumption DEF InitPool, TypeOK
  <2>2. open' \subseteq Conns /\ live' \subseteq open'
    BY <1>1, <1>2, <1>3, RangeOfSeq
  <2> QED BY <1>2, <1>4, <1>5, <2>1, <2>2 DEF TypeOK
<1>7. Exclusive'
  BY <1>1, <1>3, <1>4, <1>5 DEF Exclusive
<1>8. Accounted'
  BY <1>1, <1>2, <1>4, <1>5 DEF Accounted
<1> QED BY <1>6, <1>7, <1>8

\* shutdown() closes the idle connections and leaves the held ones open.
LEMMA ShutdownOwned ==
    ASSUME Owned, Shutdown
    PROVE  Owned'
<1> USE DEF Owned
<1>1. pool' \in Seq(Conns) /\ Idle' = {} /\ IsInjective(pool')
  BY EmptySeq DEF Shutdown, Idle, Range, IsInjective
<1>2. Held' = Held /\ held' = held /\ open' = open \ Idle
  BY DEF Shutdown, Held
<1>3. at' \in [Threads -> {"out", "waiting", "woken"}]
  BY NotifyType DEF Shutdown
<1>4. TypeOK'
  BY <1>1, <1>2, <1>3 DEF Shutdown, TypeOK
<1>5. Exclusive'
  BY <1>1, <1>2 DEF Exclusive
<1>6. Accounted'
  BY <1>1, <1>2 DEF Accounted, Exclusive
<1> QED BY <1>4, <1>5, <1>6

\* Every step of the pool, of its callers and of the database keeps ownership.
LEMMA OwnedStep == Owned /\ [Next]_vars => Owned'
<1> SUFFICES ASSUME Owned, [Next]_vars PROVE Owned'
  OBVIOUS
<1>1. ASSUME NEW t \in Threads, Acquire(t) \/ Resume(t)
      PROVE  Owned'
  BY <1>1, EnterOwned DEF Acquire, Resume
<1>2. ASSUME NEW t \in Threads, SpuriousWakeup(t)
      PROVE  Owned'
  BY <1>2 DEF SpuriousWakeup, Owned, TypeOK, Exclusive, Accounted, Idle, Held
<1>3. ASSUME NEW t \in Threads, NEW c \in held[t], Release(t, c)
      PROVE  Owned'
  BY <1>3, ReleaseOwned
<1>4. CASE InitPool
  BY <1>4, InitPoolOwned
<1>5. CASE Shutdown
  BY <1>5, ShutdownOwned
<1>6. CASE DbStep
  <2>1. /\ UNCHANGED <<pool, initialized, held, at, open, inits>>
        /\ live' \subseteq live /\ up' \in BOOLEAN
    BY <1>6 DEF DbStep, DbDown, DbUp, DropSession, Owned, TypeOK
  <2> QED BY <2>1 DEF Owned, TypeOK, Exclusive, Accounted, Idle, Held
<1>7. CASE UNCHANGED vars
  BY <1>7 DEF vars, Owned, TypeOK, Exclusive, Accounted, Idle, Held
<1> QED BY <1>1, <1>2, <1>3, <1>4, <1>5, <1>6, <1>7 DEF Next, CallerStep

THEOREM OwnedAlways == Spec => []Owned
<1> QED BY OwnedInit, OwnedStep, PTL DEF Spec

\* Every reachable state of the pool is well typed.
THEOREM TypeCorrect == Spec => []TypeOK
<1>1. Owned => TypeOK
  BY DEF Owned
<1> QED BY <1>1, OwnedAlways, PTL

\* No connection is ever in two places: two threads never share a MYSQL handle,
\* and a handle that is lent out is not in the queue.
THEOREM ExclusiveOwnership == Spec => []Exclusive
<1>1. Owned => Exclusive
  BY DEF Owned
<1> QED BY <1>1, OwnedAlways, PTL

\* No connection is leaked and none is used after mysql_close.
THEOREM NothingLeaked == Spec => []Accounted
<1>1. Owned => Accounted
  BY DEF Owned
<1> QED BY <1>1, OwnedAlways, PTL
-----------------------------------------------------------------------------
(* How many connections the program has open at the server.                *)

\* A batch of init() holds at most pool_size_ connections.
LEMMA BatchSize ==
    ASSUME NEW inUse \in SUBSET Conns, NEW new \in Batches(inUse)
    PROVE  IsFiniteSet(Range(new)) /\ Cardinality(Range(new)) <= PoolSize
<1>1. PICK n \in 0..(IF up THEN PoolSize ELSE 0) : new \in [1..n -> Conns \ inUse]
  BY DEF Batches
<1>2. n \in Nat /\ n <= PoolSize
  BY SizeAssumption
<1>3. new \in Surjection(1..n, Range(new))
  BY <1>1 DEF Surjection, Range
<1>4. IsFiniteSet(1..n) /\ Cardinality(1..n) = n
  BY <1>2, FS_Interval
<1>5. /\ IsFiniteSet(Range(new))
      /\ Cardinality(Range(new)) <= Cardinality(1..n)
      /\ Cardinality(Range(new)) \in Nat
  BY <1>3, <1>4, FS_Surjection, FS_CardinalityType
<1> QED BY <1>2, <1>4, <1>5, SizeAssumption

\* acquire() never opens a connection without closing one.
LEMMA EnterCapacity ==
    ASSUME Owned, Capacity, NEW t \in Threads, Enter(t)
    PROVE  Capacity'
<1>1. IsFiniteSet(open) /\ Cardinality(open) \in Nat /\ inits \in Nat
  BY ConnsAssumption, SizeAssumption, FS_Subset, FS_CardinalityType DEF Owned, TypeOK
<1>2. inits' = inits
  BY DEF Enter
<1>3. CASE UNCHANGED open
  BY <1>2, <1>3 DEF Capacity
<1>4. CASE CanProceed /\ ReplaceDeadFront(t)
  <2> DEFINE rest == open \ {Head(pool)}
  <2>1. Head(pool) \in open
    BY <1>4, PopFront DEF ReplaceDeadFront, CanProceed, Owned, TypeOK, Exclusive,
                          Accounted, Idle
  <2>2. IsFiniteSet(rest) /\ Cardinality(rest) = Cardinality(open) - 1
    BY <1>1, <2>1, FS_RemoveElement
  <2>3. PICK c \in CreateConnection(rest) : open' = rest \cup ({c} \ {NULL})
    BY <1>4 DEF ReplaceDeadFront
  <2>4. open' = rest \/ open' = rest \cup {c}
    BY <2>3
  <2>5. Cardinality(rest \cup {c}) <= Cardinality(rest) + 1
    <3> HIDE DEF rest
    <3>1. Cardinality(rest) \in Nat
      BY <2>2, FS_CardinalityType
    <3> QED BY <2>2, <3>1, FS_AddElement
  <2>6. Cardinality(open') <= Cardinality(open)
    <3> HIDE DEF rest
    <3>1. CASE open' = rest
      BY <3>1, <1>1, <2>2
    <3>2. CASE open' = rest \cup {c}
      <4>1. Cardinality(rest \cup {c}) \in Nat
        BY <2>2, FS_AddElement, FS_CardinalityType
      <4> QED BY <4>1, <3>2, <1>1, <2>2, <2>5
    <3> QED BY <3>1, <3>2, <2>4
  <2>7. IsFiniteSet(open')
    BY <2>2, <2>4, FS_AddElement
  <2>8. Cardinality(open') \in Nat
    BY <2>7, FS_CardinalityType
  <2> QED BY <1>1, <1>2, <2>6, <2>8, SizeAssumption DEF Capacity
<1> QED BY <1>3, <1>4 DEF Enter, ReturnNull, ReturnFront

\* Each step keeps the number of open connections below what init() was called for.
LEMMA CapacityStep == Owned /\ Capacity /\ [Next]_vars => Capacity'
<1> SUFFICES ASSUME Owned, Capacity, [Next]_vars PROVE Capacity'
  OBVIOUS
<1>1. /\ IsFiniteSet(open) /\ Cardinality(open) \in Nat
      /\ inits \in Nat /\ PoolSize \in Nat
  BY ConnsAssumption, SizeAssumption, FS_Subset, FS_CardinalityType DEF Owned, TypeOK
<1>2. ASSUME NEW t \in Threads, Acquire(t) \/ Resume(t)
      PROVE  Capacity'
  BY <1>2, EnterCapacity DEF Acquire, Resume
<1>3. CASE InitPool
  <2> DEFINE inUse == IF initialized THEN open \ Idle ELSE open
  <2>1. PICK new \in Batches(inUse) : open' = inUse \cup Range(new)
    BY <1>3 DEF InitPool
  <2>2. inUse \in SUBSET open /\ inUse \in SUBSET Conns
    BY DEF Owned, TypeOK
  <2>3. /\ IsFiniteSet(inUse) /\ Cardinality(inUse) <= Cardinality(open)
        /\ Cardinality(inUse) \in Nat
    BY <1>1, <2>2, FS_Subset, FS_CardinalityType
  <2> HIDE DEF inUse
  <2>4. /\ IsFiniteSet(Range(new)) /\ Cardinality(Range(new)) <= PoolSize
        /\ Cardinality(Range(new)) \in Nat
    BY <2>1, <2>2, BatchSize, FS_CardinalityType
  <2>5. Cardinality(inUse \cap Range(new)) \in Nat
    BY <2>3, FS_Intersection, FS_CardinalityType
  <2>6. Cardinality(open') <= Cardinality(open) + PoolSize
    BY <2>1, <2>3, <2>4, <2>5, <1>1, FS_Union
  <2>7. Cardinality(open') \in Nat
    BY <2>1, <2>3, <2>4, FS_Union, FS_CardinalityType
  <2>8. inits' = inits + 1 /\ (inits + 1) * PoolSize = inits * PoolSize + PoolSize
    BY <1>1, <1>3 DEF InitPool
  <2>9. inits * PoolSize \in Nat
    BY <1>1
  <2> QED BY <1>1, <2>6, <2>7, <2>8, <2>9 DEF Capacity
<1>4. CASE Shutdown
  <2>1. inits' = inits /\ open' \in SUBSET open
    BY <1>4 DEF Shutdown
  <2>2. Cardinality(open') <= Cardinality(open) /\ Cardinality(open') \in Nat
    BY <1>1, <2>1, FS_Subset, FS_CardinalityType
  <2> QED BY <1>1, <2>1, <2>2 DEF Capacity
<1>5. CASE UNCHANGED <<open, inits>>
  BY <1>5 DEF Capacity
<1> QED
  BY <1>2, <1>3, <1>4, <1>5
  DEF Next, CallerStep, SpuriousWakeup, Release, DbStep, DbDown, DbUp, DropSession, vars

\* Whatever dies, is replaced, is released late or is re-initialised: each call
\* of init() accounts for at most pool_size_ open connections.
THEOREM CapacityRespected == Spec => []Capacity
<1>1. Init => Capacity
  BY FS_EmptySet, SizeAssumption DEF Init, Capacity
<1>2. Owned /\ Capacity /\ [Next]_vars => Capacity'
  BY CapacityStep
<1> QED BY <1>1, <1>2, OwnedAlways, PTL DEF Spec
-----------------------------------------------------------------------------
(* No wakeup is lost, as long as init() is called on a pool that is not      *)
(* initialised.                                                              *)

\* The threads are finitely many, so are the woken ones.
LEMMA WokenFinite == IsFiniteSet(Woken) /\ Cardinality(Woken) \in Nat
<1>1. Woken \in SUBSET Threads
  BY DEF Woken
<1> QED BY <1>1, ThreadsAssumption, FS_Subset, FS_CardinalityType

\* A thread that enters either takes a connection, which frees it from the
\* wakeups owed, or finds the queue empty and then owes none.
LEMMA EnterWakeup ==
    ASSUME Owned, NoLostWakeup, NEW t \in Threads, Acquire(t) \/ Resume(t)
    PROVE  NoLostWakeup'
<1>1. Len(pool) \in Nat /\ at \in [Threads -> {"out", "waiting", "woken"}]
  BY LenProperties DEF Owned, TypeOK
<1>2. initialized' = initialized
  BY DEF Acquire, Resume, Enter
<1>3. CASE ~CanProceed
  <2>1. pool' = pool /\ pool = <<>> /\ initialized
    BY <1>3 DEF CanProceed, Acquire, Resume, Enter
  <2>2. Len(pool') = 0
    BY <2>1, EmptySeq
  <2>3. Woken' \in SUBSET Threads
    BY DEF Woken
  <2>4. Cardinality(Woken') \in Nat
    BY <2>3, ThreadsAssumption, FS_Subset, FS_CardinalityType
  <2> QED BY <1>2, <2>1, <2>2, <2>4 DEF NoLostWakeup
<1>4. CASE CanProceed
  <2>1. at' = [at EXCEPT ![t] = "out"] /\ at[t] # "waiting"
    BY <1>4 DEF Acquire, Resume, Enter
  <2>2. Waiting' = Waiting /\ Woken' = Woken \ {t}
    BY <1>1, <2>1 DEF Waiting, Woken
  <2>3. SUFFICES ASSUME Waiting # {}
                 PROVE  Len(pool') <= Cardinality(Woken')
    BY <1>2, <2>2 DEF NoLostWakeup
  <2>4. initialized /\ Len(pool) <= Cardinality(Woken)
    BY <2>3 DEF NoLostWakeup
  <2>5. pool # <<>> /\ pool' = Tail(pool)
    BY <1>4, <2>4 DEF CanProceed, Acquire, Resume, Enter, ReturnNull, ReturnFront,
                      ReplaceDeadFront
  <2>6. Len(pool') = Len(pool) - 1
    BY <2>5, HeadTailProperties DEF Owned, TypeOK
  <2>7. Cardinality(Woken') >= Cardinality(Woken) - 1
    BY <2>2, WokenFinite, FS_RemoveElement
  <2>8. Cardinality(Woken') \in Nat
    BY <2>2, WokenFinite, FS_RemoveElement, FS_CardinalityType
  <2> QED BY <1>1, <2>4, <2>6, <2>7, <2>8, WokenFinite
<1> QED BY <1>3, <1>4

\* Waking one more thread adds one to the wakeups.
LEMMA OneMoreWoken ==
    ASSUME TypeOK, NEW w \in Waiting, at' = [at EXCEPT ![w] = "woken"]
    PROVE  /\ Waiting' \subseteq Waiting
           /\ Cardinality(Woken') = Cardinality(Woken) + 1
<1>1. Waiting' \subseteq Waiting /\ Woken' = Woken \cup {w} /\ w \notin Woken
  BY DEF TypeOK, Waiting, Woken
<1> QED BY <1>1, WokenFinite, FS_AddElement

\* Every step of the disciplined program keeps the wakeups.
LEMMA WakeupStep == Owned /\ NoLostWakeup /\ [DisciplinedNext]_vars => NoLostWakeup'
<1> SUFFICES ASSUME Owned, NoLostWakeup, [DisciplinedNext]_vars PROVE NoLostWakeup'
  OBVIOUS
<1>1. Len(pool) \in Nat /\ at \in [Threads -> {"out", "waiting", "woken"}]
  BY LenProperties DEF Owned, TypeOK
<1>2. ASSUME NEW t \in Threads, Acquire(t) \/ Resume(t)
      PROVE  NoLostWakeup'
  BY <1>2, EnterWakeup
<1>3. ASSUME NEW t \in Threads, SpuriousWakeup(t)
      PROVE  NoLostWakeup'
  <2>1. t \in Waiting /\ at' = [at EXCEPT ![t] = "woken"]
    BY <1>3 DEF SpuriousWakeup, Waiting
  <2>2. Waiting' \subseteq Waiting /\ Cardinality(Woken') = Cardinality(Woken) + 1
    BY <2>1, OneMoreWoken DEF Owned
  <2> QED BY <1>1, <1>3, <2>1, <2>2, WokenFinite DEF SpuriousWakeup, NoLostWakeup
<1>4. ASSUME NEW t \in Threads, NEW c \in held[t], Release(t, c)
      PROVE  NoLostWakeup'
  <2>1. initialized' = initialized /\ NotifyOne
    BY <1>4 DEF Release
  <2>2. Len(pool') = Len(pool) + 1
    BY <1>4, PushBack DEF Release, Owned, TypeOK
  <2>3. CASE Waiting = {}
    <3>1. Waiting' = Waiting
      BY <2>1, <2>3 DEF NotifyOne, NotifyNobody, Waiting
    <3> QED BY <2>3, <3>1 DEF NoLostWakeup
  <2>4. CASE Waiting # {}
    <3>1. PICK w \in Waiting : at' = [at EXCEPT ![w] = "woken"]
      BY <2>1, <2>4 DEF NotifyOne
    <3>2. Waiting' \subseteq Waiting /\ Cardinality(Woken') = Cardinality(Woken) + 1
      BY <3>1, OneMoreWoken DEF Owned
    <3> QED BY <1>1, <2>1, <2>2, <2>4, <3>2, WokenFinite DEF NoLostWakeup
  <2> QED BY <2>3, <2>4
<1>5. CASE FirstInit
  <2>1. ~initialized /\ at' = at
    BY <1>5 DEF FirstInit, InitPool
  <2>2. Waiting' = {}
    BY <2>1 DEF NoLostWakeup, Waiting
  <2> QED BY <2>2 DEF NoLostWakeup
<1>6. CASE Shutdown
  <2>1. Waiting' = {}
    BY <1>6 DEF Shutdown, NotifyAll, Waiting
  <2> QED BY <2>1 DEF NoLostWakeup
<1>7. CASE UNCHANGED <<pool, initialized, at>>
  BY <1>7 DEF NoLostWakeup, Waiting, Woken
<1> QED
  BY <1>2, <1>3, <1>4, <1>5, <1>6, <1>7
  DEF DisciplinedNext, CallerStep, DbStep, DbDown, DbUp, DropSession, vars

\* While a thread is blocked, every idle connection has a thread that was woken
\* for it, and the pool is not shut down.
THEOREM NoWakeupLost == DisciplinedSpec => []NoLostWakeup
<1>1. Init => NoLostWakeup
  BY DEF Init, NoLostWakeup, Waiting
<1>2. [DisciplinedNext]_vars => [Next]_vars
  BY DEF DisciplinedNext, FirstInit, Next
<1>3. Owned /\ [DisciplinedNext]_vars => Owned'
  BY <1>2, OwnedStep
<1> QED BY <1>1, <1>3, OwnedInit, WakeupStep, PTL DEF DisciplinedSpec
-----------------------------------------------------------------------------
(* The pool implements ConnectionLease.                                    *)

\* Each step of the pool is one of the lease, or none.
LEMMA LeaseStep == Owned /\ [Next]_vars => [Lease!Next]_Lease!vars
<1> SUFFICES ASSUME Owned, [Next]_vars PROVE [Lease!Next]_Lease!vars
  OBVIOUS
<1> DEFINE h == Head(pool)
<1>0. Lease!Leased = Held
  BY DEF Lease!Leased, Held
<1>1. ASSUME NEW t \in Threads, Acquire(t) \/ Resume(t)
      PROVE  [Lease!Next]_Lease!vars
  <2>1. CASE UNCHANGED <<pool, held>>
    BY <2>1 DEF Lease!vars, Idle
  <2>2. ASSUME CanProceed, initialized
        PROVE  h \in Idle /\ Range(Tail(pool)) = Idle \ {h} /\ Idle \subseteq Conns
    BY <2>2, PopFront, RangeOfSeq DEF CanProceed, Owned, TypeOK, Exclusive, Idle
  <2>3. CASE CanProceed /\ ReturnFront(t)
    <3>1. initialized /\ Idle' = Range(Tail(pool)) /\ held' = [held EXCEPT ![t] = @ \cup {h}]
      BY <2>3 DEF ReturnFront, Idle
    <3>2. Lease!Lease(t, h)
      BY <2>2, <2>3, <3>1 DEF Lease!Lease
    <3> QED BY <2>2, <2>3, <3>1, <3>2 DEF Lease!Next
  <2>4. CASE CanProceed /\ ReplaceDeadFront(t)
    <3>1. initialized /\ Idle' = Range(Tail(pool))
      BY <2>4 DEF ReplaceDeadFront, Idle
    <3>2. PICK c \in CreateConnection(open \ {h}) :
             held' = [held EXCEPT ![t] = @ \cup ({c} \ {NULL})]
      BY <2>4 DEF ReplaceDeadFront
    <3>3. h \in Idle /\ Idle' = Idle \ {h} /\ Idle \subseteq Conns
      BY <2>2, <2>4, <3>1
    <3>4. CASE c = NULL
      <4>1. held' = held
        BY <3>2, <3>4 DEF Owned, TypeOK
      <4>2. Idle' \in SUBSET Conns /\ Idle' \cap Lease!Leased = {}
        BY <1>0, <3>3 DEF Owned, Exclusive
      <4>3. Lease!Restock(Idle')
        BY <4>1, <4>2 DEF Lease!Restock
      <4> QED BY <4>2, <4>3 DEF Lease!Next
    <3>5. CASE c # NULL
      <4>1. c \in Conns /\ c \notin open \ {h} /\ {c} \ {NULL} = {c}
        BY <3>5 DEF CreateConnection
      <4>2. c \notin (Idle \ {h}) \cup Lease!Leased
        BY <1>0, <3>3, <4>1 DEF Owned, Accounted, Exclusive
      <4>3. held' = [held EXCEPT ![t] = @ \cup {c}]
        BY <3>2, <4>1
      <4>4. Lease!LeaseNew(t, h, c)
        BY <3>3, <4>1, <4>2, <4>3 DEF Lease!LeaseNew
      <4> QED BY <3>3, <4>1, <4>4 DEF Lease!Next
    <3> QED BY <3>4, <3>5
  <2> QED BY <1>1, <2>1, <2>3, <2>4 DEF Acquire, Resume, Enter, ReturnNull
<1>2. ASSUME NEW t \in Threads, NEW c \in held[t], Release(t, c)
      PROVE  [Lease!Next]_Lease!vars
  <2>1. c \in Conns
    BY DEF Owned, TypeOK
  <2>2. Idle' = Idle \cup {c}
    BY <1>2, <2>1, PushBack DEF Release, Owned, TypeOK, Idle
  <2>3. Lease!Return(t, c)
    BY <1>2, <2>2 DEF Release, Lease!Return
  <2> QED BY <2>3 DEF Lease!Next
<1>3. ASSUME InitPool \/ Shutdown
      PROVE  [Lease!Next]_Lease!vars
  <2>1. held' = held /\ Owned'
    BY <1>3, InitPoolOwned, ShutdownOwned DEF InitPool, Shutdown
  <2>2. Idle' \in SUBSET Conns
    BY <2>1, RangeOfSeq DEF Owned, TypeOK, Idle
  <2>3. Idle' \cap Lease!Leased = {}
    BY <1>0, <2>1 DEF Owned, Exclusive, Held
  <2>4. Lease!Restock(Idle')
    BY <2>1, <2>3 DEF Lease!Restock
  <2> QED BY <2>2, <2>4 DEF Lease!Next
<1>4. CASE UNCHANGED <<pool, held>>
  BY <1>4 DEF Lease!vars, Idle
<1> QED
  BY <1>1, <1>2, <1>3, <1>4
  DEF Next, CallerStep, SpuriousWakeup, DbStep, DbDown, DbUp, DropSession, vars

\* The pool keeps the promise of ConnectionLease: a connection changes hands only
\* through the idle queue, and a leased one is never touched by the pool.
THEOREM PoolImplementsLease == Spec => ImplementsLease
<1>1. Init => Lease!Init
  BY DEF Init, Lease!Init, Idle, Range
<1> QED BY <1>1, LeaseStep, OwnedAlways, PTL DEF Spec, ImplementsLease, Lease!Spec
-----------------------------------------------------------------------------
(* The pool implements ConnectionCount.                                    *)

\* Whom a connection is handed to, or who gives one back, changes how many are lent by
\* one.
LEMMA HeldCount ==
    ASSUME Owned, NEW t \in Threads, NEW c \in Conns
    PROVE  /\ IsFiniteSet(Held) /\ Cardinality(Held) \in Nat
           /\ c \notin Held /\ held' = [held EXCEPT ![t] = @ \cup {c}]
                => Cardinality(Held') = Cardinality(Held) + 1
           /\ c \in held[t] /\ held' = [held EXCEPT ![t] = @ \ {c}]
                => /\ Cardinality(Held') = Cardinality(Held) - 1
                   /\ Cardinality(Held) > 0
<1>1. held \in [Threads -> SUBSET Conns] /\ Held \subseteq Conns
  BY DEF Owned, TypeOK, Held
<1>2. IsFiniteSet(Held) /\ Cardinality(Held) \in Nat
  BY <1>1, ConnsAssumption, FS_Subset, FS_CardinalityType
<1>3. ASSUME c \notin Held, held' = [held EXCEPT ![t] = @ \cup {c}]
      PROVE  Cardinality(Held') = Cardinality(Held) + 1
  <2>1. Held' = Held \cup {c}
    BY <1>1, <1>3 DEF Held
  <2> QED BY <1>2, <1>3, <2>1, FS_AddElement
<1>4. ASSUME c \in held[t], held' = [held EXCEPT ![t] = @ \ {c}]
      PROVE  Cardinality(Held') = Cardinality(Held) - 1 /\ Cardinality(Held) > 0
  <2>1. \A s \in Threads : s # t => c \notin held[s]
    BY <1>4 DEF Owned, Exclusive
  <2>2. Held' = Held \ {c} /\ c \in Held
    BY <1>1, <1>4, <2>1 DEF Held
  <2>3. Cardinality(Held') = Cardinality(Held) - 1
    BY <1>2, <2>2, FS_RemoveElement
  <2>4. Cardinality(Held') \in Nat
    BY <1>2, <2>2, FS_RemoveElement, FS_CardinalityType
  <2> QED BY <1>2, <2>3, <2>4
<1> QED BY <1>2, <1>3, <1>4

\* acquire() after the wait: a null pointer, the front, its replacement, or its loss.
LEMMA EnterCounts ==
    ASSUME Owned, NEW t \in Threads, Enter(t)
    PROVE  [Count!Next]_Count!vars
<1> DEFINE h == Head(pool)
<1>1. CASE UNCHANGED <<pool, held>>
  <2>1. Held' = Held /\ initialized' = initialized
    BY <1>1 DEF Held, Enter
  <2> QED BY <1>1, <2>1 DEF Count!vars
<1>2. ASSUME CanProceed, initialized, pool' = Tail(pool)
      PROVE  /\ initialized' = initialized /\ Len(pool) \in Nat /\ Len(pool) > 0
             /\ Len(pool') = Len(pool) - 1 /\ h \in Idle
  <2>1. pool \in Seq(Conns) /\ pool # <<>>
    BY <1>2 DEF CanProceed, Owned, TypeOK
  <2>2. Len(Tail(pool)) = Len(pool) - 1 /\ Len(pool) \in Nat /\ Len(pool) > 0
    BY <2>1, HeadTailProperties, LenProperties, EmptySeq
  <2>3. h \in Idle
    BY <1>2, <2>1, PopFront DEF Owned, Exclusive, Idle
  <2> QED BY <1>2, <2>2, <2>3 DEF Enter
<1>3. ASSUME CanProceed, initialized, pool' = Tail(pool),
             NEW c \in Conns, c \notin Held, held' = [held EXCEPT ![t] = @ \cup {c}]
      PROVE  [Count!Next]_Count!vars
  <2>1. Cardinality(Held') = Cardinality(Held) + 1
    BY <1>3, HeldCount
  <2>2. Count!Lend
    BY <1>2, <1>3, <2>1 DEF Count!Lend, Count!TakeIdle
  <2> QED BY <2>2 DEF Count!Next
<1>4. CASE CanProceed /\ ReturnFront(t)
  <2>1. initialized /\ pool' = Tail(pool) /\ held' = [held EXCEPT ![t] = @ \cup {h}]
    BY <1>4 DEF ReturnFront
  <2>2. h \in Idle /\ h \in Conns /\ h \notin Held
    BY <1>2, <1>4, <2>1, RangeOfSeq DEF Owned, TypeOK, Exclusive, Idle
  <2> HIDE DEF h
  <2> QED BY <1>3, <1>4, <2>1, <2>2
<1>5. CASE CanProceed /\ ReplaceDeadFront(t)
  <2>1. initialized /\ pool' = Tail(pool)
    BY <1>5 DEF ReplaceDeadFront
  <2>2. PICK c \in CreateConnection(open \ {h}) :
           held' = [held EXCEPT ![t] = @ \cup ({c} \ {NULL})]
    BY <1>5 DEF ReplaceDeadFront
  <2>3. CASE c = NULL
    <3>1. held' = held /\ Held' = Held
      BY <2>2, <2>3 DEF Owned, TypeOK, Held
    <3>2. Count!Lose
      BY <1>2, <1>5, <2>1, <3>1 DEF Count!Lose, Count!TakeIdle
    <3> QED BY <3>2 DEF Count!Next
  <2>4. CASE c # NULL
    <3>1. c \in Conns /\ c \notin open \ {h} /\ {c} \ {NULL} = {c}
      BY <2>4 DEF CreateConnection
    <3>2. c \notin Held
      BY <1>2, <1>5, <2>1, <3>1 DEF Owned, Accounted, Exclusive
    <3>3. held' = [held EXCEPT ![t] = @ \cup {c}]
      BY <2>2, <3>1
    <3> QED BY <1>3, <1>5, <2>1, <3>1, <3>2, <3>3
  <2> QED BY <2>3, <2>4
<1>6. \/ UNCHANGED <<pool, held>>
      \/ CanProceed /\ ReturnFront(t)
      \/ CanProceed /\ ReplaceDeadFront(t)
  BY DEF Enter, ReturnNull
<1> QED BY <1>1, <1>4, <1>5, <1>6

\* init() and shutdown() touch the idle connections only.
LEMMA RestockCounts ==
    ASSUME Owned, InitPool \/ Shutdown
    PROVE  [Count!Next]_Count!vars
<1>1. Held' = Held
  BY DEF InitPool, Shutdown, Held
<1>2. CASE InitPool
  <2> DEFINE kept  == IF initialized THEN <<>> ELSE pool
             inUse == IF initialized THEN open \ Idle ELSE open
  <2>1. PICK new \in Batches(inUse) :
           pool' = kept \o new /\ initialized' = (pool' # <<>>)
    BY <1>2 DEF InitPool
  <2>2. PICK n \in 0..PoolSize : new \in [1..n -> Conns \ inUse]
    <3>1. PICK n \in 0..(IF up THEN PoolSize ELSE 0) : new \in [1..n -> Conns \ inUse]
      BY DEF Batches
    <3> QED BY <3>1, SizeAssumption
  <2> HIDE DEF inUse
  <2>3. n \in Nat /\ new \in Seq(Conns) /\ Len(new) = n
    BY <2>2, SizeAssumption, ElementOfSeq, IsASeq
  <2>4. kept \in Seq(Conns) /\ Len(kept) = (IF initialized THEN 0 ELSE Len(pool))
    BY EmptySeq DEF Owned, TypeOK
  <2> HIDE DEF kept
  <2>5. pool' \in Seq(Conns) /\ Len(pool') = Len(kept) + n /\ Len(kept) \in Nat
    BY <2>1, <2>3, <2>4, ConcatProperties, LenProperties
  <2>6. pool' # <<>> <=> Len(pool') > 0
    BY <2>5, EmptySeq, LenProperties
  <2>7. Len(pool') = n + (IF initialized THEN 0 ELSE Len(pool))
    BY <2>3, <2>4, <2>5
  <2>8. Count!Open
    BY <1>1, <2>1, <2>2, <2>6, <2>7 DEF Count!Open
  <2> QED BY <2>8 DEF Count!Next
<1>3. CASE Shutdown
  <2>1. pool' = <<>> /\ ~initialized'
    BY <1>3 DEF Shutdown
  <2>2. Len(pool') = 0
    BY <2>1
  <2>3. Count!Close
    BY <1>1, <2>1, <2>2 DEF Count!Close
  <2> QED BY <2>3 DEF Count!Next
<1> QED BY <1>2, <1>3

\* Each step of the pool is one of the count, or none.
LEMMA CountStep == Owned /\ [Next]_vars => [Count!Next]_Count!vars
<1> SUFFICES ASSUME Owned, [Next]_vars PROVE [Count!Next]_Count!vars
  OBVIOUS
<1>1. ASSUME NEW t \in Threads, Acquire(t) \/ Resume(t)
      PROVE  [Count!Next]_Count!vars
  BY <1>1, EnterCounts DEF Acquire, Resume
<1>2. ASSUME NEW t \in Threads, NEW c \in held[t], Release(t, c)
      PROVE  [Count!Next]_Count!vars
  <2>1. /\ c \in Conns /\ pool \in Seq(Conns) /\ pool' = Append(pool, c)
        /\ held' = [held EXCEPT ![t] = @ \ {c}] /\ initialized' = initialized
    BY <1>2 DEF Owned, TypeOK, Release
  <2>2. Len(pool') = Len(pool) + 1
    BY <2>1, AppendProperties
  <2>3. Cardinality(Held') = Cardinality(Held) - 1 /\ Cardinality(Held) > 0
    BY <2>1, HeldCount
  <2>4. Count!GiveBack
    BY <2>1, <2>2, <2>3 DEF Count!GiveBack
  <2> QED BY <2>4 DEF Count!Next
<1>3. CASE UNCHANGED <<pool, held, initialized>>
  <2>1. Held' = Held
    BY <1>3 DEF Held
  <2> QED BY <1>3, <2>1 DEF Count!vars
<1> QED
  BY <1>1, <1>2, <1>3, RestockCounts
  DEF Next, CallerStep, SpuriousWakeup, DbStep, DbDown, DbUp, DropSession, vars

\* The pool keeps count of what it has and what it has lent: acquire() takes one idle
\* connection, release() brings one, init() and shutdown() change nothing that is lent.
THEOREM PoolKeepsCount == Spec => ImplementsCount
<1>1. Init => Count!Init
  <2> SUFFICES ASSUME Init PROVE Count!Init
    OBVIOUS
  <2>1. Held = {} /\ Len(pool) = 0 /\ ~initialized
    BY DEF Init, Held
  <2>2. Cardinality(Held) = 0
    BY <2>1, FS_EmptySet
  <2> QED BY <2>1, <2>2 DEF Count!Init
<1> QED BY <1>1, CountStep, OwnedAlways, PTL DEF Spec, ImplementsCount, Count!Spec
-----------------------------------------------------------------------------
(* The mappers.                                                            *)

\* A batch of init() is a queue without duplicates.
LEMMA BatchIsQueue ==
    ASSUME NEW new \in Batches({})
    PROVE  new \in Seq(Conns) /\ IsInjective(new)
<1>1. PICK n \in 0..(IF up THEN PoolSize ELSE 0) : new \in [1..n -> Conns \ {}]
  BY DEF Batches
<1>2. n \in Nat
  BY SizeAssumption
<1>3. new \in Seq(Conns)
  BY <1>1, <1>2, SeqDef
<1> QED BY <1>3 DEF Batches

\* What main() starts the server with.
LEMMA MapperInitOwned == MapperInit => Owned
<1> SUFFICES ASSUME MapperInit PROVE Owned
  OBVIOUS
<1>1. PICK s \in Batches({}) : pool = s /\ open = Range(s) /\ live = Range(s)
  BY DEF MapperInit
<1>2. pool \in Seq(Conns) /\ IsInjective(pool)
  BY <1>1, BatchIsQueue
<1>3. Held = {}
  BY DEF MapperInit, Held
<1>4. inits \in 0..MaxInits
  BY SizeAssumption, InitedAssumption DEF MapperInit
<1>5. open \subseteq Conns
  BY <1>1, <1>2, RangeOfSeq
<1>6. initialized \in BOOLEAN /\ up \in BOOLEAN
  BY DEF MapperInit
<1>7. /\ held \in [Threads -> SUBSET Conns]
      /\ at \in [Threads -> {"out", "waiting", "woken"}]
  BY DEF MapperInit
<1>8. TypeOK
  BY <1>1, <1>2, <1>4, <1>5, <1>6, <1>7 DEF TypeOK
<1>9. Exclusive
  BY <1>2, <1>3 DEF Exclusive, MapperInit
<1>10. Accounted
  BY <1>1, <1>3 DEF Accounted, Idle
<1> QED BY <1>8, <1>9, <1>10 DEF Owned

\* The steps of the mappers are steps of the pool.
LEMMA MapperStepIsPoolStep ==
    ASSUME Owned, [MapperNext \/ (DbStep /\ UNCHANGED mvars)]_allVars
    PROVE  [Next]_vars
<1>1. ASSUME NEW t \in Threads, InsideCall(t)
      PROVE  [Next]_vars
  <2>1. ASSUME NEW c, Destroy(t, c)
        PROVE  [Next]_vars
    <3>1. CASE c = NULL
      BY <2>1, <3>1 DEF Destroy
    <3>2. CASE c # NULL
      BY <2>1, <3>2 DEF Destroy, Release, Next, CallerStep
    <3> QED BY <3>1, <3>2
  <2>2. CASE OpenInner(t) \/ Wake(t)
    BY <2>2 DEF OpenInner, Wake, Next, CallerStep
  <2>3. CASE CloseInner(t) \/ Return(t)
    BY <2>1, <2>3 DEF CloseInner, Return
  <2> QED BY <1>1, <2>2, <2>3 DEF InsideCall
<1>2. ASSUME NEW t \in Threads, NEW n \in 0..MaxInner, Begin(t, n)
      PROVE  [Next]_vars
  BY <1>2 DEF Begin, Next, CallerStep
<1>3. ASSUME NEW t \in Threads, SpuriousWakeup(t)
      PROVE  [Next]_vars
  BY <1>3 DEF Next, CallerStep
<1> QED BY <1>1, <1>2, <1>3 DEF MapperNext, Next, allVars
-----------------------------------------------------------------------------
(* A thread holds what its ScopedConnections hold.                         *)

\* One thread's part of the invariant.  NothingKept alone is not inductive: the
\* inner destructor may give back only what the outer one does not hold, and a
\* thread that blocks has at most one scope behind it.
ScopesOf(t) ==
    /\ \/ scopes[t] = <<>>
       \/ \E a \in Conns \cup {NULL} : scopes[t] = <<a>>
       \/ \E a, b \in Conns \cup {NULL} : scopes[t] = <<a, b>> /\ a # b
    /\ held[t] = Range(scopes[t]) \ {NULL}
    /\ ~busy[t] => scopes[t] = <<>> /\ at[t] = "out"
    /\ at[t] # "out" => scopes[t] = <<>> \/ \E a \in Conns : scopes[t] = <<a>>

ScopesOK ==
    /\ scopes \in [Threads -> Seq(Conns \cup {NULL})]
    /\ busy \in [Threads -> BOOLEAN]
    /\ \A t \in Threads : ScopesOf(t)

\* The elements of the short sequences a scope stack can be.
LEMMA ShortRange ==
    /\ Range(<<>>) = {}
    /\ \A a : Range(<<a>>) = {a}
    /\ \A a, b : Range(<<a, b>>) = {a, b}
<1>1. Range(<<>>) = {}
  BY DEF Range
<1>2. ASSUME NEW a PROVE Range(<<a>>) = {a}
  <2>1. DOMAIN <<a>> = {1} /\ <<a>>[1] = a
    OBVIOUS
  <2> QED BY <2>1 DEF Range
<1>3. ASSUME NEW a, NEW b PROVE Range(<<a, b>>) = {a, b}
  <2>1. DOMAIN <<a, b>> = {1, 2} /\ <<a, b>>[1] = a /\ <<a, b>>[2] = b
    OBVIOUS
  <2> QED BY <2>1 DEF Range
<1> QED BY <1>1, <1>2, <1>3

\* Their lengths, their elements and how they grow.
LEMMA ShortSeq ==
    /\ Len(<<>>) = 0
    /\ \A a : Len(<<a>>) = 1 /\ <<a>>[1] = a /\ <<a>> # <<>> /\ Append(<<>>, a) = <<a>>
    /\ \A a, b : /\ Len(<<a, b>>) = 2 /\ <<a, b>>[1] = a /\ <<a, b>>[2] = b
                 /\ <<a, b>> # <<>> /\ Append(<<a>>, b) = <<a, b>>
<1>1. Len(<<>>) = 0
  OBVIOUS
<1>2. ASSUME NEW a
      PROVE  Len(<<a>>) = 1 /\ <<a>>[1] = a /\ <<a>> # <<>> /\ Append(<<>>, a) = <<a>>
  <2>1. Len(<<a>>) = 1 /\ <<a>>[1] = a
    OBVIOUS
  <2>2. <<a>> # <<>>
    BY <1>1, <2>1
  <2>3. Append(<<>>, a) = <<a>>
    OBVIOUS
  <2> QED BY <2>1, <2>2, <2>3
<1>3. ASSUME NEW a, NEW b
      PROVE  /\ Len(<<a, b>>) = 2 /\ <<a, b>>[1] = a /\ <<a, b>>[2] = b
             /\ <<a, b>> # <<>> /\ Append(<<a>>, b) = <<a, b>>
  <2>1. Len(<<a, b>>) = 2 /\ <<a, b>>[1] = a /\ <<a, b>>[2] = b
    OBVIOUS
  <2>2. <<a, b>> # <<>>
    BY <1>1, <2>1
  <2>3. Append(<<a>>, b) = <<a, b>>
    <3>1. <<a>> \in Seq({a, b}) /\ <<a, b>> \in Seq({a, b})
      OBVIOUS
    <3>2. /\ Append(<<a>>, b) \in Seq({a, b}) /\ Len(Append(<<a>>, b)) = 2
          /\ Append(<<a>>, b)[1] = a /\ Append(<<a>>, b)[2] = b
      BY <3>1, AppendProperties
    <3>3. \A i \in 1..2 : Append(<<a>>, b)[i] = <<a, b>>[i]
      BY <2>1, <3>2
    <3> QED BY <2>1, <3>1, <3>2, <3>3, SeqEqual
  <2> QED BY <2>1, <2>2, <2>3
<1> QED BY <1>1, <1>2, <1>3

\* What the number of scopes says about them.
LEMMA ScopeShape ==
    ASSUME NEW t \in Threads, ScopesOf(t)
    PROVE  /\ Len(scopes[t]) = 1 => \E a \in Conns \cup {NULL} : scopes[t] = <<a>>
           /\ Len(scopes[t]) = 2 =>
                /\ \E a, b \in Conns \cup {NULL} : scopes[t] = <<a, b>> /\ a # b
                /\ at[t] = "out"
           /\ Len(scopes[t]) # 0 => busy[t]
<1>1. CASE scopes[t] = <<>>
  <2>1. Len(scopes[t]) = 0
    BY <1>1, ShortSeq
  <2> QED BY <2>1
<1>2. ASSUME NEW a \in Conns \cup {NULL}, scopes[t] = <<a>>
      PROVE  Len(scopes[t]) = 1 /\ scopes[t] # <<>>
  BY <1>2, ShortSeq
<1>3. ASSUME NEW a \in Conns \cup {NULL}, NEW b \in Conns \cup {NULL},
             scopes[t] = <<a, b>>
      PROVE  Len(scopes[t]) = 2 /\ scopes[t] # <<>>
  BY <1>3, ShortSeq
<1>4. scopes[t] # <<>> => busy[t]
  BY DEF ScopesOf
<1>5. Len(scopes[t]) = 2 => at[t] = "out"
  <2>1. \A a \in Conns : scopes[t] = <<a>> => Len(scopes[t]) = 1
    BY <1>2
  <2>2. scopes[t] = <<>> => Len(scopes[t]) = 0
    BY ShortSeq
  <2> QED BY <2>1, <2>2 DEF ScopesOf
<1>6. CASE \E a \in Conns \cup {NULL} : scopes[t] = <<a>>
  <2>1. Len(scopes[t]) = 1 /\ scopes[t] # <<>>
    BY <1>2, <1>6
  <2> QED BY <1>4, <1>6, <2>1
<1>7. CASE \E a, b \in Conns \cup {NULL} : scopes[t] = <<a, b>> /\ a # b
  <2>1. Len(scopes[t]) = 2 /\ scopes[t] # <<>>
    BY <1>3, <1>7
  <2> QED BY <1>4, <1>5, <1>7, <2>1
<1> QED BY <1>1, <1>6, <1>7 DEF ScopesOf

\* A constructor blocks, or ends with a pointer the thread did not hold.
LEMMA Construction ==
    ASSUME Owned, ScopesOK, NEW t \in Threads, Acquire(t) \/ Resume(t), Constructed(t)
    PROVE  \/ /\ at' = [at EXCEPT ![t] = "waiting"]
              /\ scopes' = scopes /\ held' = held
           \/ /\ at' = [at EXCEPT ![t] = "out"]
              /\ \E g \in Conns \cup {NULL} :
                   /\ g \notin held[t]
                   /\ scopes' = [scopes EXCEPT ![t] = Append(@, g)]
                   /\ held' = [held EXCEPT ![t] = @ \cup ({g} \ {NULL})]
<1> USE DEF Owned
<1>1. /\ at \in [Threads -> {"out", "waiting", "woken"}]
      /\ held \in [Threads -> SUBSET Conns] /\ held[t] \subseteq Held
  BY DEF TypeOK, Held
<1>2. Enter(t)
  BY DEF Acquire, Resume
<1>3. CASE ~CanProceed
  <2>1. at' = [at EXCEPT ![t] = "waiting"] /\ held' = held
    BY <1>2, <1>3 DEF Enter
  <2> QED BY <1>1, <2>1 DEF Constructed
<1>4. CASE CanProceed
  <2>1. at' = [at EXCEPT ![t] = "out"]
    BY <1>2, <1>4 DEF Enter
  <2>2. scopes' = [scopes EXCEPT ![t] = Append(@, Got(t))]
    BY <1>1, <2>1 DEF Constructed
  <2>3. ASSUME NEW g \in Conns, g \notin held[t],
               held' = [held EXCEPT ![t] = @ \cup {g}]
        PROVE  Got(t) = g /\ {g} \ {NULL} = {g}
    <3>1. held'[t] = held[t] \cup {g}
      BY <1>1, <2>3
    <3>2. \A c \in Conns : c \in held'[t] \ held[t] <=> c = g
      BY <2>3, <3>1
    <3>3. (CHOOSE c \in Conns : c \in held'[t] \ held[t]) = g
      BY <2>3, <3>2
    <3>4. held'[t] # held[t]
      BY <2>3, <3>1
    <3>5. g # NULL
      BY ConnsAssumption
    <3> QED BY <3>3, <3>4, <3>5 DEF Got
  <2>4. ASSUME held' = held
        PROVE  Got(t) = NULL /\ held' = [held EXCEPT ![t] = @ \cup ({NULL} \ {NULL})]
    BY <1>1, <2>4 DEF Got
  <2>5. NULL \notin held[t]
    BY <1>1, ConnsAssumption
  <2>6. CASE ReturnNull(t)
    BY <2>1, <2>2, <2>4, <2>5, <2>6 DEF ReturnNull
  <2>7. ASSUME initialized
        PROVE  Head(pool) \in Idle /\ Head(pool) \in Conns /\ Head(pool) \notin held[t]
    <3>1. Head(pool) \in Idle /\ Idle \subseteq Conns
      BY <1>4, <2>7, PopFront, RangeOfSeq DEF CanProceed, TypeOK, Exclusive, Idle
    <3> QED BY <1>1, <3>1 DEF Exclusive
  <2>8. CASE ReturnFront(t)
    <3> DEFINE g == Head(pool)
    <3>1. g \in Conns /\ g \notin held[t] /\ held' = [held EXCEPT ![t] = @ \cup {g}]
      BY <2>7, <2>8 DEF ReturnFront
    <3>2. Got(t) = g /\ {g} \ {NULL} = {g}
      BY <2>3, <3>1
    <3> HIDE DEF g
    <3> QED BY <2>1, <2>2, <3>1, <3>2
  <2>9. CASE ReplaceDeadFront(t)
    <3>1. PICK c \in CreateConnection(open \ {Head(pool)}) :
              held' = [held EXCEPT ![t] = @ \cup ({c} \ {NULL})]
      BY <2>9 DEF ReplaceDeadFront
    <3>2. CASE c = NULL
      <4>1. held' = held
        BY <1>1, <3>1, <3>2
      <4> QED BY <2>1, <2>2, <2>4, <2>5, <4>1
    <3>3. CASE c # NULL
      <4>1. c \in Conns /\ c \notin open \ {Head(pool)} /\ {c} \ {NULL} = {c}
        BY <3>3 DEF CreateConnection
      <4>2. c \notin held[t]
        BY <1>1, <2>7, <2>9, <4>1 DEF ReplaceDeadFront, Accounted
      <4>3. held' = [held EXCEPT ![t] = @ \cup {c}]
        BY <3>1, <4>1
      <4>4. Got(t) = c
        BY <2>3, <4>1, <4>2, <4>3
      <4> QED BY <2>1, <2>2, <3>1, <4>1, <4>2, <4>4
    <3> QED BY <3>2, <3>3
  <2> QED BY <1>2, <1>4, <2>6, <2>8, <2>9 DEF Enter
<1> QED BY <1>3, <1>4

\* A step of one thread leaves the scopes of the others alone: at most it wakes them.
LEMMA ScopesFrame ==
    ASSUME NEW s \in Threads, ScopesOf(s),
           scopes'[s] = scopes[s], held'[s] = held[s], busy'[s] = busy[s],
           at'[s] = "out" <=> at[s] = "out"
    PROVE  ScopesOf(s)'
BY DEF ScopesOf

\* Whatever a constructor returns, the scopes of its thread stay in order.
LEMMA ConstructionScopes ==
    ASSUME Owned, ScopesOK, NEW t \in Threads, Acquire(t) \/ Resume(t), Constructed(t),
           scopes[t] = <<>> \/ \E a \in Conns : scopes[t] = <<a>>,
           busy' \in [Threads -> BOOLEAN], busy'[t] = TRUE,
           \A s \in Threads \ {t} : busy'[s] = busy[s]
    PROVE  ScopesOK'
<1> USE DEF Owned, ScopesOK
<1>1. /\ at \in [Threads -> {"out", "waiting", "woken"}]
      /\ held \in [Threads -> SUBSET Conns]
  BY DEF TypeOK
<1>2. held[t] = Range(scopes[t]) \ {NULL}
  BY DEF ScopesOf
<1>3. CASE /\ at' = [at EXCEPT ![t] = "waiting"]
           /\ scopes' = scopes /\ held' = held
  <2>1. ScopesOf(t)'
    BY <1>1, <1>3 DEF ScopesOf
  <2>2. \A s \in Threads \ {t} : ScopesOf(s)'
    BY <1>1, <1>3, ScopesFrame
  <2> QED BY <1>3, <2>1, <2>2
<1>4. ASSUME NEW g \in Conns \cup {NULL},
             at' = [at EXCEPT ![t] = "out"],
             g \notin held[t],
             scopes' = [scopes EXCEPT ![t] = Append(@, g)],
             held' = [held EXCEPT ![t] = @ \cup ({g} \ {NULL})]
      PROVE  ScopesOK'
  <2>1. /\ scopes'[t] = Append(scopes[t], g)
        /\ held'[t] = held[t] \cup ({g} \ {NULL})
        /\ at'[t] = "out"
    BY <1>1, <1>4
  <2>2. \A s \in Threads \ {t} : ScopesOf(s)'
    <3> SUFFICES ASSUME NEW s \in Threads \ {t} PROVE ScopesOf(s)'
      OBVIOUS
    <3>1. scopes'[s] = scopes[s]
      BY <1>4
    <3>2. held'[s] = held[s] /\ at'[s] = at[s]
      BY <1>1, <1>4
    <3> QED BY <3>1, <3>2, ScopesFrame
  <2>3. ASSUME scopes[t] = <<>>
        PROVE  ScopesOf(t)'
    <3>1. scopes'[t] = <<g>>
      BY <2>1, <2>3, ShortSeq
    <3>2. held'[t] = {g} \ {NULL}
      BY <1>2, <2>1, <2>3, ShortRange
    <3> QED BY <2>1, <3>1, <3>2, ShortRange DEF ScopesOf
  <2>4. ASSUME NEW a \in Conns, scopes[t] = <<a>>
        PROVE  ScopesOf(t)'
    <3>1. scopes'[t] = <<a, g>>
      BY <2>1, <2>4, ShortSeq
    <3>2. held[t] = {a} \ {NULL} /\ a # NULL
      BY <1>2, <2>4, ShortRange, ConnsAssumption
    <3>3. a # g /\ held'[t] = {a, g} \ {NULL}
      BY <1>4, <2>1, <3>2
    <3>4. held'[t] = Range(scopes'[t]) \ {NULL}
      BY <3>1, <3>3, ShortRange
    <3>5. \E x, y \in Conns \cup {NULL} : scopes'[t] = <<x, y>> /\ x # y
      BY <3>1, <3>3
    <3> QED BY <2>1, <3>4, <3>5 DEF ScopesOf
  <2>5. ScopesOf(t)'
    BY <2>3, <2>4, <2>1 DEF ScopesOf
  <2>6. scopes' \in [Threads -> Seq(Conns \cup {NULL})]
    <3>1. Append(scopes[t], g) \in Seq(Conns \cup {NULL})
      BY AppendProperties
    <3> QED BY <1>4, <3>1
  <2> QED BY <2>2, <2>5, <2>6
<1> QED BY <1>3, <1>4, Construction

\* A destructor gives back what its scope holds and nothing else.
LEMMA DestructionFrame ==
    ASSUME Owned, NEW t \in Threads, at[t] = "out", NEW c \in Conns \cup {NULL},
           Destroy(t, c)
    PROVE  /\ held'[t] = held[t] \ {c}
           /\ at'[t] = "out"
           /\ \A s \in Threads \ {t} :
                held'[s] = held[s] /\ (at'[s] = "out" <=> at[s] = "out")
<1>1. /\ at \in [Threads -> {"out", "waiting", "woken"}]
      /\ held \in [Threads -> SUBSET Conns]
  BY DEF Owned, TypeOK
<1>2. CASE c = NULL
  <2>1. held' = held /\ at' = at
    BY <1>2 DEF Destroy, vars
  <2> QED BY <1>1, <1>2, <2>1, ConnsAssumption
<1>3. CASE c # NULL
  <2>1. held' = [held EXCEPT ![t] = @ \ {c}] /\ NotifyOne
    BY <1>3 DEF Destroy, Release
  <2>2. \A s \in Threads : at'[s] = at[s] \/ (at[s] = "waiting" /\ at'[s] = "woken")
    BY <1>1, <2>1 DEF NotifyOne, NotifyNobody, Waiting
  <2> QED BY <1>1, <2>1, <2>2
<1> QED BY <1>2, <1>3

\* Every step of the mappers and of the database keeps the scopes in order.
LEMMA ScopesStep ==
    ASSUME Owned, ScopesOK, [MapperNext \/ (DbStep /\ UNCHANGED mvars)]_allVars
    PROVE  ScopesOK'
<1> USE DEF ScopesOK
<1>1. at \in [Threads -> {"out", "waiting", "woken"}]
  BY DEF Owned, TypeOK
<1>2. ASSUME NEW t \in Threads, NEW n \in 0..MaxInner, Begin(t, n)
      PROVE  ScopesOK'
  <2>1. scopes[t] = <<>>
    BY <1>2 DEF Begin, ScopesOf
  <2>2. /\ busy' \in [Threads -> BOOLEAN] /\ busy'[t] = TRUE
        /\ \A s \in Threads \ {t} : busy'[s] = busy[s]
    BY <1>2 DEF Begin
  <2> QED BY <1>2, <2>1, <2>2, ConstructionScopes DEF Begin
<1>3. ASSUME NEW t \in Threads, scopes[t] # <<>> \/ at[t] # "out", UNCHANGED busy
      PROVE  /\ busy' \in [Threads -> BOOLEAN] /\ busy'[t] = TRUE
             /\ \A s \in Threads \ {t} : busy'[s] = busy[s]
  BY <1>3 DEF ScopesOf
<1>4. ASSUME NEW t \in Threads, OpenInner(t)
      PROVE  ScopesOK'
  <2>1. Len(scopes[t]) = 1 /\ scopes[t][1] # NULL
    BY <1>4 DEF OpenInner
  <2>2. \E a \in Conns : scopes[t] = <<a>>
    <3>1. PICK a \in Conns \cup {NULL} : scopes[t] = <<a>>
      BY <2>1, ScopeShape
    <3>2. a # NULL
      BY <2>1, <3>1, ShortSeq
    <3> QED BY <3>1, <3>2
  <2>3. scopes[t] # <<>>
    BY <2>1, ShortSeq
  <2> QED BY <1>3, <1>4, <2>2, <2>3, ConstructionScopes DEF OpenInner
<1>5. ASSUME NEW t \in Threads, Wake(t)
      PROVE  ScopesOK'
  <2>1. at[t] # "out"
    BY <1>5 DEF Wake, Resume
  <2>2. scopes[t] = <<>> \/ \E a \in Conns : scopes[t] = <<a>>
    BY <2>1 DEF ScopesOf
  <2> QED BY <1>3, <1>5, <2>1, <2>2, ConstructionScopes DEF Wake
<1>6. ASSUME NEW t \in Threads, CloseInner(t)
      PROVE  ScopesOK'
  <2>0. Len(scopes[t]) = 2
    BY <1>6 DEF CloseInner
  <2>1. PICK a, b \in Conns \cup {NULL} : scopes[t] = <<a, b>> /\ a # b
    BY <2>0, ScopeShape
  <2>2. at[t] = "out" /\ busy[t]
    <3>1. ScopesOf(t) /\ Len(scopes[t]) # 0
      BY <2>0
    <3> QED BY <2>0, <3>1, ScopeShape, Zenon
  <2>3. /\ Destroy(t, b)
        /\ scopes' = [scopes EXCEPT ![t] = <<a>>] /\ busy' = busy
    BY <1>6, <2>1, ShortSeq DEF CloseInner
  <2>4. /\ held'[t] = held[t] \ {b} /\ at'[t] = "out"
        /\ \A s \in Threads \ {t} :
             held'[s] = held[s] /\ (at'[s] = "out" <=> at[s] = "out")
    BY <2>2, <2>3, DestructionFrame
  <2>5. held[t] = {a, b} \ {NULL}
    BY <2>1, ShortRange DEF ScopesOf
  <2>6. scopes'[t] = <<a>> /\ \A s \in Threads \ {t} : scopes'[s] = scopes[s]
    BY <2>3
  <2>7. held'[t] = Range(<<a>>) \ {NULL}
    BY <2>1, <2>4, <2>5, ShortRange
  <2>8. ScopesOf(t)'
    BY <2>2, <2>3, <2>4, <2>6, <2>7 DEF ScopesOf
  <2>9. \A s \in Threads \ {t} : ScopesOf(s)'
    BY <2>3, <2>4, <2>6, ScopesFrame
  <2>10. scopes' \in [Threads -> Seq(Conns \cup {NULL})]
    <3>1. <<a>> \in Seq(Conns \cup {NULL})
      OBVIOUS
    <3> QED BY <2>3, <3>1
  <2> QED BY <2>3, <2>8, <2>9, <2>10
<1>7. ASSUME NEW t \in Threads, Return(t)
      PROVE  ScopesOK'
  <2>0. Len(scopes[t]) = 1
    BY <1>7 DEF Return
  <2>1. PICK a \in Conns \cup {NULL} : scopes[t] = <<a>>
    BY <2>0, ScopeShape
  <2>2. /\ at[t] = "out" /\ Destroy(t, a)
        /\ scopes' = [scopes EXCEPT ![t] = <<>>]
        /\ busy' = [busy EXCEPT ![t] = FALSE]
    BY <1>7, <2>1, ShortSeq DEF Return
  <2>3. /\ held'[t] = held[t] \ {a} /\ at'[t] = "out"
        /\ \A s \in Threads \ {t} :
             held'[s] = held[s] /\ (at'[s] = "out" <=> at[s] = "out")
    BY <2>2, DestructionFrame
  <2>4. held[t] = {a} \ {NULL}
    BY <2>1, ShortRange DEF ScopesOf
  <2>5. scopes'[t] = <<>> /\ \A s \in Threads \ {t} : scopes'[s] = scopes[s]
    BY <2>2
  <2>6. held'[t] = Range(<<>>) \ {NULL}
    BY <2>3, <2>4, ShortRange
  <2>7. ScopesOf(t)'
    BY <2>3, <2>5, <2>6 DEF ScopesOf
  <2>8. \A s \in Threads \ {t} : ScopesOf(s)'
    BY <2>2, <2>3, <2>5, ScopesFrame
  <2>9. scopes' \in [Threads -> Seq(Conns \cup {NULL})]
    BY <2>2, EmptySeq
  <2> QED BY <2>2, <2>7, <2>8, <2>9
<1>8. ASSUME NEW t \in Threads, SpuriousWakeup(t), UNCHANGED mvars
      PROVE  ScopesOK'
  BY <1>1, <1>8, ScopesFrame DEF SpuriousWakeup, mvars
<1>9. CASE (DbStep /\ UNCHANGED mvars) \/ UNCHANGED allVars
  <2>1. UNCHANGED <<held, at, busy, scopes>>
    BY <1>9 DEF DbStep, DbDown, DbUp, DropSession, allVars, vars, mvars
  <2> QED BY <2>1, ScopesFrame
<1> QED
  BY <1>2, <1>4, <1>5, <1>6, <1>7, <1>8, <1>9 DEF MapperNext, InsideCall

\* The invariant of the mappers holds at the start.
LEMMA ScopesInit == MapperInit => ScopesOK
BY ShortRange, EmptySeq DEF MapperInit, ScopesOK, ScopesOf

\* Ownership and scopes together, over a database that fails.
THEOREM FaultyMapperInvariant == FaultyMapperSpec => [](Owned /\ ScopesOK)
<1>1. MapperInit => Owned /\ ScopesOK
  BY MapperInitOwned, ScopesInit
<1>2. Owned /\ ScopesOK /\ [MapperNext \/ (DbStep /\ UNCHANGED mvars)]_allVars
        => (Owned /\ ScopesOK)'
  BY MapperStepIsPoolStep, OwnedStep, ScopesStep
<1> QED BY <1>1, <1>2, PTL DEF FaultyMapperSpec

\* RAII: between two mapper calls a thread holds no connection, and inside one the
\* connections of its live ScopedConnections, even while the database fails.
THEOREM ScopesGiveBack == FaultyMapperSpec => []NothingKept
<1>1. ScopesOK => NothingKept
  BY DEF ScopesOK, ScopesOf, NothingKept
<1> QED BY <1>1, FaultyMapperInvariant, PTL

\* The inner calls a mapper has still to make are counted down from what it began with.
LeftOK == left \in [Threads -> 0..MaxInner]

LEMMA LeftStep ==
    ASSUME LeftOK, [MapperNext \/ (DbStep /\ UNCHANGED mvars)]_allVars
    PROVE  LeftOK'
<1> USE MaxInnerAssumption DEF LeftOK
<1>1. ASSUME NEW t \in Threads, NEW n \in 0..MaxInner, Begin(t, n)
      PROVE  LeftOK'
  BY <1>1 DEF Begin
<1>2. ASSUME NEW t \in Threads, OpenInner(t)
      PROVE  LeftOK'
  <2>1. left[t] - 1 \in 0..MaxInner
    BY <1>2 DEF OpenInner
  <2> QED BY <1>2, <2>1 DEF OpenInner
<1>3. ASSUME NEW t \in Threads, Wake(t) \/ CloseInner(t)
      PROVE  LeftOK'
  BY <1>3 DEF Wake, CloseInner
<1>4. ASSUME NEW t \in Threads, Return(t)
      PROVE  LeftOK'
  BY <1>4 DEF Return
<1>5. CASE UNCHANGED left
  BY <1>5
<1> QED BY <1>1, <1>2, <1>3, <1>4, <1>5 DEF MapperNext, InsideCall, allVars, mvars

\* A scope stack in order is a sequence of at most two pointers.
LEMMA ScopesType == ScopesOK /\ LeftOK => MapperTypeOK
<1> SUFFICES ASSUME ScopesOK, NEW t \in Threads
             PROVE  \E n \in 0..2 : scopes[t] \in [1..n -> Conns \cup {NULL}]
  BY DEF MapperTypeOK, ScopesOK, LeftOK
<1>1. scopes[t] \in Seq(Conns \cup {NULL})
  BY DEF ScopesOK
<1>2. Len(scopes[t]) \in 0..2
  <2>1. CASE scopes[t] = <<>>
    BY <2>1, ShortSeq
  <2>2. CASE \E a \in Conns \cup {NULL} : scopes[t] = <<a>>
    BY <2>2, ShortSeq
  <2>3. CASE \E a, b \in Conns \cup {NULL} : scopes[t] = <<a, b>> /\ a # b
    BY <2>3, ShortSeq
  <2> QED BY <2>1, <2>2, <2>3 DEF ScopesOK, ScopesOf
<1>3. scopes[t] \in [1..Len(scopes[t]) -> Conns \cup {NULL}]
  BY <1>1, LenProperties
<1> QED BY <1>2, <1>3

\* A mapper call never has more than two ScopedConnections alive, and never makes
\* more inner calls than its problem has test cases, while the database fails or not.
THEOREM MapperTypesFaulty == FaultyMapperSpec => []MapperTypeOK
<1>1. MapperInit => LeftOK
  BY MaxInnerAssumption DEF MapperInit, LeftOK
<1>2. ScopesOK /\ LeftOK => MapperTypeOK
  BY ScopesType
<1>3. LeftOK /\ [MapperNext \/ (DbStep /\ UNCHANGED mvars)]_allVars => LeftOK'
  BY LeftStep
<1> QED BY <1>1, <1>2, <1>3, FaultyMapperInvariant, PTL DEF FaultyMapperSpec

\* The mappers over a healthy database are a case of it.
THEOREM MapperTypes == MapperSpec => []MapperTypeOK
<1>1. [MapperNext]_allVars => [MapperNext \/ (DbStep /\ UNCHANGED mvars)]_allVars
  OBVIOUS
<1>2. MapperSpec => FaultyMapperSpec
  BY <1>1, PTL DEF MapperSpec, FaultyMapperSpec
<1> QED BY <1>2, MapperTypesFaulty, PTL
-----------------------------------------------------------------------------
(* The size that rules out the circular wait.                              *)

\* The pool as init() made it, over a database that does not fail: as many live
\* connections as were asked for.
Healthy ==
    /\ initialized
    /\ live = open
    /\ Cardinality(open) = PoolSize

\* The pool starts out healthy.
LEMMA HealthyInit ==
    ASSUME PoolSize > 0, MapperInit
    PROVE  Healthy
<1>1. PICK s \in Batches({}) : Len(s) = PoolSize /\ open = Range(s) /\ live = Range(s)
  BY DEF MapperInit
<1>2. s \in Seq(Conns) /\ IsInjective(s)
  BY BatchIsQueue
<1>3. s \in [1..PoolSize -> Conns] /\ DOMAIN s = 1..PoolSize
  BY <1>1, <1>2, LenProperties
<1>4. s \in Surjection(1..PoolSize, Range(s)) /\ s \in Injection(1..PoolSize, Range(s))
  BY <1>2, <1>3 DEF Surjection, Injection, Range
<1>5. IsFiniteSet(1..PoolSize) /\ Cardinality(1..PoolSize) = PoolSize
  BY SizeAssumption, FS_Interval
<1>6. Cardinality(Range(s)) = PoolSize
  BY <1>4, <1>5, FS_Surjection
<1> QED BY <1>1, <1>6 DEF MapperInit, Healthy

\* The mappers alone leave the connections of a healthy pool as they are.
LEMMA HealthyStep ==
    ASSUME Owned, Healthy, [MapperNext]_allVars
    PROVE  Healthy'
<1>1. ASSUME NEW t \in Threads, Acquire(t) \/ Resume(t)
      PROVE  UNCHANGED <<initialized, open, live>>
  <2>1. Enter(t)
    BY <1>1 DEF Acquire, Resume
  <2>2. CASE CanProceed
    <3>1. Head(pool) \in Idle
      BY <2>2, PopFront DEF CanProceed, Healthy, Owned, TypeOK, Exclusive, Idle
    <3>2. Head(pool) \in live
      BY <3>1 DEF Healthy, Owned, Accounted
    <3> QED BY <2>1, <2>2, <3>2 DEF Enter, Healthy, ReturnNull, ReturnFront, ReplaceDeadFront
  <2> QED BY <2>1, <2>2 DEF Enter
<1>2. ASSUME NEW t \in Threads, NEW c, Destroy(t, c)
      PROVE  UNCHANGED <<initialized, open, live>>
  BY <1>2 DEF Destroy, Release, vars
<1>3. ASSUME NEW t \in Threads, InsideCall(t)
      PROVE  UNCHANGED <<initialized, open, live>>
  BY <1>1, <1>2, <1>3 DEF InsideCall, OpenInner, Wake, CloseInner, Return
<1>4. ASSUME NEW t \in Threads, NEW n \in 0..MaxInner, Begin(t, n)
      PROVE  UNCHANGED <<initialized, open, live>>
  BY <1>1, <1>4 DEF Begin
<1>5. UNCHANGED <<initialized, open, live>>
  BY <1>3, <1>4 DEF MapperNext, SpuriousWakeup, allVars, vars
<1> QED BY <1>5 DEF Healthy

\* Threads that block hold at most one connection each, so they cannot hold all of
\* a pool that is larger than their number.
LEMMA EnoughConnections ==
    ASSUME Owned, ScopesOK, Healthy, Cardinality(Threads) < PoolSize
    PROVE  NoCircularWait
<1> SUFFICES ASSUME pool = <<>>,
                    \A t \in Threads : held[t] # {} => at[t] # "out"
             PROVE  FALSE
  BY DEF NoCircularWait
<1>1. open = Held
  BY ShortRange DEF Owned, Accounted, Idle
<1>2. \A t \in Threads : \A c, d \in held[t] : c = d
  <2> SUFFICES ASSUME NEW t \in Threads, NEW c \in held[t], NEW d \in held[t]
               PROVE  c = d
    OBVIOUS
  <2>1. at[t] # "out"
    OBVIOUS
  <2>2. ScopesOf(t)
    BY DEF ScopesOK
  <2>3. scopes[t] = <<>> \/ \E a \in Conns : scopes[t] = <<a>>
    BY <2>1, <2>2 DEF ScopesOf
  <2>4. held[t] = Range(scopes[t]) \ {NULL}
    BY <2>2 DEF ScopesOf
  <2>5. CASE scopes[t] = <<>>
    BY <2>4, <2>5, ShortRange
  <2>6. ASSUME NEW a \in Conns, scopes[t] = <<a>>
        PROVE  c = d
    <3>1. held[t] = {a} \ {NULL}
      BY <2>4, <2>6, ShortRange
    <3> QED BY <3>1
  <2> QED BY <2>3, <2>5, <2>6
<1> DEFINE f == [c \in Held |-> CHOOSE t \in Threads : c \in held[t]]
<1>3. \A c \in Held : f[c] \in Threads /\ c \in held[f[c]]
  BY DEF Held
<1>4. f \in Injection(Held, Threads)
  <2>1. f \in [Held -> Threads]
    BY <1>3
  <2>2. \A c, d \in Held : f[c] = f[d] => c = d
    BY <1>2, <1>3
  <2> QED BY <2>1, <2>2 DEF Injection, IsInjective
<1>5. IsFiniteSet(Held) /\ Cardinality(Held) <= Cardinality(Threads)
  BY <1>4, ThreadsAssumption, FS_Injection
<1>6. Cardinality(Held) \in Nat /\ Cardinality(Threads) \in Nat
  BY <1>5, ThreadsAssumption, FS_CardinalityType
<1> QED BY <1>1, <1>5, <1>6, SizeAssumption DEF Healthy

\* With more connections than threads no set of mapper calls can wait for each
\* other, whatever the number of threads and of inner calls.
THEOREM LargePoolNeverStuck ==
    ASSUME Cardinality(Threads) < PoolSize
    PROVE  MapperSpec => []NoCircularWait
<1>1. PoolSize > 0
  BY ThreadsAssumption, SizeAssumption, FS_CardinalityType
<1>2. MapperInit => Owned /\ ScopesOK /\ Healthy
  BY <1>1, MapperInitOwned, ScopesInit, HealthyInit
<1>3. Owned /\ ScopesOK /\ Healthy /\ [MapperNext]_allVars => (Owned /\ ScopesOK /\ Healthy)'
  BY MapperStepIsPoolStep, OwnedStep, ScopesStep, HealthyStep
<1>4. Owned /\ ScopesOK /\ Healthy => NoCircularWait
  BY EnoughConnections
<1> QED BY <1>2, <1>3, <1>4, PTL DEF MapperSpec
=============================================================================
