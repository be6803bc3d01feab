-------------------------- MODULE Throttle_proofs ---------------------------
(* Proofs about Throttle, for any number of clients and requests and any    *)
(* size of the Map: a counter stays without a time to live only when the    *)
(* request that was to set it failed or died, and the entry that a full Map *)
(* gives up is the one that expires first.                                  *)
EXTENDS Throttle, FiniteSetTheorems, WellFoundedInduction, TLAPS

-----------------------------------------------------------------------------
(* The n-th element of a finite set of numbers: the rank of a number grows  *)
(* by at most one from each number to the next, so every rank is taken.     *)

Less == {p \in Nat \X Nat : p[1] < p[2]}

LEMMA LeastNumber ==
    ASSUME NEW T \in SUBSET Nat, T # {}
    PROVE  \E m \in T : \A n \in T : m <= n
  <1>1. OpToRel(<, Nat) = Less
    BY DEF OpToRel, Less
  <1>2. IsWellFoundedOn(Less, Nat)
    BY <1>1, NatLessThanWellFounded
  <1>3. \E m \in T : \A n \in T : <<n, m>> \notin Less
    BY <1>2, WFMin
  <1>4. PICK m \in T : \A n \in T : <<n, m>> \notin Less
    BY <1>3
  <1>5. m \in Nat /\ \A n \in T : n \in Nat
    OBVIOUS
  <1>6. \A n \in T : ~ (n < m)
    BY <1>4, <1>5 DEF Less
  <1>7. QED
    BY <1>5, <1>6

UpTo(S, m) == {i \in S : i <= m}

LEMMA UpToFinite ==
    ASSUME NEW N \in Nat, NEW S \in SUBSET (1..N), NEW m \in Nat
    PROVE  /\ IsFiniteSet(S) /\ Cardinality(S) \in Nat /\ Cardinality(S) <= N
           /\ IsFiniteSet(UpTo(S, m)) /\ Cardinality(UpTo(S, m)) \in Nat
  <1>1. IsFiniteSet(1..N) /\ Cardinality(1..N) = N
    BY FS_Interval
  <1>2. IsFiniteSet(S) /\ Cardinality(S) <= N
    BY <1>1, FS_Subset
  <1>3. IsFiniteSet(UpTo(S, m))
    BY <1>2, FS_Subset DEF UpTo
  <1>4. QED
    BY <1>2, <1>3, FS_CardinalityType

LEMMA UpToGrows ==
    ASSUME NEW N \in Nat, NEW S \in SUBSET (1..N), NEW l \in Nat, NEW m \in Nat, l <= m
    PROVE  Cardinality(UpTo(S, l)) <= Cardinality(UpTo(S, m))
  <1>1. ASSUME NEW i \in S, i <= l
        PROVE  i <= m
    <2>1. i \in Nat
      OBVIOUS
    <2>2. QED
      BY <1>1, <2>1
  <1>2. UpTo(S, l) \subseteq UpTo(S, m)
    BY <1>1 DEF UpTo
  <1>3. IsFiniteSet(UpTo(S, m))
    BY UpToFinite
  <1>4. QED
    BY <1>2, <1>3, FS_Subset

LEMMA NthExists ==
    ASSUME NEW N \in Nat, NEW S \in SUBSET (1..N), NEW n \in 1..Cardinality(S)
    PROVE  \E i \in S : Cardinality(UpTo(S, i)) = n
  <1> DEFINE T == {m \in Nat : Cardinality(UpTo(S, m)) >= n}
  <1>1. \A i \in S : i \in Nat /\ 1 <= i /\ i <= N
    OBVIOUS
  <1>2. N \in T
    <2>1. UpTo(S, N) = S
      BY <1>1 DEF UpTo
    <2>2. QED
      BY <2>1, UpToFinite
  <1>3. PICK m \in T : \A k \in T : m <= k
    BY <1>2, LeastNumber
  <1>4. m # 0
    <2>1. UpTo(S, 0) = {}
      <3>1. \A i \in S : ~ (i <= 0)
        BY <1>1
      <3>2. QED
        BY <3>1 DEF UpTo
    <2>2. Cardinality(UpTo(S, 0)) = 0
      BY <2>1, FS_EmptySet
    <2>3. QED
      BY <2>2, UpToFinite
  <1>5. m - 1 \in Nat /\ m - 1 \notin T
    BY <1>3, <1>4
  <1> DEFINE before == UpTo(S, m - 1)
  <1>6. Cardinality(before) < n /\ Cardinality(before) \in Nat
    <2>1. Cardinality(before) \in Nat
      BY <1>5, UpToFinite
    <2>2. QED
      BY <1>5, <2>1
  <1>7. Cardinality(UpTo(S, m)) >= n /\ Cardinality(UpTo(S, m)) \in Nat
    BY UpToFinite
  <1>8. IsFiniteSet(before) /\ m \notin before
    <2>1. IsFiniteSet(before)
      BY <1>5, UpToFinite
    <2>2. QED
      BY <2>1 DEF UpTo
  <1>9. m \in S
    <2>1. SUFFICES ASSUME m \notin S
                   PROVE  FALSE
      OBVIOUS
    <2>2. UpTo(S, m) = before
      <3>1. ASSUME NEW i \in S
            PROVE  i <= m <=> i <= m - 1
        <4>1. i \in Nat /\ m \in Nat /\ i # m
          BY <1>1, <2>1
        <4>2. QED
          BY <4>1
      <3>2. QED
        BY <3>1 DEF UpTo
    <2>3. QED
      BY <1>6, <1>7, <2>2
  <1>10. UpTo(S, m) = before \cup {m}
    <2>1. ASSUME NEW i \in S
          PROVE  i <= m <=> i <= m - 1 \/ i = m
      <3>1. i \in Nat /\ m \in Nat
        BY <1>1
      <3>2. QED
        BY <3>1
    <2>2. QED
      BY <1>9, <2>1 DEF UpTo
  <1>11. Cardinality(UpTo(S, m)) = Cardinality(before) + 1
    BY <1>8, <1>10, FS_AddElement
  <1>12. QED
    BY <1>6, <1>7, <1>9, <1>11

LEMMA NthProperties ==
    ASSUME NEW N \in Nat, NEW S \in SUBSET (1..N), NEW n \in 1..Cardinality(S)
    PROVE  Nth(S, n) \in S /\ Cardinality(UpTo(S, Nth(S, n))) = n
  <1>1. \E i \in S : Cardinality({j \in S : j <= i}) = n
    BY NthExists DEF UpTo
  <1>2. QED
    BY <1>1, Zenon DEF Nth, UpTo

LEMMA NthMonotonic ==
    ASSUME NEW N \in Nat, NEW S \in SUBSET (1..N),
           NEW n \in 1..Cardinality(S), NEW p \in 1..Cardinality(S), n < p
    PROVE  Nth(S, n) < Nth(S, p)
  <1>1. /\ Nth(S, n) \in Nat /\ Cardinality(UpTo(S, Nth(S, n))) = n
        /\ Nth(S, p) \in Nat /\ Cardinality(UpTo(S, Nth(S, p))) = p
    <2>1. \A i \in S : i \in Nat
      OBVIOUS
    <2>2. QED
      BY <2>1, NthProperties
  <1>2. SUFFICES ASSUME Nth(S, p) <= Nth(S, n)
                 PROVE  FALSE
    BY <1>1
  <1>3. p <= n
    BY <1>1, <1>2, UpToGrows
  <1>4. QED
    BY <1>3, UpToFinite

-----------------------------------------------------------------------------
(* The Map: what each step of incrementMemory does to its entries.          *)

Entries == Seq(MemoryEntry)

Ordered(entries) ==
    \A i, j \in DOMAIN entries : i < j => entries[i].left <= entries[j].left

Alive(entries) == \A i \in DOMAIN entries : entries[i].left > 0

LEMMA SweptProperties ==
    ASSUME NEW entries \in Entries, Ordered(entries)
    PROVE  /\ Swept(entries) \in Entries /\ Len(Swept(entries)) <= Len(entries)
           /\ Ordered(Swept(entries)) /\ Alive(Swept(entries))
  <1> DEFINE live == {i \in DOMAIN entries : entries[i].left > 0}
             c == Cardinality(live)
  <1>1. Len(entries) \in Nat /\ DOMAIN entries = 1..Len(entries)
        /\ live \in SUBSET (1..Len(entries))
    BY DEF Entries
  <1>2. c \in Nat /\ c <= Len(entries)
    BY <1>1, UpToFinite
  <1>3. ASSUME NEW n \in 1..c
        PROVE  Nth(live, n) \in live
    BY <1>1, NthProperties
  <1>4. Swept(entries) = [n \in 1..c |-> entries[Nth(live, n)]]
    BY DEF Swept
  <1> HIDE DEF c
  <1>5. \A n \in 1..c : entries[Nth(live, n)] \in MemoryEntry /\ entries[Nth(live, n)].left > 0
    BY <1>1, <1>3 DEF Entries
  <1>6. Swept(entries) \in Entries /\ Len(Swept(entries)) = c
    BY <1>2, <1>4, <1>5 DEF Entries
  <1>7. Alive(Swept(entries))
    BY <1>4, <1>5 DEF Alive
  <1>8. Ordered(Swept(entries))
    <2>1. SUFFICES ASSUME NEW n \in 1..c, NEW p \in 1..c, n < p
                   PROVE  entries[Nth(live, n)].left <= entries[Nth(live, p)].left
      BY <1>4 DEF Ordered
    <2>2. Nth(live, n) < Nth(live, p)
      BY <1>1, <2>1, NthMonotonic DEF c
    <2>3. QED
      BY <1>3, <2>2 DEF Ordered
  <1>9. QED
    BY <1>2, <1>6, <1>7, <1>8

LEMMA CountedProperties ==
    ASSUME NEW entries \in Entries, NEW k \in Keys, Ordered(entries), Alive(entries)
    PROVE  /\ Counted(entries, k) \in Entries /\ Ordered(Counted(entries, k))
           /\ Len(Counted(entries, k)) <= Len(entries) + 1
  <1> DEFINE new == [key |-> k, left |-> Ttl]
  <1>1. /\ Len(entries) \in Nat /\ DOMAIN entries = 1..Len(entries)
        /\ \A i \in DOMAIN entries : entries[i] \in MemoryEntry
    BY DEF Entries
  <1>2. CASE \E i \in DOMAIN entries : entries[i].key = k
    <2>1. \A i \in DOMAIN entries : entries[i] # [key |-> k, left |-> 0]
      BY DEF Alive
    <2>2. Counted(entries, k) = [i \in DOMAIN entries |-> entries[i]]
      BY <1>2, <2>1 DEF Counted
    <2>3. Counted(entries, k) = entries
      BY <2>2 DEF Entries
    <2>4. QED
      BY <1>1, <2>3
  <1>3. CASE ~ \E i \in DOMAIN entries : entries[i].key = k
    <2>1. Counted(entries, k) = Append(entries, new)
      BY <1>3 DEF Counted
    <2>2. new \in MemoryEntry
      BY ThrottleAssumption DEF MemoryEntry
    <2>3. /\ Append(entries, new) \in Entries
          /\ Len(Append(entries, new)) = Len(entries) + 1
          /\ \A i \in 1..Len(entries) : Append(entries, new)[i] = entries[i]
          /\ Append(entries, new)[Len(entries) + 1] = new
      BY <2>2 DEF Entries
    <2>4. Ordered(Append(entries, new))
      <3>1. SUFFICES ASSUME NEW i \in 1..(Len(entries) + 1), NEW j \in 1..(Len(entries) + 1), i < j
                     PROVE  Append(entries, new)[i].left <= Append(entries, new)[j].left
        BY <2>3 DEF Ordered, Entries
      <3>2. i \in DOMAIN entries /\ Append(entries, new)[i] = entries[i]
        BY <1>1, <2>3, <3>1
      <3>3. CASE j = Len(entries) + 1
        <4>1. Append(entries, new)[j].left = Ttl /\ entries[i].left \in 0..Ttl
          BY <1>1, <2>3, <3>2, <3>3 DEF MemoryEntry
        <4>2. QED
          BY <3>2, <4>1, ThrottleAssumption
      <3>4. CASE j \in DOMAIN entries
        BY <2>3, <3>1, <3>2, <3>4, <1>1 DEF Ordered
      <3>5. QED
        BY <1>1, <3>3, <3>4
    <2>5. QED
      BY <1>1, <2>1, <2>3, <2>4
  <1>4. QED
    BY <1>2, <1>3

LEMMA EvictedProperties ==
    ASSUME NEW entries \in Entries, Ordered(entries), Len(entries) <= MaxMemory + 1
    PROVE  /\ Evicted(entries) \in Entries /\ Ordered(Evicted(entries))
           /\ Len(Evicted(entries)) <= MaxMemory
  <1>1. Len(entries) \in Nat /\ DOMAIN entries = 1..Len(entries) /\ MaxMemory \in Nat \ {0}
    BY ThrottleAssumption DEF Entries
  <1>2. CASE Len(entries) <= MaxMemory
    BY <1>1, <1>2 DEF Evicted
  <1>3. CASE Len(entries) > MaxMemory
    <2>1. entries # <<>>
      BY <1>1, <1>3
    <2>2. /\ Evicted(entries) = Tail(entries)
          /\ Tail(entries) \in Entries /\ Len(Tail(entries)) = Len(entries) - 1
          /\ \A i \in 1..(Len(entries) - 1) : Tail(entries)[i] = entries[i + 1]
      BY <1>1, <1>3, <2>1 DEF Evicted, Entries
    <2>3. Ordered(Tail(entries))
      <3>1. SUFFICES ASSUME NEW i \in 1..(Len(entries) - 1), NEW j \in 1..(Len(entries) - 1), i < j
                     PROVE  entries[i + 1].left <= entries[j + 1].left
        BY <2>2 DEF Ordered, Entries
      <3>2. i + 1 \in DOMAIN entries /\ j + 1 \in DOMAIN entries /\ i + 1 < j + 1
        BY <1>1, <3>1
      <3>3. QED
        BY <3>2 DEF Ordered
    <2>4. QED
      BY <1>1, <2>2, <2>3
  <1>4. QED
    BY <1>1, <1>2, <1>3

LEMMA FallBackProperties ==
    ASSUME NEW entries \in Entries, Ordered(entries), Len(entries) <= MaxMemory, NEW k \in Keys
    PROVE  LET after == Evicted(Counted(Swept(entries), k))
           IN  after \in Entries /\ Ordered(after) /\ Len(after) <= MaxMemory
  <1> DEFINE swept == Swept(entries)
             counted == Counted(swept, k)
  <1>1. swept \in Entries /\ Len(swept) <= Len(entries) /\ Ordered(swept) /\ Alive(swept)
    BY SweptProperties
  <1>2. counted \in Entries /\ Ordered(counted) /\ Len(counted) <= Len(swept) + 1
    BY <1>1, CountedProperties
  <1>3. Len(counted) <= MaxMemory + 1
    <2>1. Len(entries) \in Nat /\ Len(swept) \in Nat /\ Len(counted) \in Nat /\ MaxMemory \in Nat
      BY <1>1, <1>2, ThrottleAssumption DEF Entries
    <2>2. QED
      BY <1>1, <1>2, <2>1
  <1>4. QED
    BY <1>2, <1>3, EvictedProperties

-----------------------------------------------------------------------------
(* What always holds.  Each of the three variables has a part of its own.   *)
RedisInv ==
    /\ redis \in [Keys -> Counter]
    /\ \A k \in Keys : redis[k].orphan => redis[k].left = Never

MemoryInv == memory \in Entries /\ Len(memory) <= MaxMemory /\ Ordered(memory)

HitInv == hit \in [Hits -> Hit]

ThrottleInv == RedisInv /\ MemoryInv /\ HitInv /\ OnlyOrphansStay

LEMMA NeverLeft == Never \in Nat /\ Ttl \in 1..Never /\ Ttl # Never /\ 0 # Never
  BY ThrottleAssumption DEF Never

LEMMA IdleHit == Idle \in Hit /\ NoKey \in Keys
  <1>1. NoKey \in Keys
    BY ThrottleAssumption DEF NoKey
  <1>2. QED
    BY <1>1 DEF Idle, HitAt, Hit

LEMMA ThrottleInvInit == ThrottleInit => ThrottleInv
  <1> SUFFICES ASSUME ThrottleInit
               PROVE  ThrottleInv
    OBVIOUS
  <1>1. RedisInv
    BY NeverLeft DEF ThrottleInit, RedisInv, None, Counter
  <1>2. MemoryInv
    <2>1. memory = <<>>
      BY DEF ThrottleInit
    <2>2. QED
      BY <2>1, ThrottleAssumption DEF MemoryInv, Entries, Ordered
  <1>3. HitInv
    BY IdleHit DEF ThrottleInit, HitInv
  <1>4. OnlyOrphansStay
    BY NeverLeft DEF ThrottleInit, OnlyOrphansStay, None
  <1>5. QED
    BY <1>1, <1>2, <1>3, <1>4 DEF ThrottleInv

(* A hit that falls back leaves the Map in order. *)
LEMMA FallBackKeeps ==
    ASSUME MemoryInv, HitInv, NEW r \in Hits, FallBack(r)
    PROVE  MemoryInv' /\ HitInv' /\ hit' = [hit EXCEPT ![r] = Idle]
  <1>1. hit[r].key \in Keys
    BY DEF HitInv, Hit
  <1>2. memory' = Evicted(Counted(Swept(memory), hit[r].key)) /\ hit' = [hit EXCEPT ![r] = Idle]
    BY DEF FallBack
  <1>3. MemoryInv'
    BY <1>1, <1>2, FallBackProperties DEF MemoryInv, Ordered
  <1>4. HitInv'
    BY <1>2, IdleHit DEF HitInv
  <1>5. QED
    BY <1>2, <1>3, <1>4

LEMMA StartStep ==
    ASSUME ThrottleInv, NEW r \in Hits, NEW k \in Keys, Start(r, k)
    PROVE  ThrottleInv'
  <1>1. hit[r].pc = "idle" /\ hit' = [hit EXCEPT ![r] = HitAt("incr", k)] /\ UNCHANGED <<redis, memory>>
    BY DEF Start
  <1>2. RedisInv' /\ MemoryInv'
    BY <1>1 DEF ThrottleInv, RedisInv, MemoryInv, Ordered
  <1>3. HitInv'
    BY <1>1 DEF ThrottleInv, HitInv, Hit, HitAt
  <1>4. OnlyOrphansStay'
    <2>1. \A j \in Keys : hit[r] # HitAt("expire", j)
      BY <1>1 DEF HitAt
    <2>2. \A j \in Keys, q \in Hits : hit[q] = HitAt("expire", j) => hit'[q] = hit[q]
      BY <1>1, <2>1 DEF ThrottleInv, HitInv
    <2>3. QED
      BY <1>1, <2>2 DEF ThrottleInv, OnlyOrphansStay
  <1>5. QED
    BY <1>2, <1>3, <1>4 DEF ThrottleInv

(* Who was about to set the time to live of k still is. *)
About(k) == \E q \in Hits : hit[q] = HitAt("expire", k)

LEMMA StillAbout ==
    ASSUME HitInv, NEW r \in Hits, NEW me, hit' = [hit EXCEPT ![r] = me],
           NEW k \in Keys, hit[r] # HitAt("expire", k), About(k)
    PROVE  About(k)'
  <1>1. PICK q \in Hits : hit[q] = HitAt("expire", k)
    BY DEF About
  <1>2. hit'[q] = HitAt("expire", k)
    BY <1>1 DEF HitInv
  <1>3. QED
    BY <1>2 DEF About, HitAt

LEMMA OnlyOrphans == OnlyOrphansStay <=> \A k \in Keys : redis[k].left = Never => redis[k].orphan \/ About(k)
  BY DEF OnlyOrphansStay, About

LEMMA OnlyOrphansNext ==
    ASSUME \A k \in Keys : redis'[k].left = Never => redis'[k].orphan \/ About(k)'
    PROVE  OnlyOrphansStay'
  BY DEF OnlyOrphansStay, About

(* INCR creates a counter, or leaves alone what matters of it. *)
LEMMA IncrementedProperties ==
    ASSUME RedisInv, NEW k \in Keys, NEW lost \in BOOLEAN, redis' = Incremented(k, lost)
    PROVE  /\ RedisInv'
           /\ \A j \in Keys \ {k} : redis'[j] = redis[j]
           /\ Count(k) = 1 => redis'[k] = [left |-> Never, orphan |-> lost]
           /\ Count(k) # 1 => redis'[k] = redis[k]
  <1>1. redis[k] \in Counter /\ redis'[k] \in [left : {Never, redis[k].left}, orphan : BOOLEAN]
    BY DEF RedisInv, Counter, Incremented
  <1>2. \A j \in Keys \ {k} : redis'[j] = redis[j]
    BY DEF RedisInv, Incremented
  <1>3. /\ redis'[k].left = IF Count(k) = 1 THEN Never ELSE redis[k].left
        /\ redis'[k].orphan = (redis[k].orphan \/ (lost /\ Count(k) = 1))
    BY DEF RedisInv, Counter, Incremented
  <1>4. Count(k) = 1 => ~redis[k].orphan
    BY NeverLeft DEF Count, None
  <1>5. Count(k) = 1 => redis'[k] = [left |-> Never, orphan |-> lost]
    BY <1>1, <1>3, <1>4
  <1>6. Count(k) # 1 => redis'[k] = redis[k]
    BY <1>1, <1>3 DEF Counter
  <1>7. RedisInv'
    <2>1. redis'[k] \in Counter /\ (redis'[k].orphan => redis'[k].left = Never)
      BY <1>1, <1>5, <1>6, NeverLeft DEF RedisInv, Counter
    <2>2. redis' \in [Keys -> Counter]
      BY <1>2, <2>1 DEF RedisInv, Incremented
    <2>3. QED
      BY <1>2, <2>1, <2>2 DEF RedisInv
  <1>8. QED
    BY <1>2, <1>5, <1>6, <1>7

LEMMA IncrStep ==
    ASSUME ThrottleInv, NEW r \in Hits, Incr(r)
    PROVE  ThrottleInv'
  <1> DEFINE k == hit[r].key
  <1>1. k \in Keys /\ \A j \in Keys : hit[r] # HitAt("expire", j)
    BY DEF Incr, HitAt, ThrottleInv, HitInv, Hit
  <1>2. RedisInv /\ MemoryInv /\ HitInv
    BY DEF ThrottleInv
  <1>3. \A j \in Keys : redis[j].left = Never => redis[j].orphan \/ About(j)
    BY OnlyOrphans DEF ThrottleInv
  <1>4. CASE /\ redis' = Incremented(k, FALSE)
             /\ hit' = [hit EXCEPT ![r] = IF SetsExpiry(Count(k)) THEN HitAt("expire", k)
                                                                  ELSE HitAt("pttl", NoKey)]
             /\ UNCHANGED memory
    <2>1. HitInv'
      BY <1>1, <1>2, <1>4, IdleHit DEF HitInv, Hit, HitAt
    <2>2. MemoryInv'
      BY <1>2, <1>4 DEF MemoryInv, Ordered
    <2>3. /\ RedisInv'
          /\ \A j \in Keys \ {k} : redis'[j] = redis[j]
          /\ Count(k) # 1 => redis'[k] = redis[k]
      BY <1>1, <1>2, <1>4, IncrementedProperties
    <2>4. ASSUME NEW j \in Keys, redis'[j].left = Never
          PROVE  redis'[j].orphan \/ About(j)'
      <3>1. CASE j = k /\ Count(k) = 1
        <4>1. hit'[r] = HitAt("expire", k)
          BY <1>2, <1>4, <3>1 DEF HitInv, SetsExpiry
        <4>2. QED
          BY <3>1, <4>1 DEF About, HitAt
      <3>2. CASE ~ (j = k /\ Count(k) = 1)
        <4>1. redis'[j] = redis[j]
          BY <2>3, <3>2
        <4>2. redis[j].orphan \/ About(j)
          BY <1>3, <2>4, <4>1
        <4>3. About(j) => About(j)'
          BY <1>1, <1>2, <1>4, StillAbout
        <4>4. QED
          BY <4>1, <4>2, <4>3
      <3>3. QED
        BY <3>1, <3>2
    <2>5. QED
      BY <2>1, <2>2, <2>3, <2>4, OnlyOrphansNext DEF ThrottleInv
  <1>5. CASE redis' = Incremented(k, TRUE) /\ (FallBack(r) \/ UNCHANGED <<memory, hit>>)
    <2>1. MemoryInv' /\ HitInv'
      <3>1. CASE FallBack(r)
        BY <1>2, <3>1, FallBackKeeps
      <3>2. CASE UNCHANGED <<memory, hit>>
        BY <1>2, <3>2 DEF MemoryInv, Ordered, HitInv
      <3>3. QED
        BY <1>5, <3>1, <3>2
    <2>2. /\ RedisInv'
          /\ \A j \in Keys \ {k} : redis'[j] = redis[j]
          /\ Count(k) = 1 => redis'[k] = [left |-> Never, orphan |-> TRUE]
          /\ Count(k) # 1 => redis'[k] = redis[k]
      BY <1>1, <1>2, <1>5, IncrementedProperties
    <2>3. ASSUME NEW j \in Keys, redis'[j].left = Never
          PROVE  redis'[j].orphan \/ About(j)'
      <3>1. CASE j = k /\ Count(k) = 1
        BY <2>2, <3>1
      <3>2. CASE ~ (j = k /\ Count(k) = 1)
        <4>1. redis'[j] = redis[j]
          BY <2>2, <3>2
        <4>2. redis[j].orphan \/ About(j)
          BY <1>3, <2>3, <4>1
        <4>3. About(j) => About(j)'
          <5>1. CASE FallBack(r)
            BY <1>1, <1>2, <5>1, FallBackKeeps, StillAbout
          <5>2. CASE UNCHANGED <<memory, hit>>
            BY <5>2 DEF About
          <5>3. QED
            BY <1>5, <5>1, <5>2
        <4>4. QED
          BY <4>1, <4>2, <4>3
      <3>3. QED
        BY <3>1, <3>2
    <2>4. QED
      BY <2>1, <2>2, <2>3, OnlyOrphansNext DEF ThrottleInv
  <1>6. CASE FallBack(r) /\ UNCHANGED redis
    <2>1. MemoryInv' /\ HitInv' /\ hit' = [hit EXCEPT ![r] = Idle]
      BY <1>2, <1>6, FallBackKeeps
    <2>2. RedisInv'
      BY <1>2, <1>6 DEF RedisInv
    <2>3. \A j \in Keys : About(j) => About(j)'
      BY <1>1, <1>2, <2>1, StillAbout
    <2>4. QED
      BY <1>3, <1>6, <2>1, <2>2, <2>3, OnlyOrphansNext DEF ThrottleInv
  <1>7. QED
    BY <1>4, <1>5, <1>6 DEF Incr

LEMMA ExpireStep ==
    ASSUME ThrottleInv, NEW r \in Hits, Expire(r)
    PROVE  ThrottleInv'
  <1> DEFINE k == hit[r].key
  <1>1. k \in Keys /\ \A j \in Keys \ {k} : hit[r] # HitAt("expire", j)
    BY DEF HitAt, ThrottleInv, HitInv, Hit
  <1>2. RedisInv /\ MemoryInv /\ HitInv
    BY DEF ThrottleInv
  <1>3. \A j \in Keys : redis[j].left = Never => redis[j].orphan \/ About(j)
    BY OnlyOrphans DEF ThrottleInv
  <1>4. \/ /\ redis' = Expiring(k)
           /\ hit' = [hit EXCEPT ![r] = HitAt("pttl", NoKey)]
           /\ UNCHANGED memory
        \/ redis' = Expiring(k) /\ FallBack(r)
        \/ /\ redis' = [redis EXCEPT ![k].orphan = @ \/ redis[k].left = Never]
           /\ FallBack(r)
    BY DEF Expire
  <1>5. /\ MemoryInv' /\ HitInv'
        /\ \A j \in Keys \ {k} : About(j) => About(j)'
    <2>1. CASE FallBack(r)
      BY <1>1, <1>2, <2>1, FallBackKeeps, StillAbout
    <2>2. CASE hit' = [hit EXCEPT ![r] = HitAt("pttl", NoKey)] /\ UNCHANGED memory
      <3>1. HitInv'
        BY <1>2, <2>2, IdleHit DEF HitInv, Hit, HitAt
      <3>2. MemoryInv'
        BY <1>2, <2>2 DEF MemoryInv, Ordered
      <3>3. QED
        BY <1>1, <1>2, <2>2, <3>1, <3>2, StillAbout
    <2>3. QED
      BY <1>4, <2>1, <2>2
  <1>6. /\ RedisInv' /\ \A j \in Keys \ {k} : redis'[j] = redis[j]
        /\ redis'[k].left = Never => redis'[k].orphan
    <2>1. CASE redis' = Expiring(k)
      <3>1. CASE redis[k] = None
        <4>1. redis' = redis
          BY <2>1, <3>1 DEF Expiring
        <4>2. QED
          BY <1>2, <3>1, <4>1, NeverLeft DEF RedisInv, None
      <3>2. CASE redis[k] # None
        <4>1. redis' = [redis EXCEPT ![k] = [left |-> Ttl, orphan |-> FALSE]]
          BY <2>1, <3>2 DEF Expiring
        <4>2. [left |-> Ttl, orphan |-> FALSE] \in Counter
          BY NeverLeft DEF Counter
        <4>3. QED
          BY <1>1, <1>2, <4>1, <4>2, NeverLeft DEF RedisInv
      <3>3. QED
        BY <3>1, <3>2
    <2>2. CASE redis' = [redis EXCEPT ![k].orphan = @ \/ redis[k].left = Never]
      <3>1. redis'[k] = [redis[k] EXCEPT !.orphan = @ \/ redis[k].left = Never]
        BY <1>1, <1>2, <2>2 DEF RedisInv
      <3>2. \A j \in Keys \ {k} : redis'[j] = redis[j]
        BY <1>2, <2>2 DEF RedisInv
      <3>3. /\ redis'[k] \in Counter /\ redis'[k].left = redis[k].left
            /\ redis[k].left = Never => redis'[k].orphan
            /\ redis[k].left # Never => redis'[k].orphan = redis[k].orphan
        <4>1. redis[k] \in Counter
          BY <1>1, <1>2 DEF RedisInv
        <4>2. CASE redis[k].left = Never
          <5>1. redis'[k] = [redis[k] EXCEPT !.orphan = TRUE]
            BY <3>1, <4>2
          <5>2. QED
            BY <4>1, <4>2, <5>1 DEF Counter
        <4>3. CASE redis[k].left # Never
          <5>1. redis'[k] = [redis[k] EXCEPT !.orphan = redis[k].orphan]
            BY <3>1, <4>1, <4>3 DEF Counter
          <5>2. QED
            BY <4>1, <4>3, <5>1 DEF Counter
        <4>4. QED
          BY <4>2, <4>3
      <3>4. redis' \in [Keys -> Counter]
        BY <1>2, <2>2, <3>2, <3>3 DEF RedisInv
      <3>5. QED
        BY <1>1, <1>2, <3>2, <3>3, <3>4 DEF RedisInv
    <2>3. QED
      BY <1>4, <2>1, <2>2
  <1>7. ASSUME NEW j \in Keys, redis'[j].left = Never
        PROVE  redis'[j].orphan \/ About(j)'
    BY <1>3, <1>5, <1>6, <1>7
  <1>8. QED
    BY <1>5, <1>6, <1>7, OnlyOrphansNext DEF ThrottleInv

LEMMA PttlStep ==
    ASSUME ThrottleInv, NEW r \in Hits, Pttl(r)
    PROVE  ThrottleInv'
  <1>1. hit[r].pc = "pttl" /\ hit' = [hit EXCEPT ![r] = Idle] /\ UNCHANGED <<redis, memory>>
    BY DEF Pttl
  <1>2. RedisInv' /\ MemoryInv'
    BY <1>1 DEF ThrottleInv, RedisInv, MemoryInv, Ordered
  <1>3. HitInv'
    BY <1>1, IdleHit DEF ThrottleInv, HitInv
  <1>4. \A j \in Keys : About(j) => About(j)'
    <2>1. \A j \in Keys : hit[r] # HitAt("expire", j)
      BY <1>1 DEF HitAt
    <2>2. QED
      BY <1>1, <2>1, StillAbout DEF ThrottleInv
  <1>5. QED
    BY <1>1, <1>2, <1>3, <1>4, OnlyOrphans, OnlyOrphansNext DEF ThrottleInv

(* Entries age alike, so they stay in order. *)
LEMMA TickStep ==
    ASSUME ThrottleInv, Tick
    PROVE  ThrottleInv'
  <1>1. UNCHANGED hit
    BY DEF Tick
  <1>2. ASSUME NEW k \in Keys
        PROVE  /\ redis'[k] \in Counter /\ (redis'[k].orphan => redis'[k].left = Never)
               /\ redis'[k].left = Never => redis'[k] = redis[k]
    <2>1. redis[k] \in Counter /\ (redis[k].orphan => redis[k].left = Never)
      BY DEF ThrottleInv, RedisInv
    <2>2. redis'[k] = IF redis[k].left = 1 THEN None
                      ELSE IF redis[k].left \in {0, Never} THEN redis[k]
                      ELSE [redis[k] EXCEPT !.left = @ - 1]
      BY DEF Tick
    <2>3. CASE redis[k].left = 1
      BY <2>2, <2>3, NeverLeft DEF None, Counter
    <2>4. CASE redis[k].left # 1 /\ redis[k].left \in {0, Never}
      BY <2>1, <2>2, <2>4
    <2>5. CASE redis[k].left # 1 /\ redis[k].left \notin {0, Never}
      <3>1. redis[k].left \in 2..Ttl
        BY <2>1, <2>5, ThrottleAssumption DEF Counter, Never
      <3>2. redis'[k].left = redis[k].left - 1 /\ redis'[k].orphan = redis[k].orphan
        BY <2>1, <2>2, <2>5 DEF Counter
      <3>3. redis'[k] \in [left : 1..Ttl, orphan : BOOLEAN]
        BY <2>1, <2>2, <2>5, <3>1, ThrottleAssumption DEF Counter
      <3>4. ~redis'[k].orphan
        BY <2>1, <2>5, <3>2
      <3>5. QED
        BY <3>3, <3>4, ThrottleAssumption DEF Counter, Never
    <2>6. QED
      BY <2>3, <2>4, <2>5
  <1>3. RedisInv'
    <2>1. redis' \in [Keys -> Counter]
      BY <1>2 DEF Tick
    <2>2. QED
      BY <1>2, <2>1 DEF RedisInv
  <1>4. MemoryInv'
    <2>1. /\ memory \in Entries /\ Len(memory) <= MaxMemory /\ Ordered(memory)
          /\ Len(memory) \in Nat /\ DOMAIN memory = 1..Len(memory)
      BY DEF ThrottleInv, MemoryInv, Entries
    <2>2. ASSUME NEW i \in DOMAIN memory
          PROVE  /\ memory[i].left \in 0..Ttl /\ memory'[i] \in MemoryEntry
                 /\ memory'[i].left = IF memory[i].left = 0 THEN 0 ELSE memory[i].left - 1
      <3>1. memory[i] \in MemoryEntry
        BY <2>1 DEF Entries
      <3>2. memory'[i] = [memory[i] EXCEPT !.left = IF @ = 0 THEN 0 ELSE @ - 1]
        BY DEF Tick
      <3>3. QED
        BY <3>1, <3>2, ThrottleAssumption DEF MemoryEntry
    <2>3. memory' \in Entries /\ Len(memory') = Len(memory)
      <3>1. memory' \in [1..Len(memory) -> MemoryEntry]
        BY <2>1, <2>2 DEF Tick
      <3>2. QED
        BY <2>1, <3>1 DEF Entries
    <2>4. Ordered(memory)'
      <3>1. SUFFICES ASSUME NEW i \in DOMAIN memory, NEW j \in DOMAIN memory, i < j
                     PROVE  memory'[i].left <= memory'[j].left
        BY DEF Tick, Ordered
      <3>2. memory[i].left <= memory[j].left
        BY <2>1, <3>1 DEF Ordered
      <3>3. QED
        BY <2>2, <3>2
    <2>5. QED
      BY <2>1, <2>3, <2>4 DEF MemoryInv
  <1>5. HitInv' /\ \A k \in Keys : About(k) => About(k)'
    BY <1>1 DEF ThrottleInv, HitInv, About
  <1>6. QED
    BY <1>2, <1>3, <1>4, <1>5, OnlyOrphans, OnlyOrphansNext DEF ThrottleInv

LEMMA RestartStep ==
    ASSUME ThrottleInv, Restart
    PROVE  ThrottleInv'
  <1>1. redis' = [k \in Keys |-> None] /\ UNCHANGED <<memory, hit>>
    BY DEF Restart
  <1>2. MemoryInv' /\ HitInv'
    BY <1>1 DEF ThrottleInv, MemoryInv, HitInv, Ordered
  <1>3. RedisInv'
    BY <1>1, NeverLeft DEF RedisInv, None, Counter
  <1>4. OnlyOrphansStay'
    BY <1>1, NeverLeft, OnlyOrphansNext DEF None
  <1>5. QED
    BY <1>2, <1>3, <1>4 DEF ThrottleInv

LEMMA DieStep ==
    ASSUME ThrottleInv, Die
    PROVE  ThrottleInv'
  <1>1. /\ redis' = [k \in Keys |-> IF redis[k].left = Never THEN [redis[k] EXCEPT !.orphan = TRUE]
                                                             ELSE redis[k]]
        /\ memory' = <<>> /\ hit' = [r \in Hits |-> Idle]
    BY DEF Die
  <1>2. MemoryInv'
    BY <1>1, ThrottleAssumption DEF MemoryInv, Entries, Ordered
  <1>3. HitInv'
    BY <1>1, IdleHit DEF HitInv
  <1>4. ASSUME NEW k \in Keys
        PROVE  /\ redis'[k] \in Counter
               /\ redis'[k].orphan => redis'[k].left = Never
               /\ redis'[k].left = Never => redis'[k].orphan
    <2>1. redis[k] \in Counter /\ (redis[k].orphan => redis[k].left = Never)
      BY DEF ThrottleInv, RedisInv
    <2>2. CASE redis[k].left = Never
      <3>1. redis'[k] = [redis[k] EXCEPT !.orphan = TRUE]
        BY <1>1, <2>2
      <3>2. QED
        BY <2>1, <2>2, <3>1 DEF Counter
    <2>3. CASE redis[k].left # Never
      <3>1. redis'[k] = redis[k]
        BY <1>1, <2>3
      <3>2. QED
        BY <2>1, <2>3, <3>1
    <2>4. QED
      BY <2>2, <2>3
  <1>5. RedisInv'
    <2>1. \A k \in Keys : redis'[k] \in Counter
      BY <1>4
    <2>2. redis' \in [Keys -> Counter]
      BY <1>1, <2>1
    <2>3. QED
      BY <1>4, <2>2 DEF RedisInv
  <1>6. QED
    BY <1>2, <1>3, <1>4, <1>5, OnlyOrphansNext DEF ThrottleInv

LEMMA ThrottleInvNext ==
    ASSUME ThrottleInv, [ThrottleNext]_throttleVars
    PROVE  ThrottleInv'
  <1>1. CASE UNCHANGED throttleVars
    BY <1>1 DEF throttleVars, ThrottleInv, RedisInv, MemoryInv, HitInv, Ordered, OnlyOrphansStay
  <1>2. CASE ThrottleNext
    BY <1>2, StartStep, IncrStep, ExpireStep, PttlStep, TickStep, RestartStep, DieStep
       DEF ThrottleNext, Step
  <1>3. QED
    BY <1>1, <1>2

LEMMA ThrottleInvAlways == ThrottleSpec => []ThrottleInv
  BY ThrottleInvInit, ThrottleInvNext, PTL DEF ThrottleSpec

-----------------------------------------------------------------------------
(* The counters, the Map and the requests are what their types say; the Map *)
(* never holds more than maxMemoryEntries (fail-open-throttler.storage.ts). *)
THEOREM TypeCorrect == ThrottleSpec => []ThrottleTypeOK
  <1>1. ThrottleInv => ThrottleTypeOK
    BY DEF ThrottleInv, RedisInv, MemoryInv, HitInv, ThrottleTypeOK, Entries
  <1>2. QED
    BY <1>1, ThrottleInvAlways, PTL

(* A counter of Redis that has no time to live, and would refuse its client *)
(* for good, is about to get one, or the request that was to set it has     *)
(* failed or died (RedisService.incrementWithTtl).                          *)
THEOREM OnlyOrphansRemain == ThrottleSpec => []OnlyOrphansStay
  <1>1. ThrottleInv => OnlyOrphansStay
    BY DEF ThrottleInv
  <1>2. QED
    BY <1>1, ThrottleInvAlways, PTL

(* A full Map gives up the entry that expires first: the order of insertion *)
(* is the order in which entries expire (evictOldest).                      *)
THEOREM OldestIsFirst == ThrottleSpec => []OldestFirst
  <1>1. ThrottleInv => OldestFirst
    BY DEF ThrottleInv, MemoryInv, Ordered, OldestFirst
  <1>2. QED
    BY <1>1, ThrottleInvAlways, PTL

-----------------------------------------------------------------------------
(* Who lengthens a window: the hit that finds no counter, and the EXPIRE of *)
(* one that found none.                                                     *)
Lengthens(k) == redis'[k].left > redis[k].left

Settles(r, k) == hit[r] = HitAt("expire", k) /\ hit'[r] # HitAt("expire", k)

Undertakes(r, k) == hit'[r] = HitAt("expire", k) /\ hit[r] # HitAt("expire", k)

ByFirstHits(k) == Lengthens(k) => redis[k] = None \/ \E r \in Hits : Settles(r, k)

FromNone(k) == \A r \in Hits : Undertakes(r, k) => redis[k] = None

LEMMA IncrLengthens ==
    ASSUME ThrottleInv, NEW r \in Hits, Incr(r), NEW j \in Keys
    PROVE  ByFirstHits(j) /\ FromNone(j)
  <1> DEFINE k == hit[r].key
  <1>1. k \in Keys /\ RedisInv /\ HitInv
    BY DEF Incr, ThrottleInv, HitInv, Hit
  <1>2. ByFirstHits(j)
    <2>1. \/ redis' = redis
          \/ \E lost \in BOOLEAN : redis' = Incremented(k, lost)
      BY DEF Incr
    <2>2. ASSUME NEW lost \in BOOLEAN, redis' = Incremented(k, lost), redis[j] # None
          PROVE  redis'[j] = redis[j]
      <3>1. /\ \A i \in Keys \ {k} : redis'[i] = redis[i]
            /\ Count(k) # 1 => redis'[k] = redis[k]
        BY <1>1, <2>2, IncrementedProperties
      <3>2. j = k => Count(k) = 2
        BY <2>2 DEF Count
      <3>3. QED
        BY <3>1, <3>2
    <2>3. redis[j].left \in Nat
      BY <1>1, NeverLeft DEF RedisInv, Counter
    <2>4. QED
      BY <2>1, <2>2, <2>3 DEF ByFirstHits, Lengthens
  <1>3. FromNone(j)
    <2>1. \/ hit' = [hit EXCEPT ![r] = IF SetsExpiry(Count(k)) THEN HitAt("expire", k)
                                                              ELSE HitAt("pttl", NoKey)]
          \/ hit' = [hit EXCEPT ![r] = Idle]
          \/ hit' = hit
      BY DEF Incr, FallBack
    <2>2. \A q \in Hits \ {r} : hit'[q] = hit[q]
      BY <1>1, <2>1 DEF HitInv
    <2>3. hit'[r] = HitAt("expire", j) => hit[r] = HitAt("expire", j) \/ (SetsExpiry(Count(k)) /\ j = k)
      BY <1>1, <2>1 DEF HitInv, HitAt, Idle
    <2>4. SetsExpiry(Count(k)) => redis[k] = None
      BY DEF SetsExpiry, Count
    <2>5. QED
      BY <2>2, <2>3, <2>4 DEF FromNone, Undertakes
  <1>4. QED
    BY <1>2, <1>3

LEMMA ExpireLengthens ==
    ASSUME ThrottleInv, NEW r \in Hits, Expire(r), NEW j \in Keys
    PROVE  ByFirstHits(j) /\ FromNone(j)
  <1> DEFINE k == hit[r].key
  <1>1. k \in Keys /\ RedisInv /\ HitInv /\ hit[r] = HitAt("expire", k)
    BY DEF Expire, ThrottleInv, HitInv, Hit, HitAt
  <1>2. hit' = [hit EXCEPT ![r] = HitAt("pttl", NoKey)] \/ hit' = [hit EXCEPT ![r] = Idle]
    BY DEF Expire, FallBack
  <1>3. hit'[r] # HitAt("expire", k) /\ hit'[r] # HitAt("expire", j)
    BY <1>1, <1>2 DEF HitInv, HitAt, Idle
  <1>4. j # k => redis'[j] = redis[j]
    BY <1>1 DEF Expire, Expiring, RedisInv
  <1>5. redis[j].left \in Nat
    BY <1>1, NeverLeft DEF RedisInv, Counter
  <1>6. \A q \in Hits \ {r} : hit'[q] = hit[q]
    BY <1>1, <1>2 DEF HitInv
  <1>7. QED
    BY <1>1, <1>3, <1>4, <1>5, <1>6 DEF ByFirstHits, Lengthens, Settles, FromNone, Undertakes

LEMMA OthersLengthenNone ==
    ASSUME ThrottleInv, NEW j \in Keys,
           \/ \E r \in Hits : Pttl(r) \/ \E k \in Keys : Start(r, k)
           \/ Tick \/ Restart \/ Die
    PROVE  ByFirstHits(j) /\ FromNone(j)
  <1>1. redis[j].left \in Nat /\ HitInv
    BY NeverLeft DEF ThrottleInv, RedisInv, Counter
  <1>2. CASE \E r \in Hits : Pttl(r) \/ \E k \in Keys : Start(r, k)
    <2>1. redis' = redis
      BY <1>2 DEF Pttl, Start
    <2>2. \E r \in Hits, pc \in {"idle", "incr"} : \E k : hit' = [hit EXCEPT ![r] = HitAt(pc, k)]
      BY <1>2 DEF Pttl, Start, Idle
    <2>3. FromNone(j)
      BY <1>1, <2>2 DEF FromNone, Undertakes, HitInv, HitAt
    <2>4. QED
      BY <1>1, <2>1, <2>3 DEF ByFirstHits, Lengthens
  <1>3. CASE Tick
    <2>1. redis[j] \in Counter
      BY DEF ThrottleInv, RedisInv
    <2>2. redis'[j].left \in {redis[j].left, redis[j].left - 1, 0}
      BY <1>3, <2>1 DEF Tick, None, Counter
    <2>3. hit' = hit
      BY <1>3 DEF Tick
    <2>4. QED
      BY <1>1, <2>1, <2>2, <2>3 DEF ByFirstHits, Lengthens, FromNone, Undertakes
  <1>4. CASE Restart
    BY <1>1, <1>4 DEF Restart, None, ByFirstHits, Lengthens, FromNone, Undertakes
  <1>5. CASE Die
    <2>1. redis'[j].left = redis[j].left
      BY <1>5 DEF Die, ThrottleInv, RedisInv, Counter
    <2>2. \A r \in Hits : hit'[r] = HitAt("idle", NoKey)
      BY <1>5 DEF Die, Idle
    <2>3. QED
      BY <1>1, <2>1, <2>2 DEF ByFirstHits, Lengthens, FromNone, Undertakes, HitAt
  <1>6. QED
    BY <1>2, <1>3, <1>4, <1>5

(* The part of WindowEnds that needs no fairness: a hit that finds a        *)
(* counter never lengthens the window it is counted in, however often the   *)
(* client tries.  The time to live of a counter grows only when a first hit *)
(* makes it, or by the EXPIRE of a request that found none, once            *)
(* (redis.service.ts:153-156).                                              *)
THEOREM OnlyFirstHitsLengthen ==
    ThrottleSpec => [][\A k \in Keys :
                 /\ redis'[k].left > redis[k].left =>
                      \/ redis[k] = None
                      \/ \E r \in Hits : hit[r] = HitAt("expire", k) /\ hit'[r] # HitAt("expire", k)
                 /\ \A r \in Hits :
                      hit'[r] = HitAt("expire", k) /\ hit[r] # HitAt("expire", k) => redis[k] = None]_throttleVars
  <1> DEFINE Longer(k) ==
               /\ redis'[k].left > redis[k].left =>
                    \/ redis[k] = None
                    \/ \E r \in Hits : hit[r] = HitAt("expire", k) /\ hit'[r] # HitAt("expire", k)
               /\ \A r \in Hits :
                    hit'[r] = HitAt("expire", k) /\ hit[r] # HitAt("expire", k) => redis[k] = None
  <1>1. ASSUME ThrottleInv, ThrottleNext
        PROVE  \A k \in Keys : Longer(k)
    <2>1. \A k \in Keys : ByFirstHits(k) /\ FromNone(k)
      BY <1>1, IncrLengthens, ExpireLengthens, OthersLengthenNone DEF ThrottleNext, Step
    <2>2. QED
      BY <2>1 DEF ByFirstHits, FromNone, Lengthens, Settles, Undertakes
  <1>2. ThrottleInv /\ [ThrottleNext]_throttleVars => [\A k \in Keys : Longer(k)]_throttleVars
    BY <1>1
  <1>3. QED
    BY <1>2, ThrottleInvAlways, PTL DEF ThrottleSpec

=============================================================================
