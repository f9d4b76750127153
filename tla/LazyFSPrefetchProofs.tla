------------------------ MODULE LazyFSPrefetchProofs ------------------------
(****************************************************************************)
(* What the operations on the prefetch queue keep, for any cap, any number  *)
(* of ranges and any queue: no task is lost or started twice, and slots are *)
(* counted exactly.                                                         *)
(****************************************************************************)
EXTENDS LazyFSPrefetch, FiniteSetTheorems, SequenceTheorems, TLAPS

Pools == [queue : Seq(Ranges), active : Nat, running : SUBSET Ranges]

Members(p) == Queued(p) \cup p.running

NoDuplicates(q) == \A i, j \in DOMAIN q : q[i] = q[j] => i = j

\* A task is queued once or runs, and every task that runs holds a slot.
PoolOK(p) ==
  /\ p \in Pools
  /\ Queued(p) \cap p.running = {}
  /\ NoDuplicates(p.queue)
  /\ p.active = Cardinality(p.running)

\* No slot is free while a task is queued.
Drained(p) == p.queue # <<>> => p.active >= MAX_CONCURRENT_PREFETCHES

\* The first n members of a queue without duplicates are n elements.
LEMMA PrefixCount ==
  ASSUME NEW q \in Seq(Ranges), NoDuplicates(q), NEW n \in 0 .. Len(q)
  PROVE  /\ IsFiniteSet({q[i] : i \in 1 .. n})
         /\ Cardinality({q[i] : i \in 1 .. n}) = n
<1> DEFINE S == {q[i] : i \in 1 .. n}
           f == [i \in 1 .. n |-> q[i]]
<1>1. f \in Bijection(1 .. n, S)
  BY DEF Bijection, Injection, Surjection, IsInjective, NoDuplicates
<1>2. ExistsBijection(1 .. n, S)
  BY <1>1 DEF ExistsBijection
<1>3. QED
  BY <1>2, FS_CountingElements, FS_NatBijection

\* Two disjoint sets of ranges are counted apart.
LEMMA DisjointCount ==
  ASSUME NEW A \in SUBSET Ranges, NEW B \in SUBSET Ranges, A \cap B = {}
  PROVE  Cardinality(A \cup B) = Cardinality(A) + Cardinality(B)
<1>1. IsFiniteSet(A) /\ IsFiniteSet(B)
  BY FS_Subset, RangesAssumption DEF RangesAssumption
<1>2. Cardinality(A \cap B) = 0
  BY FS_EmptySet
<1>3. Cardinality(A) \in Nat /\ Cardinality(B) \in Nat
  BY <1>1, FS_CardinalityType
<1>4. Cardinality(A \cup B) = Cardinality(A) + Cardinality(B) - Cardinality(A \cap B)
  BY <1>1, FS_Union
<1>5. QED
  BY <1>2, <1>3, <1>4

\* Draining keeps every task, counts the slots it takes, and leaves none free
\* while something is queued.
LEMMA DrainKeepsPool ==
  ASSUME NEW p, PoolOK(p)
  PROVE  PoolOK(Drain(p)) /\ Drained(Drain(p)) /\ Members(Drain(p)) = Members(p)
<1> DEFINE q == p.queue
           free == MAX_CONCURRENT_PREFETCHES - p.active
           n == IF free < 0 THEN 0 ELSE IF free < Len(q) THEN free ELSE Len(q)
           rest == SubSeq(q, n + 1, Len(q))
           started == {q[i] : i \in 1 .. n}
           d == Drain(p)
<1>1. q \in Seq(Ranges) /\ p.active \in Nat /\ p.running \in SUBSET Ranges /\ Len(q) \in Nat
  BY DEF PoolOK, Pools
<1>2. MAX_CONCURRENT_PREFETCHES \in Nat
  BY RangesAssumption DEF RangesAssumption
<1>3. n \in 0 .. Len(q) /\ (n = Len(q) \/ p.active + n >= MAX_CONCURRENT_PREFETCHES)
  BY <1>1, <1>2
<1>4. d = [queue |-> rest, active |-> p.active + n, running |-> p.running \cup started]
  BY DEF Drain
<1> HIDE DEF n, d
<1>5. /\ rest \in Seq(Ranges)
      /\ Len(rest) = Len(q) - n
      /\ \A i \in 1 .. Len(rest) : rest[i] = q[n + i]
  BY <1>1, <1>3
<1>6. started \in SUBSET Ranges
  BY <1>1, <1>3
<1>7. started \cap p.running = {}
  BY <1>1, <1>3 DEF PoolOK, Queued
<1>8. Cardinality(started) = n
  BY <1>1, <1>3, PrefixCount DEF PoolOK
<1>9. Cardinality(p.running \cup started) = p.active + n
  BY <1>1, <1>6, <1>7, <1>8, DisjointCount DEF PoolOK
<1>10. d \in Pools
  BY <1>1, <1>3, <1>4, <1>5, <1>6 DEF Pools
<1>11. Queued(d) = {rest[i] : i \in 1 .. Len(rest)}
  <2>1. d.queue = rest
    BY <1>4
  <2>2. DOMAIN rest = 1 .. Len(rest)
    BY <1>5
  <2> HIDE DEF rest
  <2>3. QED
    BY <2>1, <2>2 DEF Queued
<1>12. Queued(p) = {q[i] : i \in 1 .. Len(q)}
  BY <1>1 DEF Queued
<1>13. NoDuplicates(rest)
  BY <1>1, <1>3, <1>5 DEF PoolOK, NoDuplicates
<1>14. Queued(d) \cap started = {}
  BY <1>1, <1>3, <1>5, <1>11 DEF PoolOK, NoDuplicates
<1>15. Queued(d) \subseteq Queued(p) /\ started \subseteq Queued(p)
  BY <1>1, <1>3, <1>5, <1>11, <1>12
<1>16. Queued(p) \subseteq Queued(d) \cup started
  <2> SUFFICES ASSUME NEW i \in 1 .. Len(q), q[i] \notin started
               PROVE  q[i] \in Queued(d)
    BY <1>12
  <2>1. i > n
    BY <1>3
  <2>2. i - n \in 1 .. Len(rest) /\ rest[i - n] = q[i]
    BY <1>1, <1>3, <1>5, <2>1
  <2>3. QED
    BY <1>11, <2>2
<1>17. PoolOK(d)
  BY <1>4, <1>9, <1>10, <1>13, <1>14, <1>15 DEF PoolOK
<1>18. Drained(d)
  BY <1>1, <1>2, <1>3, <1>4, <1>5 DEF Drained
<1>19. Members(d) = Members(p)
  BY <1>4, <1>15, <1>16 DEF Members
<1>20. QED
  BY <1>17, <1>18, <1>19 DEF d

\* A queue from which one place is removed loses what was there, and only that.
LEMMA WithoutOne ==
  ASSUME NEW q \in Seq(Ranges), NoDuplicates(q), NEW k \in 1 .. Len(q)
  PROVE  /\ Without(q, k) \in Seq(Ranges)
         /\ NoDuplicates(Without(q, k))
         /\ {Without(q, k)[i] : i \in DOMAIN Without(q, k)}
              = {q[i] : i \in DOMAIN q} \ {q[k]}
<1> DEFINE w == Without(q, k)
<1>1. Len(q) \in Nat /\ k \in Nat /\ 1 <= k /\ k <= Len(q) /\ DOMAIN q = 1 .. Len(q)
  OBVIOUS
<1>2. \A i, j \in 1 .. Len(q) : q[i] = q[j] => i = j
  BY <1>1 DEF NoDuplicates
<1>3. /\ w \in Seq(Ranges)
      /\ Len(w) = Len(q) - 1
      /\ \A i \in 1 .. Len(w) : w[i] = q[IF i < k THEN i ELSE i + 1]
  <2> DEFINE l == SubSeq(q, 1, k - 1)
             r == SubSeq(q, k + 1, Len(q))
  <2>1. \A i \in 1 .. Len(q) : q[i] \in Ranges
    OBVIOUS
  <2>2. /\ l \in Seq(Ranges) /\ Len(l) = k - 1
        /\ \A i \in 1 .. Len(l) : l[i] = q[i]
    BY <1>1, <2>1, SubSeqProperties
  <2>3. /\ r \in Seq(Ranges) /\ Len(r) = Len(q) - k
        /\ \A i \in 1 .. Len(r) : r[i] = q[k + i]
    <3>1. \A i \in k + 1 .. Len(q) : q[i] \in Ranges
      BY <1>1, <2>1
    <3>2. /\ r \in Seq(Ranges)
          /\ Len(r) = IF k + 1 <= Len(q) THEN Len(q) - (k + 1) + 1 ELSE 0
          /\ \A i \in 1 .. Len(q) - (k + 1) + 1 : r[i] = q[(k + 1) + i - 1]
      <4>1. k + 1 \in Int /\ Len(q) \in Int
        BY <1>1
      <4>2. QED
        BY <4>1, <3>1, SubSeqProperties
    <3>6. Len(r) = IF k + 1 <= Len(q) THEN Len(q) - (k + 1) + 1 ELSE 0
      BY <3>2
    <3> HIDE DEF r
    <3>3. Len(r) = Len(q) - k
      <4> DEFINE n == Len(q)
                 m == Len(r)
      <4>1. n \in Nat /\ k \in Nat /\ k <= n
        BY <1>1
      <4>2. m = IF k + 1 <= n THEN n - (k + 1) + 1 ELSE 0
        BY <3>6
      <4> HIDE DEF n, m
      <4>3. m = n - k
        BY <4>1, <4>2
      <4>4. QED
        BY <4>3 DEF n, m
    <3>4. ASSUME NEW i \in 1 .. Len(r)
          PROVE  r[i] = q[k + i]
      <4>1. i \in 1 .. Len(q) - (k + 1) + 1 /\ (k + 1) + i - 1 = k + i
        BY <1>1, <3>3
      <4>2. QED
        BY <3>2, <4>1
    <3>5. QED
      BY <3>2, <3>3, <3>4
  <2>4. w = l \o r
    BY DEF Without
  <2> HIDE DEF w, l, r
  <2>5. /\ w \in Seq(Ranges) /\ Len(w) = Len(l) + Len(r)
        /\ \A i \in 1 .. Len(l) + Len(r) :
             w[i] = IF i <= Len(l) THEN l[i] ELSE r[i - Len(l)]
    BY <2>2, <2>3, <2>4, ConcatProperties
  <2>6. ASSUME NEW i \in 1 .. Len(w)
        PROVE  w[i] = q[IF i < k THEN i ELSE i + 1]
    <3>1. CASE i < k
      BY <1>1, <2>2, <2>3, <2>5, <3>1
    <3>2. CASE i >= k
      <4> DEFINE ll == Len(l)  lr == Len(r)  lw == Len(w)  lq == Len(q)
      <4>6. /\ ll = k - 1 /\ lr = lq - k /\ lw = ll + lr
            /\ lq \in Nat /\ i \in 1 .. lw
        BY <1>1, <2>2, <2>3, <2>5
      <4> HIDE DEF ll, lr, lw, lq
      <4>5. i - ll \in 1 .. lr /\ k + (i - ll) = i + 1 /\ ~(i <= ll) /\ i \in 1 .. ll + lr
        BY <1>1, <3>2, <4>6
      <4>1. /\ i - Len(l) \in 1 .. Len(r) /\ k + (i - Len(l)) = i + 1 /\ ~(i <= Len(l))
            /\ i \in 1 .. Len(l) + Len(r)
        BY <4>5 DEF ll, lr
      <4>2. w[i] = r[i - Len(l)]
        BY <2>5, <4>1
      <4>3. r[i - Len(l)] = q[i + 1]
        BY <2>3, <4>1
      <4>4. QED
        BY <1>1, <3>2, <4>2, <4>3
    <3>3. QED
      BY <1>1, <3>1, <3>2
  <2>7. QED
    BY <1>1, <2>2, <2>3, <2>5, <2>6
<1>4. DOMAIN w = 1 .. Len(w)
  BY <1>3
<1> DEFINE from(i) == IF i < k THEN i ELSE i + 1
<1> HIDE DEF w
<1>5. \A i \in 1 .. Len(w) : from(i) \in 1 .. Len(q) /\ from(i) # k
  BY <1>1, <1>3
<1>6. \A i, j \in 1 .. Len(w) : from(i) = from(j) => i = j
  BY <1>1, <1>3
<1>7. \A i \in 1 .. Len(w) : w[i] = q[from(i)]
  BY <1>3
<1>8. \A i \in 1 .. Len(q) : i # k => \E j \in 1 .. Len(w) : from(j) = i
  <2> SUFFICES ASSUME NEW i \in 1 .. Len(q), i # k
               PROVE  \E j \in 1 .. Len(w) : from(j) = i
    OBVIOUS
  <2>1. CASE i < k
    <3>1. i \in 1 .. Len(w) /\ from(i) = i
      BY <1>1, <1>3, <2>1
    <3>2. QED
      BY <3>1
  <2>2. CASE i > k
    <3>1. i - 1 \in 1 .. Len(w) /\ from(i - 1) = i
      BY <1>1, <1>3, <2>2
    <3>2. QED
      BY <3>1
  <2>3. QED
    BY <1>1, <2>1, <2>2
<1> HIDE DEF from
<1>9. NoDuplicates(w)
  BY <1>2, <1>4, <1>5, <1>6, <1>7 DEF NoDuplicates
<1>10. {w[i] : i \in DOMAIN w} = {q[i] : i \in DOMAIN q} \ {q[k]}
  <2>1. ASSUME NEW i \in 1 .. Len(w)
        PROVE  w[i] \in {q[j] : j \in DOMAIN q} \ {q[k]}
    BY <1>1, <1>2, <1>5, <1>7
  <2>2. ASSUME NEW i \in 1 .. Len(q), q[i] # q[k]
        PROVE  q[i] \in {w[j] : j \in DOMAIN w}
    <3>1. PICK j \in 1 .. Len(w) : from(j) = i
      BY <1>8, <2>2
    <3>2. QED
      BY <1>4, <1>7, <3>1
  <2>3. QED
    BY <1>1, <1>4, <2>1, <2>2
<1>11. QED
  BY <1>3, <1>9, <1>10 DEF w

\* A promoted task leaves the queue for a slot of its own; nothing else moves.
LEMMA PromoteKeepsPool ==
  ASSUME NEW p, PoolOK(p), Drained(p), NEW r
  PROVE  /\ PoolOK(Promote(p, r)) /\ Drained(Promote(p, r))
         /\ Members(Promote(p, r)) = Members(p)
         /\ r \notin Queued(Promote(p, r))
<1>1. CASE r \notin Queued(p)
  BY <1>1 DEF Promote
<1>2. CASE r \in Queued(p)
  <2> DEFINE k == CHOOSE i \in DOMAIN p.queue : p.queue[i] = r
             d == Promote(p, r)
  <2>1. k \in DOMAIN p.queue /\ p.queue[k] = r
    BY <1>2 DEF Queued
  <2>2. d = [queue |-> Without(p.queue, k), active |-> p.active + 1,
             running |-> p.running \cup {r}]
    BY <1>2 DEF Promote
  <2>3. p.queue \in Seq(Ranges) /\ p.active \in Nat /\ p.running \in SUBSET Ranges
    BY DEF PoolOK, Pools
  <2> HIDE DEF k, d
  <2>4. k \in 1 .. Len(p.queue) /\ NoDuplicates(p.queue)
    BY <2>1, <2>3 DEF PoolOK
  <2>5. /\ d.queue \in Seq(Ranges)
        /\ NoDuplicates(d.queue)
        /\ Queued(d) = Queued(p) \ {r}
    BY <2>1, <2>2, <2>3, <2>4, WithoutOne DEF Queued
  <2>6. r \in Ranges /\ r \notin p.running
    BY <1>2, <2>1, <2>3, <2>4 DEF PoolOK
  <2>7. Cardinality(p.running \cup {r}) = p.active + 1
    BY <2>3, <2>6, FS_AddElement, FS_Subset, RangesAssumption
       DEF PoolOK, RangesAssumption
  <2>8. d.running = p.running \cup {r} /\ d.active = p.active + 1 /\ d \in Pools
    BY <2>2, <2>3, <2>5, <2>6 DEF Pools
  <2>9. PoolOK(d)
    BY <2>5, <2>7, <2>8 DEF PoolOK
  <2>10. p.queue # <<>> /\ MAX_CONCURRENT_PREFETCHES \in Nat
    BY <2>3, <2>4, RangesAssumption DEF RangesAssumption
  <2>11. Drained(d)
    BY <2>3, <2>8, <2>10 DEF Drained
  <2>12. Members(d) = Members(p)
    BY <1>2, <2>5, <2>8 DEF Members
  <2>13. QED
    BY <2>5, <2>9, <2>11, <2>12 DEF d
<1>3. QED
  BY <1>1, <1>2

\* When a task ends, its slot goes to the head of the queue.
LEMMA FinishKeepsPool ==
  ASSUME NEW p, PoolOK(p), NEW r \in p.running
  PROVE  /\ PoolOK(Finish(p, r)) /\ Drained(Finish(p, r))
         /\ Members(Finish(p, r)) = Members(p) \ {r}
<1> DEFINE f == [p EXCEPT !.active = @ - 1, !.running = @ \ {r}]
<1>1. p.queue \in Seq(Ranges) /\ p.active \in Nat /\ p.running \in SUBSET Ranges
  BY DEF PoolOK, Pools
<1>2. IsFiniteSet(p.running)
  BY <1>1, FS_Subset, RangesAssumption DEF RangesAssumption
<1>3. Cardinality(p.running \ {r}) = p.active - 1
  BY <1>2, FS_RemoveElement DEF PoolOK
<1>4. Cardinality(p.running \ {r}) \in Nat
  BY <1>2, FS_RemoveElement, FS_CardinalityType
<1>5. /\ f.queue = p.queue /\ f.active = p.active - 1 /\ f.running = p.running \ {r}
      /\ f \in Pools
  <2>1. p \in Pools /\ p.active - 1 \in Nat
    BY <1>3, <1>4 DEF PoolOK
  <2>2. QED
    BY <2>1 DEF Pools
<1> HIDE DEF f
<1>6. PoolOK(f) /\ Members(f) = Members(p) \ {r}
  BY <1>1, <1>3, <1>4, <1>5 DEF PoolOK, Pools, Queued, Members, NoDuplicates
<1>7. Finish(p, r) = Drain(f)
  BY DEF Finish, f
<1>8. QED
  BY <1>6, <1>7, DrainKeepsPool

\* New tasks at the end of the queue are drained with the rest.
LEMMA QueueMore ==
  ASSUME NEW p, PoolOK(p), NEW s \in Seq(Ranges), NoDuplicates(s),
         {s[i] : i \in DOMAIN s} \cap Members(p) = {}
  PROVE  LET d == Drain([p EXCEPT !.queue = @ \o s])
         IN  /\ PoolOK(d) /\ Drained(d)
             /\ Members(d) = Members(p) \cup {s[i] : i \in DOMAIN s}
<1> DEFINE f == [p EXCEPT !.queue = @ \o s]
           q == p.queue \o s
<1>1. p.queue \in Seq(Ranges) /\ p.active \in Nat /\ p.running \in SUBSET Ranges
  BY DEF PoolOK, Pools
<1>2. /\ f.queue = q /\ f.active = p.active /\ f.running = p.running
      /\ f \in Pools
  <2>1. p \in Pools
    BY DEF PoolOK
  <2>2. q \in Seq(Ranges)
    BY <1>1
  <2>3. QED
    BY <2>1, <2>2 DEF Pools
<1>3. /\ q \in Seq(Ranges) /\ Len(q) = Len(p.queue) + Len(s)
      /\ \A i \in 1 .. Len(p.queue) : q[i] = p.queue[i]
      /\ \A i \in 1 .. Len(s) : q[Len(p.queue) + i] = s[i]
  BY <1>1
<1>4. /\ DOMAIN q = 1 .. Len(q) /\ DOMAIN s = 1 .. Len(s)
      /\ DOMAIN p.queue = 1 .. Len(p.queue)
      /\ Len(q) \in Nat /\ Len(s) \in Nat /\ Len(p.queue) \in Nat
  BY <1>1, <1>3
<1> HIDE DEF f, q
<1>5. ASSUME NEW i \in 1 .. Len(q)
      PROVE  \/ i \in 1 .. Len(p.queue) /\ q[i] = p.queue[i] /\ q[i] \in Queued(p)
             \/ /\ i - Len(p.queue) \in 1 .. Len(s)
                /\ q[i] = s[i - Len(p.queue)]
                /\ q[i] \in {s[j] : j \in DOMAIN s}
  <2>1. CASE i <= Len(p.queue)
    BY <1>3, <1>4, <2>1 DEF Queued
  <2>2. CASE i > Len(p.queue)
    <3>1. i - Len(p.queue) \in 1 .. Len(s) /\ Len(p.queue) + (i - Len(p.queue)) = i
      BY <1>3, <1>4, <2>2
    <3>2. q[i] = s[i - Len(p.queue)]
      BY <1>3, <3>1
    <3>3. QED
      BY <1>4, <3>1, <3>2
  <2>3. QED
    BY <1>4, <2>1, <2>2
<1>6. {q[i] : i \in DOMAIN q} \subseteq Queued(p) \cup {s[i] : i \in DOMAIN s}
  BY <1>4, <1>5
<1>7. Queued(p) \cup {s[i] : i \in DOMAIN s} \subseteq {q[i] : i \in DOMAIN q}
  <2>1. ASSUME NEW i \in 1 .. Len(p.queue)
        PROVE  p.queue[i] \in {q[j] : j \in DOMAIN q}
    <3>1. i \in DOMAIN q /\ q[i] = p.queue[i]
      BY <1>3, <1>4
    <3>2. QED
      BY <3>1
  <2>2. ASSUME NEW i \in 1 .. Len(s)
        PROVE  s[i] \in {q[j] : j \in DOMAIN q}
    <3>1. Len(p.queue) + i \in DOMAIN q
      BY <1>3, <1>4
    <3>2. QED
      BY <1>3, <3>1
  <2>3. QED
    BY <1>4, <2>1, <2>2 DEF Queued
<1>8. NoDuplicates(q)
  <2> SUFFICES ASSUME NEW i \in 1 .. Len(q), NEW j \in 1 .. Len(q), q[i] = q[j]
               PROVE  i = j
    BY <1>4 DEF NoDuplicates
  <2>1. CASE i \in 1 .. Len(p.queue) /\ j \in 1 .. Len(p.queue)
    BY <1>3, <1>4, <2>1 DEF PoolOK, NoDuplicates
  <2>2. CASE i \notin 1 .. Len(p.queue) /\ j \notin 1 .. Len(p.queue)
    <3>1. /\ i - Len(p.queue) \in DOMAIN s /\ j - Len(p.queue) \in DOMAIN s
          /\ s[i - Len(p.queue)] = s[j - Len(p.queue)]
      BY <1>4, <1>5, <2>2
    <3>2. i - Len(p.queue) = j - Len(p.queue)
      BY <3>1 DEF NoDuplicates
    <3>3. QED
      BY <1>4, <3>2
  <2>3. CASE ~(i \in 1 .. Len(p.queue) <=> j \in 1 .. Len(p.queue))
    BY <1>4, <1>5, <2>3 DEF Members
  <2>4. QED
    BY <2>1, <2>2, <2>3
<1>9. Queued(f) = Queued(p) \cup {s[i] : i \in DOMAIN s}
  BY <1>2, <1>6, <1>7 DEF Queued
<1>10. PoolOK(f)
  BY <1>1, <1>2, <1>3, <1>8, <1>9 DEF PoolOK, Pools, Members
<1>11. Members(f) = Members(p) \cup {s[i] : i \in DOMAIN s}
  BY <1>2, <1>9 DEF Members
<1>12. QED
  BY <1>10, <1>11, DrainKeepsPool DEF f

\* Nothing starts from an empty queue when a task ends.
LEMMA FinishFromEmpty ==
  ASSUME NEW p, PoolOK(p), p.queue = <<>>, NEW r \in p.running
  PROVE  Finish(p, r).queue = <<>>
<1> DEFINE f == [p EXCEPT !.active = @ - 1, !.running = @ \ {r}]
           free == MAX_CONCURRENT_PREFETCHES - f.active
           n == IF free < 0 THEN 0 ELSE IF free < Len(f.queue) THEN free ELSE Len(f.queue)
<1>1. f.queue = <<>> /\ f.active \in Int
  BY DEF PoolOK, Pools
<1>2. free \in Int
  BY <1>1, RangesAssumption DEF RangesAssumption
<1>3. Len(f.queue) = 0
  BY <1>1
<1>4. n = 0
  BY <1>2, <1>3
<1>5. Finish(p, r).queue = SubSeq(f.queue, n + 1, Len(f.queue))
  BY DEF Finish, Drain
<1>6. QED
  BY <1>3, <1>4, <1>5, SubSeqEmpty

-----------------------------------------------------------------------------
\* The prefetches in flight are those that are queued or run, and a terminal
\* failure leaves none queued.
QueueOK ==
  /\ PoolOK(pool) /\ Drained(pool)
  /\ inFlight = Members(pool)
  /\ terminalConnectionFailure => pool.queue = <<>>

\* A prefetch joins the one in flight or is a task of its own.
LEMMA PrefetchedKeepsPool ==
  ASSUME QueueOK, NEW r \in Ranges
  PROVE  /\ PoolOK(Prefetched(r)) /\ Drained(Prefetched(r))
         /\ Members(Prefetched(r)) = inFlight \cup {r}
<1>1. CASE r \in inFlight
  BY <1>1 DEF QueueOK, Prefetched
<1>2. CASE r \notin inFlight
  <2> DEFINE s == <<r>>
  <2>1. s \in Seq(Ranges) /\ NoDuplicates(s) /\ {s[i] : i \in DOMAIN s} = {r}
    BY DEF NoDuplicates
  <2>2. pool \in Pools /\ pool.queue \in Seq(Ranges)
    BY DEF QueueOK, PoolOK, Pools
  <2>3. Append(pool.queue, r) = pool.queue \o s
    BY <2>2
  <2>4. Prefetched(r) = Drain([pool EXCEPT !.queue = @ \o s])
    BY <1>2, <2>3 DEF Prefetched
  <2> HIDE DEF s
  <2>5. {s[i] : i \in DOMAIN s} \cap Members(pool) = {}
    BY <1>2, <2>1 DEF QueueOK
  <2>6. QED
    BY <2>1, <2>4, <2>5, QueueMore DEF QueueOK
<1>3. QED
  BY <1>1, <1>2

\* prefetchFileRange keeps the queue in order.
LEMMA PrefetchFileRangeKeepsQueue ==
  ASSUME QueueOK, NEW r \in Ranges, PrefetchFileRange(r),
         terminalConnectionFailure' = terminalConnectionFailure
  PROVE  QueueOK'
<1>1. CASE terminalConnectionFailure
  BY <1>1 DEF QueueOK, PrefetchFileRange, PoolOK, Drained, Members, Queued
<1>2. CASE ~terminalConnectionFailure
  <2>1. pool' = Prefetched(r) /\ inFlight' = inFlight \cup {r}
    BY <1>2 DEF PrefetchFileRange
  <2>2. PoolOK(pool') /\ Drained(pool') /\ Members(pool') = inFlight'
    BY <2>1, PrefetchedKeepsPool
  <2>3. QED
    BY <1>2, <2>2 DEF QueueOK, PoolOK, Drained, Members, Queued
<1>3. QED
  BY <1>1, <1>2

\* A promoted prefetch keeps the queue in order.
LEMMA PrefetchNowKeepsQueue ==
  ASSUME QueueOK, NEW r \in Ranges, PrefetchNow(r),
         ~terminalConnectionFailure, ~terminalConnectionFailure'
  PROVE  QueueOK'
<1>1. pool' = Promote(Prefetched(r), r) /\ inFlight' = inFlight \cup {r}
  BY DEF PrefetchNow
<1>2. PoolOK(pool') /\ Drained(pool') /\ Members(pool') = inFlight'
  BY <1>1, PrefetchedKeepsPool, PromoteKeepsPool
<1>3. QED
  BY <1>2 DEF QueueOK, PoolOK, Drained, Members, Queued

\* The end of a task keeps the queue in order.
LEMMA FinishKeepsQueue ==
  ASSUME QueueOK, NEW r \in pool.running,
         pool' = Finish(pool, r), inFlight' = inFlight \ {r},
         terminalConnectionFailure' = terminalConnectionFailure
  PROVE  QueueOK'
<1>1. PoolOK(pool') /\ Drained(pool') /\ Members(pool') = inFlight'
  BY FinishKeepsPool DEF QueueOK
<1>2. terminalConnectionFailure' => pool'.queue = <<>>
  BY FinishFromEmpty DEF QueueOK
<1>3. QED
  BY <1>1, <1>2 DEF QueueOK, PoolOK, Drained, Members, Queued

\* A terminal failure rejects what is queued, and only that.
LEMMA FailureKeepsQueue ==
  ASSUME QueueOK, ConnectionFails
  PROVE  QueueOK'
<1>1. pool \in Pools /\ inFlight = Queued(pool) \cup pool.running
      /\ Queued(pool) \cap pool.running = {}
  BY DEF QueueOK, PoolOK, Members
<1>2. /\ pool'.queue = <<>> /\ pool'.active = pool.active
      /\ pool'.running = pool.running /\ pool' \in Pools
  <2>1. pool' = [pool EXCEPT !.queue = <<>>]
    BY DEF ConnectionFails
  <2>2. <<>> \in Seq(Ranges)
    OBVIOUS
  <2>3. QED
    BY <1>1, <2>1, <2>2 DEF Pools
<1>3. inFlight' = inFlight \ Queued(pool)
  BY DEF ConnectionFails, Rejects
<1>4. Queued(pool') = {}
  BY <1>2 DEF Queued
<1>5. NoDuplicates(pool'.queue)
  BY <1>2 DEF NoDuplicates
<1>6. PoolOK(pool')
  BY <1>2, <1>4, <1>5 DEF PoolOK, QueueOK
<1>7. Drained(pool') /\ Members(pool') = inFlight'
  BY <1>1, <1>2, <1>3, <1>4 DEF Drained, Members
<1>8. QED
  BY <1>2, <1>6, <1>7 DEF QueueOK, PoolOK, Drained, Members, Queued
=============================================================================
