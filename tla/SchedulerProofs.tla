-------------------------- MODULE SchedulerProofs --------------------------
(***************************************************************************)
(* Proofs about simulate(), for every trace, pool, batch limit and timing  *)
(* of arrivals.  Part 1: its types, and that the prefix cache never loses  *)
(* a block somebody holds.  Part 2: who is served, and when; it serves     *)
(* first come, first served, which makes it an implementation of Service,  *)
(* it loses no request and serves none twice, whatever it preempts while a *)
(* batch is being built, a running request holds the prefix it skipped or  *)
(* computed, and every request has its whole output in the end.            *)
(***************************************************************************)
EXTENDS SchedulerService, SequenceLemmas, FiniteSetTheorems, TLAPS

-----------------------------------------------------------------------------
(* What the operations of PrefixCache preserve, whoever calls them: the    *)
(* type of the cache and LruIsCold.                                        *)

\* A well-formed cache of blocks from B.
CacheOK(c, B) ==
  /\ Cached(c) \subseteq B /\ c.pins \in [Cached(c) -> Nat]
  /\ c.lru \in Seq(B)
  /\ LruIsCold(c)

\* The empty cache is well formed (Cache.__init__).
LEMMA EmptyCacheOK == ASSUME NEW B PROVE CacheOK(EmptyCache, B)
<1>1. Cached(EmptyCache) = {} /\ EmptyCache.lru = <<>> /\ EmptyCache.lru \in Seq(B)
      /\ EmptyCache.pins = <<>>
  BY DEF Cached, EmptyCache
<1>2. Range(EmptyCache.lru) = {} /\ IsInjective(EmptyCache.lru)
  BY <1>1 DEF Range, IsInjective
<1>3. EmptyCache.pins \in [Cached(EmptyCache) -> Nat]
  BY <1>1
<1> QED
  BY <1>1, <1>2, <1>3 DEF CacheOK, LruIsCold

\* A pin takes a cold block off the LRU list and changes nothing else.
LEMMA PinOK ==
  ASSUME NEW B, NEW c, CacheOK(c, B), NEW h \in Cached(c)
  PROVE  /\ CacheOK(Pin(c, h), B)
         /\ Cached(Pin(c, h)) = Cached(c)
         /\ \A b \in Cached(c) : Pin(c, h).pins[b] =
                                   IF b = h THEN c.pins[b] + 1 ELSE c.pins[b]
<1> DEFINE d == Pin(c, h)
<1>1. /\ d.pins = [c.pins EXCEPT ![h] = @ + 1]
      /\ d.lru = IF c.pins[h] = 0 THEN RemoveFirst(c.lru, h) ELSE c.lru
  BY DEF Pin
<1>2. /\ Cached(c) \subseteq B /\ c.pins \in [Cached(c) -> Nat] /\ c.lru \in Seq(B)
      /\ IsInjective(c.lru) /\ Range(c.lru) = {b \in Cached(c) : c.pins[b] = 0}
  BY DEF CacheOK, LruIsCold
<1> HIDE DEF d
<1>3. /\ Cached(d) = Cached(c) /\ d.pins \in [Cached(d) -> Nat]
      /\ \A b \in Cached(c) : d.pins[b] = IF b = h THEN c.pins[b] + 1 ELSE c.pins[b]
  BY <1>1, <1>2 DEF Cached
<1>4. /\ d.lru \in Seq(B) /\ IsInjective(d.lru)
      /\ Range(d.lru) = Range(c.lru) \ {h}
  <2>1. CASE c.pins[h] = 0
    <3>1. h \in Range(c.lru)
      BY <1>2, <2>1
    <3> QED
      BY <1>1, <1>2, <2>1, <3>1, RemoveFirstDistinct
  <2>2. CASE c.pins[h] # 0
    BY <1>1, <1>2, <2>2
  <2> QED
    BY <2>1, <2>2
<1>5. Range(d.lru) = {b \in Cached(d) : d.pins[b] = 0}
  BY <1>2, <1>3, <1>4
<1> QED
  BY <1>2, <1>3, <1>4, <1>5 DEF d, CacheOK, LruIsCold

\* Giving back a pin that is there: the last one makes the block cold.
LEMMA UnpinOK ==
  ASSUME NEW B, NEW c, CacheOK(c, B), NEW h \in Cached(c), c.pins[h] > 0
  PROVE  /\ CacheOK(Unpin(c, h), B)
         /\ Cached(Unpin(c, h)) = Cached(c)
         /\ \A b \in Cached(c) : Unpin(c, h).pins[b] =
                                   IF b = h THEN c.pins[b] - 1 ELSE c.pins[b]
<1> DEFINE d == Unpin(c, h)
<1>1. /\ Cached(c) \subseteq B /\ c.pins \in [Cached(c) -> Nat] /\ c.lru \in Seq(B)
      /\ IsInjective(c.lru) /\ Range(c.lru) = {b \in Cached(c) : c.pins[b] = 0}
  BY DEF CacheOK, LruIsCold
<1>2. CASE c.pins[h] > 1
  <2>2. d.pins = [c.pins EXCEPT ![h] = @ - 1] /\ d.lru = c.lru
    BY <1>2 DEF Unpin
  <2> HIDE DEF d
  <2>3. /\ Cached(d) = Cached(c) /\ d.pins \in [Cached(d) -> Nat]
        /\ \A b \in Cached(c) : d.pins[b] = IF b = h THEN c.pins[b] - 1 ELSE c.pins[b]
    BY <1>1, <1>2, <2>2 DEF Cached
  <2>4. Range(d.lru) = {b \in Cached(d) : d.pins[b] = 0}
    BY <1>1, <1>2, <2>2, <2>3
  <2> QED
    BY <1>1, <2>2, <2>3, <2>4 DEF d, CacheOK, LruIsCold
<1>3. CASE c.pins[h] = 1
  <2>1. d.pins = [c.pins EXCEPT ![h] = 0] /\ d.lru = Append(c.lru, h)
    BY <1>3 DEF Unpin
  <2> HIDE DEF d
  <2>2. /\ Cached(d) = Cached(c) /\ d.pins \in [Cached(d) -> Nat]
        /\ \A b \in Cached(c) : d.pins[b] = IF b = h THEN c.pins[b] - 1 ELSE c.pins[b]
    BY <1>1, <1>3, <2>1 DEF Cached
  <2>3. h \in B /\ h \notin Range(c.lru)
    BY <1>1, <1>3
  <2>4. /\ d.lru \in Seq(B) /\ IsInjective(d.lru)
        /\ Range(d.lru) = Range(c.lru) \cup {h}
    BY <1>1, <2>1, <2>3, AppendDistinct, AppendProperties
  <2>5. Range(d.lru) = {b \in Cached(d) : d.pins[b] = 0}
    BY <1>1, <1>3, <2>2, <2>4
  <2> QED
    BY <1>1, <2>2, <2>4, <2>5 DEF d, CacheOK, LruIsCold
<1> QED
  BY <1>1, <1>2, <1>3

\* A published block enters with one pin, so it is not cold.
LEMMA PublishOK ==
  ASSUME NEW B, NEW c, CacheOK(c, B), NEW h \in B, h \notin Cached(c)
  PROVE  /\ CacheOK(Publish(c, h), B)
         /\ Cached(Publish(c, h)) = Cached(c) \cup {h}
         /\ Publish(c, h).pins[h] = 1
         /\ \A b \in Cached(c) : Publish(c, h).pins[b] = c.pins[b]
<1> DEFINE d == Publish(c, h)
<1>1. /\ Cached(c) \subseteq B /\ c.pins \in [Cached(c) -> Nat] /\ c.lru \in Seq(B)
      /\ IsInjective(c.lru) /\ Range(c.lru) = {b \in Cached(c) : c.pins[b] = 0}
  BY DEF CacheOK, LruIsCold
<1>2. /\ d.pins = [b \in Cached(c) \cup {h} |-> IF b = h THEN 1 ELSE c.pins[b]]
      /\ d.lru = c.lru
  BY DEF Publish
<1> HIDE DEF d
<1>3. /\ Cached(d) = Cached(c) \cup {h} /\ d.pins \in [Cached(d) -> Nat]
      /\ d.pins[h] = 1 /\ \A b \in Cached(c) : d.pins[b] = c.pins[b]
  BY <1>1, <1>2 DEF Cached
<1>4. Range(d.lru) = {b \in Cached(d) : d.pins[b] = 0}
  BY <1>1, <1>2, <1>3
<1> QED
  BY <1>1, <1>2, <1>3, <1>4 DEF d, CacheOK, LruIsCold

\* Eviction, of however many blocks, takes only cold ones.
LEMMA EvictOK ==
  ASSUME NEW B, NEW c, CacheOK(c, B), NEW k
  PROVE  /\ CacheOK(Evict(c, k), B)
         /\ Cached(Evict(c, k)) \subseteq Cached(c)
         /\ \A b \in Cached(c) : c.pins[b] > 0 => b \in Cached(Evict(c, k))
         /\ \A b \in Cached(Evict(c, k)) : Evict(c, k).pins[b] = c.pins[b]
<1> DEFINE old  == {i \in DOMAIN c.lru : i <= k}
           e    == Cardinality(old)
           gone == {c.lru[i] : i \in 1..e}
           d    == Evict(c, k)
<1>1. /\ Cached(c) \subseteq B /\ c.pins \in [Cached(c) -> Nat] /\ c.lru \in Seq(B)
      /\ IsInjective(c.lru) /\ Range(c.lru) = {b \in Cached(c) : c.pins[b] = 0}
  BY DEF CacheOK, LruIsCold
<1>2. e \in 0..Len(c.lru)
  <2>1. Len(c.lru) \in Nat /\ old \subseteq 1..Len(c.lru)
    BY <1>1, LenProperties
  <2> HIDE DEF old
  <2>2. IsFiniteSet(1..Len(c.lru)) /\ Cardinality(1..Len(c.lru)) = Len(c.lru)
    BY <2>1, FS_Interval, SMTT(30)
  <2>3. IsFiniteSet(old) /\ Cardinality(old) <= Len(c.lru)
    BY <2>1, <2>2, FS_Subset
  <2>4. Cardinality(old) \in Nat
    BY <2>3, FS_CardinalityType
  <2> QED
    BY <2>1, <2>3, <2>4
<1>3. /\ d.pins = [b \in Cached(c) \ gone |-> c.pins[b]]
      /\ d.lru = SubSeq(c.lru, e + 1, Len(c.lru))
  BY DEF Evict
<1> HIDE DEF d, e
<1>4. /\ d.lru \in Seq(B) /\ IsInjective(d.lru)
      /\ Range(d.lru) = Range(c.lru) \ gone
  <2> DEFINE t == SubSeq(c.lru, e + 1, Len(c.lru))
  <2>1. /\ t \in Seq(B) /\ IsInjective(t) /\ Range(t) = Range(c.lru) \ gone
    <3> DEFINE s == c.lru
    <3>1. s \in Seq(B) /\ IsInjective(s) /\ e \in 0..Len(s)
      BY <1>1, <1>2
    <3> HIDE DEF s
    <3>2. /\ SubSeq(s, e + 1, Len(s)) \in Seq(B) /\ IsInjective(SubSeq(s, e + 1, Len(s)))
          /\ Range(SubSeq(s, e + 1, Len(s))) = Range(s) \ {s[i] : i \in 1..e}
      BY <3>1, DropDistinct, SMTT(30)
    <3> QED
      BY <3>2 DEF s
  <2> QED
    BY <1>3, <2>1
<1>5. gone \subseteq Range(c.lru)
  <2>1. \A i \in 1..e : i \in 1..Len(c.lru)
    BY <1>2
  <2> QED
    BY <1>1, <2>1, RangeIs
<1> HIDE DEF gone
<1>6. /\ Cached(d) = Cached(c) \ gone /\ d.pins \in [Cached(d) -> Nat]
      /\ \A b \in Cached(d) : d.pins[b] = c.pins[b]
  BY <1>1, <1>3 DEF Cached
<1>7. Range(d.lru) = {b \in Cached(d) : d.pins[b] = 0}
  BY <1>1, <1>4, <1>6
<1>8. \A b \in Cached(c) : c.pins[b] > 0 => b \in Cached(d)
  BY <1>1, <1>5, <1>6
<1> QED
  BY <1>1, <1>4, <1>6, <1>7, <1>8 DEF d, CacheOK, LruIsCold

-----------------------------------------------------------------------------
(* The constants and the trace.                                            *)

\* Rounding to blocks: i full blocks fit, and rounding up is no less than down.
LEMMA BlockArithmetic ==
  ASSUME NEW n \in Nat
  PROVE  /\ n \div BlockSize \in Nat /\ Blocks(n) \in Nat
         /\ n \div BlockSize <= Blocks(n)
         /\ \A i \in Nat : i <= n \div BlockSize => i * BlockSize \in Nat /\ i * BlockSize <= n
<1> DEFINE b == BlockSize
<1>1. b \in Nat \ {0}
  BY CfgAssumption
<1> HIDE DEF b
<1>2. PICK q \in Nat, m \in 0..(b - 1) : n = b * q + m /\ q = n \div b
  BY <1>1
<1> QED
  BY <1>1, <1>2 DEF b, Blocks

\* What TypeOK and the assumption on traces say of the trace.
LEMMA TraceFacts ==
  ASSUME TypeOK
  PROVE  /\ Len(trace) \in Nat /\ Requests = 1..Len(trace) /\ IsFiniteSet(Requests)
         /\ \A r \in Requests :
              /\ trace[r].words \in Seq(Nat) /\ PromptLen(r) \in Nat \ {0}
              /\ OutputLen(r) \in Nat \ {0} /\ Arrival(r) \in Nat
              /\ NumHashes(r) \in Nat
<1>1. /\ trace \in Seq(Request)
      /\ \A r \in DOMAIN trace : trace[r].words # <<>> /\ trace[r].olen > 0
  BY TracesAssumption DEF TypeOK
<1>2. Len(trace) \in Nat /\ Requests = 1..Len(trace) /\ IsFiniteSet(Requests)
  BY <1>1, LenProperties, FS_Interval DEF Requests
<1>3. ASSUME NEW r \in Requests
      PROVE  /\ trace[r].words \in Seq(Nat) /\ PromptLen(r) \in Nat \ {0}
             /\ OutputLen(r) \in Nat \ {0} /\ Arrival(r) \in Nat
  <2>1. trace[r] \in Request /\ trace[r].words # <<>> /\ trace[r].olen > 0
    BY <1>1, <1>2, ElementOfSeq DEF Requests
  <2>2. trace[r].words \in Seq(Nat) /\ trace[r].olen \in Nat /\ trace[r].arrival \in Nat
    BY <2>1 DEF Request
  <2>3. Len(trace[r].words) \in Nat \ {0}
    BY <2>1, <2>2, EmptySeq
  <2> QED
    BY <2>1, <2>2, <2>3 DEF PromptLen, OutputLen, Arrival
<1>4. \A r \in Requests : NumHashes(r) \in Nat
  BY <1>3, BlockArithmetic DEF NumHashes
<1> QED
  BY <1>2, <1>3, <1>4

\* A prompt's blocks are blocks, all different, and none is a generated one.
LEMMA HashFacts ==
  ASSUME TypeOK, NEW r \in Requests
  PROVE  /\ \A i \in 1..NumHashes(r) : Hash(r, i) \in Block
         /\ \A i, j \in 1..NumHashes(r) : Hash(r, i) = Hash(r, j) => i = j
         /\ \A k \in Nat : GenHash(r, k) \in Block
         /\ \A k, i \in Nat : GenHash(r, k) # Hash(r, i)
<1> DEFINE w == trace[r].words
<1>1. w \in Seq(Nat) /\ Len(w) \in Nat /\ NumHashes(r) \in Nat /\ r \in Nat
      /\ BlockSize \in Nat \ {0}
  BY TraceFacts, LenProperties, CfgAssumption
<1>2. ASSUME NEW i \in 1..NumHashes(r)
      PROVE  i * BlockSize \in Nat /\ i * BlockSize <= Len(w)
  <2>1. i \in Nat /\ i <= NumHashes(r)
    BY <1>1
  <2>2. NumHashes(r) = Len(w) \div BlockSize
    BY DEF NumHashes, PromptLen
  <2> HIDE DEF w
  <2> QED
    BY <1>1, <2>1, <2>2, BlockArithmetic
<1> HIDE DEF w
<1>3. ASSUME NEW i \in 1..NumHashes(r)
      PROVE  /\ SubSeq(w, 1, i * BlockSize) \in Seq(Nat)
             /\ Len(SubSeq(w, 1, i * BlockSize)) = i * BlockSize
  <2> DEFINE n == i * BlockSize
  <2>1. n \in Nat /\ n \in Int /\ 1 \in Int /\ n <= Len(w)
    BY <1>2
  <2> HIDE DEF n
  <2>2. \A k \in 1..n : w[k] \in Nat
    BY <1>1, <2>1, ElementOfSeq
  <2>3. /\ SubSeq(w, 1, n) \in Seq(Nat)
        /\ Len(SubSeq(w, 1, n)) = IF 1 <= n THEN n - 1 + 1 ELSE 0
    BY <2>1, <2>2, SubSeqProperties
  <2>4. SubSeq(w, 1, n) \in Seq(Nat) /\ Len(SubSeq(w, 1, n)) = n
    BY <2>1, <2>3
  <2> QED
    BY <2>4 DEF n
<1>4. \A i \in 1..NumHashes(r) : Hash(r, i) \in Block
  BY <1>3 DEF Hash, Block, w
<1>5. ASSUME NEW i \in 1..NumHashes(r), NEW j \in 1..NumHashes(r), Hash(r, i) = Hash(r, j)
      PROVE  i = j
  <2>1. SubSeq(w, 1, i * BlockSize) = SubSeq(w, 1, j * BlockSize)
    BY <1>5 DEF Hash, w
  <2>2. i * BlockSize = j * BlockSize
    BY <1>3, <2>1
  <2> QED
    BY <1>1, <2>2
<1>6. \A k \in Nat : GenHash(r, k) \in Block
  BY <1>1 DEF GenHash, Block
<1>7. \A k, i \in Nat : GenHash(r, k) # Hash(r, i)
  BY DEF GenHash, Hash
<1> QED
  BY <1>4, <1>5, <1>6, <1>7

\* reclaim() evicts at most: what is pinned stays as it is.
LEMMA ReclaimedOK ==
  ASSUME TypeOK, ColdBlocksListed, NEW n
  PROVE  /\ CacheOK(Reclaimed(n), Block)
         /\ Cached(Reclaimed(n)) \subseteq Cached(cache)
         /\ \A b \in Cached(cache) : cache.pins[b] > 0 => b \in Cached(Reclaimed(n))
         /\ \A b \in Cached(Reclaimed(n)) : Reclaimed(n).pins[b] = cache.pins[b]
<1>1. CacheOK(cache, Block)
  BY DEF TypeOK, ColdBlocksListed, CacheOK
<1> DEFINE short == n - Free(cache)
<1>2. Reclaimed(n) = cache \/ Reclaimed(n) = Evict(cache, short)
  BY DEF Reclaimed
<1> HIDE DEF short
<1>3. CASE Reclaimed(n) = cache
  BY <1>1, <1>3
<1>4. CASE Reclaimed(n) = Evict(cache, short)
  BY <1>1, <1>4, EvictOK
<1> QED
  BY <1>2, <1>3, <1>4

-----------------------------------------------------------------------------
(* Pins and holders.                                                       *)

\* In a state of IInv the cache is well formed, and a block with a holder is
\* cached with enough pins.
LEMMA HoldersFacts ==
  ASSUME IInv
  PROVE  /\ CacheOK(cache, Block)
         /\ \A h : /\ IsFiniteSet(Holders(h)) /\ Cardinality(Holders(h)) \in Nat
                   /\ Holders(h) # {} =>
                        /\ h \in Cached(cache) /\ cache.pins[h] \in Nat
                        /\ Cardinality(Holders(h)) <= cache.pins[h]
                        /\ cache.pins[h] > 0
<1>1. CacheOK(cache, Block)
  BY DEF IInv, TypeOK, ColdBlocksListed, CacheOK
<1>2. IsFiniteSet(0..Len(trace))
  BY TraceFacts, FS_Interval DEF IInv
<1>3. ASSUME NEW h
      PROVE  /\ IsFiniteSet(Holders(h)) /\ Cardinality(Holders(h)) \in Nat
             /\ Holders(h) # {} => Cardinality(Holders(h)) > 0
  <2>1. Holders(h) \subseteq 0..Len(trace)
    BY DEF Holders
  <2>2. IsFiniteSet(Holders(h))
    BY <1>2, <2>1, FS_Subset
  <2> QED
    BY <2>2, FS_CardinalityType, FS_EmptySet
<1>4. ASSUME NEW h, Holders(h) # {}
      PROVE  /\ h \in Cached(cache) /\ cache.pins[h] \in Nat
             /\ Cardinality(Holders(h)) <= cache.pins[h]
  <2>1. h \in Held
    BY <1>4 DEF Held, Holders
  <2> QED
    BY <1>1, <2>1 DEF IInv, PinsCoverHolders, Holds, CacheOK
<1> QED
  BY <1>1, <1>3, <1>4

\* Nobody gets a block, and at most reclaim() has run.
LEMMA NobodyGains ==
  ASSUME IInv,
         \A h : /\ Cardinality(Holders(h)') \in Nat
                /\ Cardinality(Holders(h)') <= Cardinality(Holders(h))
                /\ Holders(h)' # {} => Holders(h) # {},
         cache' = cache \/ \E n : cache' = Reclaimed(n)
  PROVE  CacheOK(cache', Block) /\ PinsCoverHolders'
<1>1. /\ CacheOK(cache', Block)
      /\ \A b \in Cached(cache) : cache.pins[b] > 0 =>
           b \in Cached(cache') /\ cache'.pins[b] = cache.pins[b]
  <2>1. CASE cache' = cache
    BY <2>1, HoldersFacts
  <2>2. CASE \E n : cache' = Reclaimed(n)
    BY <2>2, ReclaimedOK DEF IInv
  <2> QED
    BY <2>1, <2>2
<1>2. ASSUME NEW h \in Held'
      PROVE  h \in Cached(cache') /\ Holds(h)' <= cache'.pins[h]
  <2>1. Holders(h)' # {}
    BY <1>2 DEF Held, Holders
  <2>2. /\ h \in Cached(cache) /\ cache.pins[h] \in Nat
        /\ Cardinality(Holders(h)) <= cache.pins[h] /\ cache.pins[h] > 0
        /\ Cardinality(Holders(h)) \in Nat
    BY <2>1, HoldersFacts
  <2>3. h \in Cached(cache') /\ cache'.pins[h] = cache.pins[h]
    BY <1>1, <2>2
  <2>4. Cardinality(Holders(h)') \in Nat /\ Cardinality(Holders(h)') <= Cardinality(Holders(h))
    OBVIOUS
  <2> QED
    BY <2>2, <2>3, <2>4 DEF Holds
<1> QED
  BY <1>1, <1>2 DEF PinsCoverHolders, Cached

\* x gets block h, with a pin of its own.
LEMMA OneGains ==
  ASSUME IInv, NEW x, NEW h,
         Holders(h)' \subseteq Holders(h) \cup {x},
         \A b : b # h => Holders(b)' \subseteq Holders(b),
         \/ h \in Cached(cache) /\ cache' = Pin(cache, h)
         \/ h \in Block \ Cached(cache) /\ cache' = Publish(cache, h)
  PROVE  CacheOK(cache', Block) /\ PinsCoverHolders'
<1>1. /\ CacheOK(cache, Block) /\ cache.pins \in [Cached(cache) -> Nat]
      /\ \A b : /\ IsFiniteSet(Holders(b)) /\ Cardinality(Holders(b)) \in Nat
                /\ Holders(b) # {} =>
                     /\ b \in Cached(cache) /\ cache.pins[b] \in Nat
                     /\ Cardinality(Holders(b)) <= cache.pins[b]
  BY HoldersFacts DEF CacheOK
<1>2. /\ CacheOK(cache', Block) /\ h \in Cached(cache')
      /\ h \in Cached(cache) => cache'.pins[h] = cache.pins[h] + 1
      /\ h \notin Cached(cache) => cache'.pins[h] = 1
      /\ \A b \in Cached(cache) : b # h =>
           b \in Cached(cache') /\ cache'.pins[b] = cache.pins[b]
  <2>1. CASE h \in Cached(cache) /\ cache' = Pin(cache, h)
    BY <1>1, <2>1, PinOK
  <2>2. CASE h \in Block \ Cached(cache) /\ cache' = Publish(cache, h)
    BY <1>1, <2>2, PublishOK
  <2> QED
    BY <2>1, <2>2
<1>3. h \in Cached(cache') /\ Cardinality(Holders(h)') <= cache'.pins[h]
  <2> DEFINE G == Holders(h)
             H == Holders(h)'
  <2>1. /\ IsFiniteSet(G) /\ Cardinality(G) \in Nat /\ H \subseteq G \cup {x}
        /\ h \in Cached(cache) => Cardinality(G) <= cache.pins[h] /\ cache.pins[h] \in Nat
        /\ h \notin Cached(cache) => Cardinality(G) = 0
    BY <1>1, FS_EmptySet
  <2> DEFINE U == G \cup {x}
  <2> HIDE DEF G, H
  <2>2. /\ IsFiniteSet(U) /\ Cardinality(U) \in Nat /\ H \subseteq U
        /\ Cardinality(U) = IF x \in G THEN Cardinality(G) ELSE Cardinality(G) + 1
    BY <2>1, FS_AddElement, FS_CardinalityType
  <2> HIDE DEF U
  <2>3. Cardinality(H) <= Cardinality(U) /\ Cardinality(H) \in Nat
    BY <2>2, FS_Subset, FS_CardinalityType
  <2>4. CASE h \in Cached(cache)
    BY <1>2, <2>1, <2>2, <2>3, <2>4 DEF H
  <2>5. CASE h \notin Cached(cache)
    BY <1>2, <2>1, <2>2, <2>3, <2>5 DEF H
  <2> QED
    BY <2>4, <2>5
<1>4. ASSUME NEW b, b # h, Holders(b)' # {}
      PROVE  b \in Cached(cache') /\ Cardinality(Holders(b)') <= cache'.pins[b]
  <2> DEFINE G == Holders(b)
             H == Holders(b)'
  <2>1. /\ IsFiniteSet(G) /\ Cardinality(G) \in Nat /\ H \subseteq G /\ G # {}
        /\ b \in Cached(cache) /\ cache.pins[b] \in Nat /\ Cardinality(G) <= cache.pins[b]
    BY <1>1, <1>4
  <2> HIDE DEF G, H
  <2>2. Cardinality(H) <= Cardinality(G) /\ Cardinality(H) \in Nat
    BY <2>1, FS_Subset, FS_CardinalityType
  <2> QED
    BY <1>2, <1>4, <2>1, <2>2 DEF H
<1>5. ASSUME NEW b \in Held'
      PROVE  b \in Cached(cache') /\ Holds(b)' <= cache'.pins[b]
  <2>1. Holders(b)' # {}
    BY <1>5 DEF Held, Holders
  <2> QED
    BY <1>3, <1>4, <2>1 DEF Holds
<1> QED
  BY <1>2, <1>5 DEF PinsCoverHolders, Cached

\* x gives back block h, and its pin.
LEMMA OneLoses ==
  ASSUME IInv, NEW h, NEW x \in Holders(h),
         Holders(h)' \subseteq Holders(h) \ {x},
         \A b : b # h => Holders(b)' \subseteq Holders(b),
         cache' = Unpin(cache, h)
  PROVE  CacheOK(cache', Block) /\ PinsCoverHolders'
<1>1. /\ CacheOK(cache, Block)
      /\ \A b : /\ IsFiniteSet(Holders(b)) /\ Cardinality(Holders(b)) \in Nat
                /\ Holders(b) # {} =>
                     /\ b \in Cached(cache) /\ cache.pins[b] \in Nat
                     /\ Cardinality(Holders(b)) <= cache.pins[b] /\ cache.pins[b] > 0
  BY HoldersFacts
<1>2. h \in Cached(cache) /\ cache.pins[h] > 0
  BY <1>1
<1>3. /\ CacheOK(cache', Block) /\ Cached(cache') = Cached(cache)
      /\ \A b \in Cached(cache) :
           cache'.pins[b] = IF b = h THEN cache.pins[b] - 1 ELSE cache.pins[b]
  BY <1>1, <1>2, UnpinOK
<1>4. ASSUME NEW b, Holders(b)' # {}
      PROVE  b \in Cached(cache') /\ Cardinality(Holders(b)') <= cache'.pins[b]
  <2> DEFINE G == Holders(b)
             H == Holders(b)'
  <2>1. /\ IsFiniteSet(G) /\ Cardinality(G) \in Nat /\ H \subseteq G
        /\ b = h => H \subseteq G \ {x} /\ x \in G
    BY <1>1
  <2>2. b \in Cached(cache) /\ cache.pins[b] \in Nat /\ Cardinality(G) <= cache.pins[b]
    BY <1>1, <1>4, <2>1
  <2> HIDE DEF G, H
  <2>3. Cardinality(H) <= Cardinality(G) /\ Cardinality(H) \in Nat
    BY <2>1, FS_Subset, FS_CardinalityType
  <2>4. CASE b = h
    <3>1. IsFiniteSet(G \ {x}) /\ Cardinality(G \ {x}) = Cardinality(G) - 1
      BY <2>1, <2>4, FS_RemoveElement
    <3>2. Cardinality(H) <= Cardinality(G \ {x})
      BY <2>1, <2>4, <3>1, FS_Subset
    <3> QED
      BY <1>3, <2>1, <2>2, <2>3, <2>4, <3>1, <3>2 DEF H
  <2>5. CASE b # h
    BY <1>3, <2>1, <2>2, <2>3, <2>5 DEF H
  <2> QED
    BY <2>4, <2>5
<1>5. ASSUME NEW b \in Held'
      PROVE  b \in Cached(cache') /\ Holds(b)' <= cache'.pins[b]
  <2>1. Holders(b)' # {}
    BY <1>5 DEF Held, Holders
  <2> QED
    BY <1>4, <2>1 DEF Holds
<1> QED
  BY <1>3, <1>5 DEF PinsCoverHolders, Cached

-----------------------------------------------------------------------------
(* One lemma per action, or per group of actions that disturb the same     *)
(* conjuncts.                                                              *)

\* Nothing the invariant says of the cache and the requests is touched.
LEMMA QuietOK ==
  ASSUME IInv, UNCHANGED <<trace, reqs, cache, matched>>
  PROVE  /\ Requests' = Requests /\ PrefillBounded'
         /\ HeldOnce' /\ ColdBlocksListed' /\ PinsCoverHolders'
<1>1. Requests' = Requests /\ PrefillBounded'
  BY DEF IInv, PrefillBounded, Requests, PromptLen
<1>2. HeldOnce'
  BY DEF IInv, HeldOnce, Requests, Pinned, NumHashes, PromptLen, Hash
<1>3. ColdBlocksListed'
  BY DEF IInv, ColdBlocksListed
<1>4. PinsCoverHolders'
  BY DEF IInv, PinsCoverHolders, Held, Holds, Holders, Pinned
<1> QED
  BY <1>1, <1>2, <1>3, <1>4

\* The next one of the list of a loop.
LEMMA TodoFacts ==
  ASSUME IInv, todo # <<>>
  PROVE  Head(todo) \in Requests /\ Tail(todo) \in Seq(Requests)
<1>1. todo \in Seq(Requests)
  BY DEF IInv, TypeOK
<1> QED
  BY <1>1, TailDistinct

\* The actions that only move pc, the clock and the queues.
LEMMA QuietStep ==
  ASSUME IInv,
         \/ NextRound \/ Return \/ Arrive \/ NoneDue \/ IdleJump \/ Stuck
         \/ Refuse \/ NoCandidate \/ BeginStep \/ PlanDecode \/ BeginAlloc
         \/ AllocNone \/ SelfPreempted \/ BeginPrefill \/ Published \/ Elapse
         \/ BeginDecode \/ BeginFinish \/ Finish \/ EndStep \/ Skip \/ Over
  PROVE  IInv'
<1> USE DEF fixed, queues, step, call
<1>1. UNCHANGED <<trace, reqs, cache, matched>>
  BY Zenon DEF NextRound, Return, Arrive, NoneDue, IdleJump, Stuck, Refuse, NoCandidate,
         BeginStep, PlanDecode, BeginAlloc, AllocNone, SelfPreempted, BeginPrefill,
         Published, Elapse, BeginDecode, BeginFinish, Finish, EndStep, Skip, Over, vars
<1>2. /\ Requests' = Requests /\ PrefillBounded'
      /\ HeldOnce' /\ ColdBlocksListed' /\ PinsCoverHolders'
  BY <1>1, QuietOK
<1>3. TypeOK /\ LocalsOK
  BY DEF IInv
<1>4. SUFFICES TypeOK' /\ LocalsOK'
  BY <1>2, <1>4 DEF IInv
<1> USE DEF TypeOK, LocalsOK, Label, Candidate
<1>5. CASE NextRound
  BY <1>2, <1>3, <1>5 DEF NextRound
<1>6. CASE Return
  BY <1>2, <1>3, <1>6, Zenon DEF Return
<1>7. CASE Arrive
  BY <1>2, <1>3, <1>7, TailDistinct DEF Arrive, Due
<1>8. CASE NoneDue
  BY <1>2, <1>3, <1>8 DEF NoneDue
<1>9. CASE IdleJump
  BY <1>2, <1>3, <1>9, TailDistinct, TraceFacts DEF IdleJump, Larger
<1>10. CASE Stuck
  BY <1>2, <1>3, <1>10 DEF Stuck
<1>11. CASE Refuse
  BY <1>2, <1>3, <1>11, Zenon DEF Refuse
<1>12. CASE NoCandidate
  BY <1>2, <1>3, <1>12, Zenon DEF NoCandidate
<1>13. CASE BeginStep
  BY <1>2, <1>3, <1>13, CfgAssumption DEF BeginStep
<1>14. CASE PlanDecode
  BY <1>2, <1>3, <1>14, TodoFacts DEF PlanDecode
<1>15. CASE BeginAlloc
  BY <1>2, <1>3, <1>15 DEF BeginAlloc
<1>16. CASE AllocNone
  BY <1>2, <1>3, <1>16, TodoFacts DEF AllocNone
<1>17. CASE SelfPreempted
  BY <1>2, <1>3, <1>17, TodoFacts DEF SelfPreempted
<1>18. CASE BeginPrefill
  BY <1>2, <1>3, <1>18 DEF BeginPrefill
<1>19. CASE Published
  BY <1>2, <1>3, <1>19, TodoFacts DEF Published
<1>20. CASE Elapse
  <2>1. /\ pc = "prefill" /\ pc' = "first" /\ todo' = running /\ budget' = 0
        /\ UNCHANGED <<trace, pending, waiting, running, reqs, cache, batch, ret,
                       matched, victim>>
    BY <1>20 DEF Elapse
  <2>2. now' \in Nat
    <3>1. now \in Nat /\ \A r \in Range(pending) : r \in Requests
      BY <1>3, RangeIs, Zenon
    <3>2. \A r \in Requests : Arrival(r) \in Nat
      BY <1>3, TraceFacts, Zenon
    <3> QED
      BY <1>20, <3>1, <3>2 DEF Elapse
  <2>3. TypeOK'
    BY <1>2, <1>3, <2>1, <2>2
  <2>4. LocalsOK'
    BY <1>3, <2>1
  <2> QED
    BY <2>3, <2>4, Zenon
<1>21. CASE BeginDecode
  BY <1>2, <1>3, <1>21 DEF BeginDecode
<1>22. CASE BeginFinish
  BY <1>2, <1>3, <1>22 DEF BeginFinish
<1>23. CASE Finish
  BY <1>2, <1>3, <1>23, TodoFacts, RemoveFirstProperties DEF Finish
<1>24. CASE EndStep
  BY <1>2, <1>3, <1>24 DEF EndStep
<1>25. CASE Skip
  BY <1>2, <1>3, <1>25, TodoFacts, Zenon DEF Skip
<1>26. CASE Over
  BY <1>2, <1>3, <1>26, Zenon DEF Over, vars
<1> QED
  BY Zenon, <1>5, <1>6, <1>7, <1>8, <1>9, <1>10, <1>11, <1>12, <1>13, <1>14, <1>15, <1>16,
     <1>17, <1>18, <1>19, <1>20, <1>21, <1>22, <1>23, <1>24, <1>25, <1>26

\* The actions that pin and unpin nothing: at most they evict, and count
\* inserted blocks of a request up, or anew once it holds none.
LEMMA PinnedSame ==
  ASSUME IInv, UNCHANGED <<trace, matched>>,
         reqs' \in [Requests -> ReqFields],
         \A r \in Requests :
           /\ reqs'[r].pinned = reqs[r].pinned
           /\ reqs'[r].inserted >= reqs[r].inserted \/ reqs[r].pinned = <<>>,
         cache' = cache \/ \E n : cache' = Reclaimed(n)
  PROVE  /\ Requests' = Requests /\ CacheOK(cache', Block)
         /\ HeldOnce' /\ ColdBlocksListed' /\ PinsCoverHolders'
<1>1. Requests' = Requests /\ 0..Len(trace') = 0..Len(trace)
  BY DEF Requests
<1>2. Requests = 1..Len(trace) /\ TypeOK
  BY TraceFacts DEF IInv
<1>3. \A r \in 0..Len(trace) : Pinned(r)' = Pinned(r)
  BY <1>2 DEF Pinned
<1>4. \A h : Holders(h)' = Holders(h)
  BY <1>1, <1>3 DEF Holders
<1>5. CacheOK(cache', Block) /\ PinsCoverHolders'
  BY <1>4, HoldersFacts, NobodyGains
<1>6. ASSUME NEW r \in Requests, NEW i \in 1..NumHashes(r),
             Hash(r, i) \in Range(reqs'[r].pinned)
      PROVE  i <= reqs'[r].inserted
  <2>1. Hash(r, i) \in Range(reqs[r].pinned) /\ reqs[r].pinned # <<>>
    BY <1>6 DEF Range
  <2>2. i <= reqs[r].inserted /\ reqs'[r].inserted >= reqs[r].inserted
    BY <2>1 DEF IInv, HeldOnce
  <2>3. reqs[r] \in ReqFields /\ reqs'[r] \in ReqFields
    BY <1>2 DEF TypeOK
  <2>4. reqs[r].inserted \in Nat /\ reqs'[r].inserted \in Nat
    BY <2>3 DEF ReqFields
  <2>5. i \in Nat
    BY <1>2, TraceFacts
  <2> QED
    BY <2>2, <2>4, <2>5
<1>7. HeldOnce'
  BY <1>1, <1>3, <1>6 DEF IInv, HeldOnce, NumHashes, PromptLen, Hash
<1> QED
  BY <1>1, <1>5, <1>7 DEF CacheOK, ColdBlocksListed

\* The types of a request's fields.
LEMMA ReqFacts ==
  ASSUME TypeOK, NEW r \in Requests
  PROVE  /\ reqs[r] \in ReqFields
         /\ reqs[r].prefilled \in Nat /\ reqs[r].generated \in Nat
         /\ reqs[r].cached \in Nat /\ reqs[r].alloc \in Nat
         /\ reqs[r].inserted \in Nat /\ reqs[r].genInserted \in Nat
         /\ reqs[r].pinned \in Seq(Block)
         /\ reqs[r].ttft \in BOOLEAN /\ reqs[r].finish \in BOOLEAN
         /\ Returned(reqs[r].alloc) \in Nat
<1>1. reqs[r] \in ReqFields
  BY DEF TypeOK
<1> QED
  BY <1>1 DEF ReqFields, Returned, Larger

\* reclaim() and what is decided by it.
LEMMA ReclaimStep ==
  ASSUME IInv, AdmitFails \/ Preempt \/ Stall
  PROVE  IInv'
<1> USE DEF fixed, queues, step, call
<1>1. UNCHANGED <<trace, now, pending, waiting, running, reqs, matched, batch, budget, ret>>
      /\ \E n : cache' = Reclaimed(n)
  BY DEF AdmitFails, Preempt, Stall
<1>2. TypeOK /\ LocalsOK /\ PrefillBounded
  BY DEF IInv
<1>3. reqs' \in [Requests -> ReqFields]
  BY <1>1, <1>2 DEF TypeOK
<1>4. \A r \in Requests : /\ reqs'[r].pinned = reqs[r].pinned
                          /\ reqs'[r].inserted >= reqs[r].inserted
  BY <1>1, <1>2, ReqFacts
<1>5. /\ Requests' = Requests /\ CacheOK(cache', Block)
      /\ HeldOnce' /\ ColdBlocksListed' /\ PinsCoverHolders'
  BY <1>1, <1>3, <1>4, PinnedSame
<1>6. PrefillBounded'
  BY <1>1, <1>2, <1>5 DEF PrefillBounded, PromptLen
<1>7. /\ Cached(cache)' \subseteq Block /\ cache'.pins \in [Cached(cache)' -> Nat]
      /\ cache'.lru \in Seq(Block)
  BY <1>5 DEF CacheOK, Cached
<1>8. TypeOK' /\ LocalsOK'
  <2>1. CASE AdmitFails
    BY <1>1, <1>2, <1>5, <1>7, <2>1 DEF AdmitFails, TypeOK, LocalsOK, Label
  <2>2. CASE Stall
    BY <1>1, <1>2, <1>5, <1>7, <2>2, TodoFacts DEF Stall, TypeOK, LocalsOK, Label
  <2>3. CASE Preempt
    <3>1. victim' \in Requests \cup {0} /\ (running # <<>> => victim' \in Requests)
      <4>1. running \in Seq(Requests) /\ \A i \in DOMAIN running : running[i] \in Requests
        BY <1>2, ElementOfSeq DEF TypeOK
      <4> QED
        BY <2>3, <4>1 DEF Preempt
    <3> QED
      BY <1>1, <1>2, <1>5, <1>7, <2>3, <3>1 DEF Preempt, TypeOK, LocalsOK, Label
  <2> QED
    BY <2>1, <2>2, <2>3
<1> QED
  BY <1>5, <1>6, <1>8 DEF IInv

\* One request's record is replaced.
LEMMA ReqUpdated ==
  ASSUME TypeOK, NEW x \in Requests, NEW f \in ReqFields,
         reqs' = [reqs EXCEPT ![x] = f]
  PROVE  /\ reqs' \in [Requests -> ReqFields] /\ reqs'[x] = f
         /\ \A r \in Requests \ {x} : reqs'[r] = reqs[r]
<1>1. reqs \in [Requests -> ReqFields]
  BY DEF TypeOK
<1> QED
  BY <1>1

\* One request's fields change, other than pinned.
LEMMA OneReqOK ==
  ASSUME IInv, UNCHANGED <<trace, matched>>, NEW x \in Requests,
         reqs' \in [Requests -> ReqFields],
         \A r \in Requests \ {x} : reqs'[r] = reqs[r],
         reqs'[x].pinned = reqs[x].pinned,
         reqs'[x].inserted >= reqs[x].inserted \/ reqs[x].pinned = <<>>,
         reqs'[x].prefilled <= PromptLen(x),
         cache' = cache \/ \E n : cache' = Reclaimed(n)
  PROVE  /\ Requests' = Requests
         /\ Cached(cache)' \subseteq Block /\ cache'.pins \in [Cached(cache)' -> Nat]
         /\ cache'.lru \in Seq(Block)
         /\ PrefillBounded' /\ HeldOnce' /\ ColdBlocksListed' /\ PinsCoverHolders'
<1>1. ASSUME NEW r \in Requests
      PROVE  /\ reqs'[r].pinned = reqs[r].pinned
             /\ reqs'[r].inserted >= reqs[r].inserted \/ reqs[r].pinned = <<>>
  <2>1. reqs[r].inserted \in Nat
    BY ReqFacts DEF IInv
  <2> QED
    BY <2>1
<1>2. /\ Requests' = Requests /\ CacheOK(cache', Block)
      /\ HeldOnce' /\ ColdBlocksListed' /\ PinsCoverHolders'
  BY <1>1, PinnedSame
<1>3. PrefillBounded'
  BY <1>2 DEF IInv, PrefillBounded, PromptLen
<1> QED
  BY <1>2, <1>3 DEF CacheOK, Cached

\* The actions that change one request's fields, other than pinned.
LEMMA FieldStep ==
  ASSUME IInv,
         \/ Alloc \/ Requeue \/ PrefillChunk \/ PublishDisabled
         \/ FirstToken \/ DecodeToken \/ Decoded \/ Retired
  PROVE  IInv'
<1> USE DEF fixed, queues, step, call
<1>1. /\ UNCHANGED <<trace, now, pending, matched>>
      /\ cache' = cache \/ \E n : cache' = Reclaimed(n)
  BY Zenon DEF Alloc, Requeue, PrefillChunk, PublishDisabled, FirstToken, DecodeToken,
         Decoded, Retired
<1>2. TypeOK /\ LocalsOK /\ PrefillBounded
  BY DEF IInv
<1>3. ASSUME NEW x \in Requests, NEW f \in ReqFields, reqs' = [reqs EXCEPT ![x] = f],
             f.pinned = reqs[x].pinned, f.prefilled <= PromptLen(x),
             f.inserted >= reqs[x].inserted \/ reqs[x].pinned = <<>>,
             running' \in Seq(Requests) /\ waiting' \in Seq(Requests)
             /\ todo' \in Seq(Requests) /\ batch' \in Seq(Requests) /\ budget' \in Nat
             /\ pc' \in Label \ {"admit"} /\ ret' \in {"idle", "loop", "first", "finish"}
             /\ victim' \in Requests \cup {0},
             pc \notin {"admit", "unmatch"},
             pc' \in {"preempt", "retire"} => victim' \in Requests,
             pc' \in {"preempt", "retry", "retire", "publish", "publish gen"} => todo' # <<>>
      PROVE  IInv'
  <2>1. /\ reqs' \in [Requests -> ReqFields] /\ reqs'[x] = f
        /\ \A r \in Requests \ {x} : reqs'[r] = reqs[r]
    BY <1>2, <1>3, ReqUpdated, Zenon
  <2>2. /\ Requests' = Requests
        /\ Cached(cache)' \subseteq Block /\ cache'.pins \in [Cached(cache)' -> Nat]
        /\ cache'.lru \in Seq(Block)
        /\ PrefillBounded' /\ HeldOnce' /\ ColdBlocksListed' /\ PinsCoverHolders'
    BY <1>1, <1>3, <2>1, OneReqOK, Zenon
  <2>3. TypeOK'
    BY <1>1, <1>2, <1>3, <2>1, <2>2, Zenon DEF TypeOK
  <2>4. LocalsOK'
    BY <1>1, <1>2, <1>3, <2>2, Zenon DEF LocalsOK
  <2> QED
    BY <2>2, <2>3, <2>4 DEF IInv
<1>4. ASSUME todo # <<>>
      PROVE  /\ Head(todo) \in Requests /\ Tail(todo) \in Seq(Requests)
             /\ Append(batch, Head(todo)) \in Seq(Requests)
  BY <1>2, <1>4, TodoFacts DEF TypeOK
<1>5. \A x \in Requests :
        /\ reqs[x] \in ReqFields /\ reqs[x].prefilled <= PromptLen(x)
        /\ PromptLen(x) \in Nat /\ OutputLen(x) \in Nat
        /\ reqs[x].prefilled \in Nat /\ reqs[x].generated \in Nat
        /\ reqs[x].inserted \in Nat /\ reqs[x].alloc \in Nat
  BY <1>2, ReqFacts, TraceFacts DEF PrefillBounded
<1>6. CASE Alloc
  <2> DEFINE x == Head(todo)
             m == reqs[x].alloc + 1
             f == [reqs[x] EXCEPT !.alloc = m]
  <2>1. todo # <<>> /\ x \in Requests /\ reqs' = [reqs EXCEPT ![x] = f] /\ m \in Nat
    BY <1>4, <1>5, <1>6, SMTT(30) DEF Alloc
  <2> HIDE DEF m
  <2>2. /\ f \in ReqFields /\ f.pinned = reqs[x].pinned
        /\ f.prefilled = reqs[x].prefilled /\ f.inserted = reqs[x].inserted
    BY <1>5, <2>1 DEF ReqFields
  <2>3. f.prefilled <= PromptLen(x) /\ f.inserted >= reqs[x].inserted
    BY <1>5, <2>1, <2>2
  <2> HIDE DEF x, f
  <2> QED
    BY <1>2, <1>3, <1>4, <1>6, <2>1, <2>2, <2>3, Zenon DEF Alloc, TypeOK, Label, x
<1>7. CASE Requeue
  <2> DEFINE f == [reqs[victim] EXCEPT !.alloc = 0, !.prefilled = 0, !.generated = 0,
                                       !.cached = 0, !.inserted = 0, !.genInserted = 0]
  <2>1. victim \in Requests /\ reqs' = [reqs EXCEPT ![victim] = f]
    BY <1>2, <1>7 DEF Requeue, LocalsOK
  <2>2. /\ f \in ReqFields /\ f.pinned = reqs[victim].pinned
        /\ f.prefilled = 0 /\ reqs[victim].pinned = <<>>
    BY <1>5, <1>7, <2>1, ZenonT(30) DEF Requeue, ReqFields
  <2>3. f.prefilled <= PromptLen(victim)
    BY <1>5, <2>1, <2>2
  <2> HIDE DEF f
  <2>4. running' \in Seq(Requests) /\ waiting' \in Seq(Requests)
    BY <1>2, <1>7, <2>1, RemoveFirstProperties DEF Requeue, TypeOK
  <2> QED
    BY <1>2, <1>3, <1>7, <2>1, <2>2, <2>3, <2>4 DEF Requeue, TypeOK, LocalsOK, Label
<1>8. CASE PrefillChunk
  <2> DEFINE x == Head(todo)
             chunk == Smaller(budget, PromptLen(x) - reqs[x].prefilled)
             m == reqs[x].prefilled + chunk
             f == [reqs[x] EXCEPT !.prefilled = m]
  <2>1. todo # <<>> /\ x \in Requests /\ reqs' = [reqs EXCEPT ![x] = f]
        /\ budget' = budget - chunk
    BY <1>4, <1>8 DEF PrefillChunk, PrefillTurn
  <2>2. m \in Nat /\ m <= PromptLen(x) /\ budget' \in Nat
    <3>1. /\ reqs[x].prefilled \in Nat /\ PromptLen(x) \in Nat /\ budget \in Nat
          /\ budget > 0 /\ reqs[x].prefilled <= PromptLen(x)
      BY <1>2, <1>5, <1>8, <2>1 DEF PrefillChunk, PrefillTurn, TypeOK
    <3>2. chunk \in Nat /\ chunk <= budget /\ chunk <= PromptLen(x) - reqs[x].prefilled
      BY <3>1 DEF Smaller
    <3> HIDE DEF x, chunk
    <3> QED
      BY <2>1, <3>1, <3>2
  <2> HIDE DEF m
  <2>3. /\ f \in ReqFields /\ f.pinned = reqs[x].pinned
        /\ f.prefilled = m /\ f.inserted = reqs[x].inserted
    BY <1>5, <2>1, <2>2 DEF ReqFields
  <2>4. f.prefilled <= PromptLen(x) /\ f.inserted >= reqs[x].inserted
    BY <1>5, <2>1, <2>2, <2>3
  <2> HIDE DEF x, f
  <2> QED
    BY <1>2, <1>3, <1>8, <2>1, <2>2, <2>3, <2>4 DEF PrefillChunk, PrefillTurn, TypeOK, Label
<1>9. CASE PublishDisabled
  <2> DEFINE x == Head(todo)
             m == reqs[x].inserted + 1
             f == [reqs[x] EXCEPT !.inserted = m]
  <2>1. todo # <<>> /\ x \in Requests /\ reqs' = [reqs EXCEPT ![x] = f]
        /\ m \in Nat /\ m >= reqs[x].inserted
    BY <1>2, <1>4, <1>5, <1>9 DEF PublishDisabled, LocalsOK
  <2> HIDE DEF m
  <2>2. /\ f \in ReqFields /\ f.pinned = reqs[x].pinned
        /\ f.prefilled = reqs[x].prefilled /\ f.inserted = m
    BY <1>5, <2>1 DEF ReqFields
  <2>3. f.prefilled <= PromptLen(x) /\ f.inserted >= reqs[x].inserted
    BY <1>5, <2>1, <2>2
  <2> HIDE DEF x, f
  <2> QED
    BY <1>2, <1>3, <1>9, <2>1, <2>2, <2>3 DEF PublishDisabled, TypeOK, Label
<1>10. CASE FirstToken
  <2> DEFINE x == Head(todo)
             m == reqs[x].finish \/ OutputLen(x) <= 1
             f == [reqs[x] EXCEPT !.ttft = TRUE, !.generated = 1, !.finish = m]
  <2>1. todo # <<>> /\ x \in Requests /\ reqs' = [reqs EXCEPT ![x] = f]
    BY <1>4, <1>10 DEF FirstToken
  <2>2. m \in BOOLEAN
    OBVIOUS
  <2> HIDE DEF m
  <2>3. /\ f \in ReqFields /\ f.pinned = reqs[x].pinned
        /\ f.prefilled = reqs[x].prefilled /\ f.inserted = reqs[x].inserted
    BY <1>5, <2>1, <2>2 DEF ReqFields
  <2>4. f.prefilled <= PromptLen(x) /\ f.inserted >= reqs[x].inserted
    BY <1>5, <2>1, <2>3
  <2>5. running' \in Seq(Requests)
    BY <1>2, <1>10, RemoveFirstProperties DEF FirstToken, TypeOK
  <2> HIDE DEF f
  <2>6. CASE OutputLen(x) <= 1
    <3>1. todo' = todo /\ pc' = "retire" /\ victim' = x /\ ret' = "first"
      BY <1>10, <2>6 DEF FirstToken
    <3> HIDE DEF x
    <3> QED
      BY <1>2, <1>3, <1>10, <2>1, <2>3, <2>4, <2>5, <3>1 DEF FirstToken, TypeOK, Label
  <2>7. CASE ~(OutputLen(x) <= 1)
    <3>1. todo' = Tail(todo) /\ pc' = "first" /\ victim' = victim /\ ret' = ret
      BY <1>10, <2>7 DEF FirstToken
    <3> HIDE DEF x
    <3> QED
      BY <1>2, <1>3, <1>4, <1>10, <2>1, <2>3, <2>4, <2>5, <3>1 DEF FirstToken, TypeOK, Label
  <2> QED
    BY <2>6, <2>7
<1>11. CASE DecodeToken
  <2> DEFINE x == Head(todo)
             k == reqs[x].generated + 1
             b == reqs[x].ttft \/ reqs[x].generated = 0
             m == IF PrefixCaching THEN Larger(reqs[x].genInserted, NumHashes(x))
                  ELSE reqs[x].genInserted
             f == [reqs[x] EXCEPT !.ttft = b, !.generated = k, !.genInserted = m]
  <2>1. todo # <<>> /\ x \in Requests /\ reqs' = [reqs EXCEPT ![x] = f]
    BY <1>4, <1>11, Zenon DEF DecodeToken
  <2>2. k \in Nat /\ b \in BOOLEAN /\ m \in Nat
    BY <1>2, <1>5, <2>1, ReqFacts, TraceFacts DEF Larger
  <2> HIDE DEF k, b, m
  <2>3. /\ f \in ReqFields /\ f.pinned = reqs[x].pinned
        /\ f.prefilled = reqs[x].prefilled /\ f.inserted = reqs[x].inserted
    BY <1>5, <2>1, <2>2 DEF ReqFields
  <2>4. f.prefilled <= PromptLen(x) /\ f.inserted >= reqs[x].inserted
    BY <1>5, <2>1, <2>3
  <2> HIDE DEF x, f
  <2> QED
    BY <1>2, <1>3, <1>11, <2>1, <2>3, <2>4, Zenon DEF DecodeToken, TypeOK, Label
<1>12. CASE Decoded
  <2> DEFINE x == Head(todo)
             b == reqs[x].finish \/ Complete(x)
             m == IF PrefixCaching THEN TotalFull(x) ELSE reqs[x].genInserted
             f == [reqs[x] EXCEPT !.finish = b, !.genInserted = m]
  <2>1. todo # <<>> /\ x \in Requests /\ reqs' = [reqs EXCEPT ![x] = f]
    BY <1>2, <1>4, <1>12, Zenon DEF Decoded, LocalsOK
  <2>2. b \in BOOLEAN /\ m \in Nat
    <3>1. TotalFull(x) \in Nat
      BY <1>5, <2>1, BlockArithmetic DEF TotalFull
    <3> QED
      BY <1>2, <2>1, <3>1, ReqFacts
  <2> HIDE DEF b, m
  <2>3. /\ f \in ReqFields /\ f.pinned = reqs[x].pinned
        /\ f.prefilled = reqs[x].prefilled /\ f.inserted = reqs[x].inserted
    BY <1>5, <2>1, <2>2 DEF ReqFields
  <2>4. f.prefilled <= PromptLen(x) /\ f.inserted >= reqs[x].inserted
    BY <1>5, <2>1, <2>3
  <2> HIDE DEF x, f
  <2> QED
    BY <1>2, <1>3, <1>4, <1>12, <2>1, <2>3, <2>4, Zenon DEF Decoded, TypeOK, Label
<1>13. CASE Retired
  <2> DEFINE f == [reqs[victim] EXCEPT !.alloc = 0]
  <2>1. todo # <<>> /\ victim \in Requests /\ reqs' = [reqs EXCEPT ![victim] = f]
    BY <1>2, <1>13 DEF Retired, LocalsOK
  <2>2. /\ f \in ReqFields /\ f.pinned = reqs[victim].pinned
        /\ f.prefilled = reqs[victim].prefilled /\ f.inserted = reqs[victim].inserted
    BY <1>5, <2>1 DEF ReqFields
  <2>3. f.prefilled <= PromptLen(victim) /\ f.inserted >= reqs[victim].inserted
    BY <1>5, <2>1, <2>2
  <2> HIDE DEF f
  <2> QED
    BY <1>2, <1>3, <1>4, <1>13, <2>1, <2>2, <2>3, Zenon DEF Retired, TypeOK, Label
<1> QED
  BY <1>6, <1>7, <1>8, <1>9, <1>10, <1>11, <1>12, <1>13, SMTT(30)

\* What x gets or gives back changes the holders of that block only.
LEMMA HoldersChange ==
  ASSUME UNCHANGED trace, NEW x \in 0..Len(trace), NEW h,
         \A y \in 0..Len(trace) \ {x} : Pinned(y)' = Pinned(y)
  PROVE  /\ Range(Pinned(x)') \subseteq Range(Pinned(x)) \cup {h} =>
              /\ Holders(h)' \subseteq Holders(h) \cup {x}
              /\ \A b : b # h => Holders(b)' \subseteq Holders(b)
         /\ Range(Pinned(x)') \subseteq Range(Pinned(x)) \ {h} =>
              /\ Holders(h)' \subseteq Holders(h) \ {x}
              /\ \A b : b # h => Holders(b)' \subseteq Holders(b)
<1>1. \A b : \A y \in 0..Len(trace) :
        y \in Holders(b)' => b \in Range(Pinned(y)') /\ (y # x => y \in Holders(b))
  BY DEF Holders
<1>2. \A b : b \in Range(Pinned(x)) => x \in Holders(b)
  BY DEF Holders
<1>3. \A b : Holders(b)' \subseteq 0..Len(trace)
  BY DEF Holders
<1> QED
  BY <1>1, <1>2, <1>3

\* match_and_pin pins the next block of the prompt.
LEMMA AdmitMatchStep ==
  ASSUME IInv, AdmitMatch
  PROVE  IInv'
<1> USE DEF fixed, queues, step, call
<1> DEFINE r == Head(waiting)
           n == Len(matched)
<1> PICK h : h = Hash(r, n + 1)
  OBVIOUS
<1>1. TypeOK /\ LocalsOK /\ HeldOnce /\ CacheOK(cache, Block)
  BY HoldersFacts DEF IInv
<1>2. /\ r \in Requests /\ n \in Nat /\ n + 1 \in 1..NumHashes(r) /\ NumHashes(r) \in Nat
      /\ h \in Cached(cache) /\ cache' = Pin(cache, h) /\ matched' = Append(matched, h)
  <2>1. waiting \in Seq(Requests) /\ waiting # <<>> /\ matched \in Seq(Block)
    BY <1>1 DEF AdmitMatch, Candidate, TypeOK
  <2>2. r \in Requests /\ n \in Nat
    BY <2>1, TailDistinct, LenProperties
  <2>3. NumHashes(r) \in Nat
    BY <1>1, <2>2, TraceFacts
  <2> QED
    BY <2>2, <2>3 DEF AdmitMatch, MatchGoesOn
<1>3. \A i \in 1..n : matched[i] = Hash(r, i)
  BY <1>1, <1>2, EmptySeq DEF LocalsOK, AdmitMatch, TypeOK
<1>4. h \in Block /\ h \notin Range(matched)
  <2>1. \A i \in 1..n : i \in 1..NumHashes(r) /\ i # n + 1
    BY <1>2
  <2>2. \A i \in 1..n : matched[i] # h
    BY <1>1, <1>2, <1>3, <2>1, HashFacts
  <2> QED
    <3>1. h \in Block
      BY <1>1, <1>2, HashFacts
    <3>2. matched \in Seq(Block)
      BY <1>1 DEF TypeOK
    <3> QED
      BY <2>2, <3>1, <3>2, RangeIs
<1>5. /\ matched' \in Seq(Block) /\ Len(matched') = n + 1
      /\ \A i \in 1..(n + 1) : matched'[i] = Hash(r, i)
      /\ Range(matched') = Range(matched) \cup {h}
      /\ IsInjective(matched')
  <2>1. matched \in Seq(Block) /\ IsInjective(matched)
    <3>1. 0 \in 0..Len(trace)
      BY <1>1, TraceFacts
    <3>2. IsInjective(Pinned(0))
      BY <1>1, <3>1 DEF HeldOnce
    <3> QED
      BY <1>1, <3>2 DEF TypeOK, Pinned
  <2>2. /\ matched' \in Seq(Block) /\ Len(matched') = n + 1 /\ matched'[n + 1] = h
        /\ \A i \in 1..n : matched'[i] = matched[i]
    BY <1>2, <1>4, <2>1, AppendProperties
  <2>3. \A i \in 1..(n + 1) : i \in 1..n \/ i = n + 1
    BY <1>2
  <2>4. \A i \in 1..(n + 1) : matched'[i] = Hash(r, i)
    BY <1>3, <2>2, <2>3
  <2>5. Range(matched') = Range(matched) \cup {h} /\ IsInjective(matched')
    BY <1>2, <1>4, <2>1, AppendDistinct
  <2> QED
    BY <2>2, <2>4, <2>5
<1>6. CacheOK(cache', Block) /\ PinsCoverHolders'
  <2>1. UNCHANGED <<trace, reqs>> /\ 0 \in 0..Len(trace)
    BY <1>1, TraceFacts DEF AdmitMatch
  <2>2. /\ Range(Pinned(0)') \subseteq Range(Pinned(0)) \cup {h}
        /\ \A y \in 0..Len(trace) \ {0} : Pinned(y)' = Pinned(y)
    BY <1>5, <2>1 DEF Pinned
  <2>3. /\ Holders(h)' \subseteq Holders(h) \cup {0}
        /\ \A b : b # h => Holders(b)' \subseteq Holders(b)
    BY <2>1, <2>2, HoldersChange
  <2> QED
    BY <1>2, <2>3, OneGains
<1>7. UNCHANGED <<trace, now, queues, reqs, pc, step, ret, victim>> /\ Requests' = Requests
  BY DEF AdmitMatch, Requests
<1>8. HeldOnce'
  BY <1>1, <1>5, <1>7 DEF HeldOnce, Pinned, NumHashes, PromptLen, Hash
<1>9. TypeOK'
  BY <1>1, <1>5, <1>6, <1>7 DEF TypeOK, CacheOK, Cached
<1>10. LocalsOK'
  <2>1. pc' = "admit" /\ Candidate'
    BY <1>7 DEF AdmitMatch, Candidate
  <2>2. \A i : Hash(Head(waiting), i)' = Hash(r, i)
    BY <1>7 DEF Hash
  <2>3. NumHashes(Head(waiting))' = NumHashes(r)
    BY <1>7 DEF NumHashes, PromptLen
  <2>4. Len(matched') <= NumHashes(Head(waiting))'
    BY <1>2, <1>5, <2>3
  <2>5. \A i \in 1..Len(matched') : matched'[i] = Hash(Head(waiting), i)'
    BY <1>5, <2>2
  <2> QED
    BY <2>1, <2>4, <2>5 DEF LocalsOK
<1>11. PrefillBounded'
  BY <1>7 DEF IInv, PrefillBounded, PromptLen
<1> QED
  BY <1>6, <1>8, <1>9, <1>10, <1>11 DEF IInv, ColdBlocksListed, CacheOK

\* try_admit gives back the first block of a match it could not use.
LEMMA UnmatchStep ==
  ASSUME IInv, Unmatch
  PROVE  IInv'
<1> USE DEF fixed, queues, step, call
<1>1. TypeOK /\ LocalsOK /\ HeldOnce /\ PrefillBounded
  BY DEF IInv
<1>2. UNCHANGED <<trace, now, queues, reqs, pc, step, ret, victim>> /\ Requests' = Requests
      /\ pc = "unmatch" /\ 0 \in 0..Len(trace)
  BY <1>1, TraceFacts DEF Unmatch, Requests
<1> PICK h : h = Head(matched)
  OBVIOUS
<1>3. /\ matched' \in Seq(Block) /\ h \in Range(matched) /\ IsInjective(matched')
      /\ Range(matched') = Range(matched) \ {h}
  <2>1. matched \in Seq(Block) /\ matched # <<>> /\ matched' = Tail(matched)
    BY <1>1 DEF Unmatch, TypeOK
  <2>2. IsInjective(matched)
    BY <1>1, <1>2 DEF HeldOnce, Pinned
  <2> QED
    BY <2>1, <2>2, TailDistinct
<1>4. CacheOK(cache', Block) /\ PinsCoverHolders'
  <2>1. /\ Range(Pinned(0)') \subseteq Range(Pinned(0)) \ {h}
        /\ \A y \in 0..Len(trace) \ {0} : Pinned(y)' = Pinned(y)
    BY <1>2, <1>3 DEF Pinned
  <2>2. /\ Holders(h)' \subseteq Holders(h) \ {0}
        /\ \A b : b # h => Holders(b)' \subseteq Holders(b)
    BY <1>2, <2>1, HoldersChange
  <2>3. 0 \in Holders(h)
    BY <1>2, <1>3 DEF Holders, Pinned
  <2>4. cache' = Unpin(cache, h)
    BY DEF Unmatch
  <2> QED
    BY <2>2, <2>3, <2>4, OneLoses
<1>5. HeldOnce'
  BY <1>1, <1>2, <1>3 DEF HeldOnce, Pinned, NumHashes, PromptLen, Hash
<1>6. TypeOK'
  BY <1>1, <1>2, <1>3, <1>4 DEF TypeOK, CacheOK, Cached
<1>7. LocalsOK'
  BY <1>1, <1>2 DEF LocalsOK
<1>8. PrefillBounded'
  BY <1>1, <1>2 DEF PrefillBounded, PromptLen
<1> QED
  BY <1>4, <1>5, <1>6, <1>7, <1>8 DEF IInv, ColdBlocksListed, CacheOK

\* One request's list of pinned blocks changes.
LEMMA PinnedChange ==
  ASSUME IInv, UNCHANGED trace, NEW r \in Requests, NEW f \in ReqFields,
         reqs' = [reqs EXCEPT ![r] = f],
         IsInjective(f.pinned), IsInjective(matched'), f.prefilled <= PromptLen(r),
         \A i \in 1..NumHashes(r) : Hash(r, i) \in Range(f.pinned) => i <= f.inserted
  PROVE  /\ Requests' = Requests /\ reqs' \in [Requests -> ReqFields]
         /\ HeldOnce' /\ PrefillBounded'
         /\ r \in 0..Len(trace) /\ r # 0
         /\ Pinned(r) = reqs[r].pinned /\ Pinned(r)' = f.pinned
         /\ Pinned(0) = matched /\ Pinned(0)' = matched'
         /\ \A y \in 0..Len(trace) \ {0, r} : Pinned(y)' = Pinned(y)
<1>1. /\ Requests = 1..Len(trace) /\ Len(trace) \in Nat
      /\ Requests' = Requests /\ TypeOK /\ HeldOnce /\ PrefillBounded
  BY TraceFacts DEF IInv, Requests
<1>2. /\ reqs' \in [Requests -> ReqFields] /\ reqs'[r] = f
      /\ \A q \in Requests \ {r} : reqs'[q] = reqs[q]
  BY <1>1, ReqUpdated
<1>3. /\ r \in 0..Len(trace) /\ r # 0
      /\ Pinned(r) = reqs[r].pinned /\ Pinned(r)' = f.pinned
      /\ Pinned(0) = matched /\ Pinned(0)' = matched'
      /\ \A y \in 0..Len(trace) \ {0, r} : Pinned(y)' = Pinned(y)
  BY <1>1, <1>2 DEF Pinned
<1>4. \A y \in 0..Len(trace) : IsInjective(Pinned(y)')
  BY <1>1, <1>3 DEF HeldOnce
<1>5. ASSUME NEW q \in Requests, NEW i \in 1..NumHashes(q), Hash(q, i) \in Range(reqs'[q].pinned)
      PROVE  i <= reqs'[q].inserted
  <2>1. CASE q = r
    BY <1>2, <1>5, <2>1
  <2>2. CASE q # r
    BY <1>1, <1>2, <1>5, <2>2 DEF HeldOnce
  <2> QED
    BY <2>1, <2>2
<1>6. HeldOnce'
  BY <1>1, <1>4, <1>5 DEF HeldOnce, NumHashes, PromptLen, Hash
<1>7. \A q \in Requests : reqs'[q].prefilled <= PromptLen(q)
  BY <1>1, <1>2 DEF PrefillBounded
<1>8. PrefillBounded'
  BY <1>1, <1>7 DEF PrefillBounded, PromptLen
<1> QED
  BY <1>1, <1>2, <1>3, <1>6, <1>8

\* release() unpins the last block of the victim.
LEMMA ReleaseBlockStep ==
  ASSUME IInv, ReleaseBlock
  PROVE  IInv'
<1> USE DEF fixed, queues, step, call
<1>1. TypeOK /\ LocalsOK /\ HeldOnce /\ PrefillBounded
  BY DEF IInv
<1> PICK r : r = victim
  OBVIOUS
<1>2. UNCHANGED <<trace, now, queues, pc, step, call>>
      /\ pc \in {"preempt", "retire"} /\ r \in Requests
      /\ reqs[r].pinned \in Seq(Block) /\ reqs[r].pinned # <<>>
  BY <1>1, ReqFacts, Zenon DEF ReleaseBlock, LocalsOK
<1> DEFINE rest == Front(reqs[r].pinned)
           f    == [reqs[r] EXCEPT !.pinned = rest]
<1> PICK h : h = Last(reqs[r].pinned)
  OBVIOUS
<1>3. cache' = Unpin(cache, h) /\ reqs' = [reqs EXCEPT ![r] = f]
  BY DEF ReleaseBlock
<1>4. /\ rest \in Seq(Block) /\ h \in Range(reqs[r].pinned) /\ IsInjective(rest)
      /\ Range(rest) = Range(reqs[r].pinned) \ {h}
  <2>1. IsInjective(reqs[r].pinned)
    BY <1>1, <1>2, TraceFacts DEF HeldOnce, Pinned
  <2> QED
    BY <1>2, <2>1, FrontDistinct
<1> HIDE DEF rest
<1>5. /\ f \in ReqFields /\ f.pinned = rest
      /\ f.prefilled = reqs[r].prefilled /\ f.inserted = reqs[r].inserted
  BY <1>1, <1>2, <1>4, ReqFacts DEF ReqFields
<1> HIDE DEF f
<1>6. IsInjective(matched')
  BY <1>1, <1>2, TraceFacts DEF HeldOnce, Pinned
<1>7. /\ Requests' = Requests /\ reqs' \in [Requests -> ReqFields]
      /\ HeldOnce' /\ PrefillBounded'
      /\ r \in 0..Len(trace) /\ r # 0
      /\ Pinned(r) = reqs[r].pinned /\ Pinned(r)' = f.pinned
      /\ Pinned(0) = matched /\ Pinned(0)' = matched'
      /\ \A y \in 0..Len(trace) \ {0, r} : Pinned(y)' = Pinned(y)
  <2>1. f.prefilled <= PromptLen(r)
    BY <1>1, <1>2, <1>5 DEF PrefillBounded
  <2>2. \A i \in 1..NumHashes(r) : Hash(r, i) \in Range(f.pinned) => i <= f.inserted
    BY <1>1, <1>2, <1>4, <1>5 DEF HeldOnce
  <2> QED
    BY <1>2, <1>3, <1>4, <1>5, <1>6, <2>1, <2>2, PinnedChange
<1>8. CacheOK(cache', Block) /\ PinsCoverHolders'
  <2>1. /\ Range(Pinned(r)') \subseteq Range(Pinned(r)) \ {h}
        /\ \A y \in 0..Len(trace) \ {r} : Pinned(y)' = Pinned(y)
        /\ UNCHANGED trace /\ r \in 0..Len(trace)
    BY <1>2, <1>4, <1>5, <1>7
  <2>2. /\ Holders(h)' \subseteq Holders(h) \ {r}
        /\ \A b : b # h => Holders(b)' \subseteq Holders(b)
    BY <2>1, HoldersChange
  <2>3. r \in Holders(h)
    BY <1>4, <1>7 DEF Holders
  <2> QED
    BY <1>3, <2>2, <2>3, OneLoses
<1>9. TypeOK'
  BY <1>1, <1>2, <1>7, <1>8 DEF TypeOK, CacheOK, Cached
<1>10. LocalsOK'
  BY <1>1, <1>2, <1>7, Zenon DEF LocalsOK
<1> QED
  BY <1>7, <1>8, <1>9, <1>10 DEF IInv, ColdBlocksListed, CacheOK

\* A request gets one more pinned block, and nothing but its fields and the
\* cache changes.
LEMMA OnePins ==
  ASSUME IInv, UNCHANGED <<trace, now, queues, pc, step, call>>,
         pc \notin {"admit", "unmatch"},
         NEW r \in Requests, NEW h \in Block, h \notin Range(reqs[r].pinned),
         NEW f \in ReqFields, reqs' = [reqs EXCEPT ![r] = f],
         f.pinned = Append(reqs[r].pinned, h), f.prefilled <= PromptLen(r),
         f.inserted >= reqs[r].inserted,
         \A i \in 1..NumHashes(r) : Hash(r, i) = h => i <= f.inserted,
         \/ h \in Cached(cache) /\ cache' = Pin(cache, h)
         \/ h \notin Cached(cache) /\ cache' = Publish(cache, h)
  PROVE  IInv'
<1> USE DEF fixed, queues, step, call
<1>1. TypeOK /\ LocalsOK /\ HeldOnce /\ PrefillBounded
  BY DEF IInv
<1>2. /\ reqs[r].pinned \in Seq(Block) /\ reqs[r].inserted \in Nat
      /\ f.inserted \in Nat /\ NumHashes(r) \in Nat
  BY <1>1, ReqFacts, TraceFacts DEF ReqFields
<1>3. Range(f.pinned) = Range(reqs[r].pinned) \cup {h} /\ IsInjective(f.pinned)
  <2>1. IsInjective(reqs[r].pinned)
    BY <1>1, TraceFacts DEF HeldOnce, Pinned
  <2> QED
    BY <1>2, <2>1, AppendDistinct
<1>4. IsInjective(matched')
  BY <1>1, TraceFacts DEF HeldOnce, Pinned
<1>5. ASSUME NEW i \in 1..NumHashes(r), Hash(r, i) \in Range(f.pinned)
      PROVE  i <= f.inserted
  <2>1. CASE Hash(r, i) = h
    BY <2>1
  <2>2. CASE Hash(r, i) # h
    <3>1. i <= reqs[r].inserted
      BY <1>1, <1>3, <1>5, <2>2 DEF HeldOnce
    <3> QED
      BY <1>2, <3>1
  <2> QED
    BY <2>1, <2>2
<1>6. /\ Requests' = Requests /\ reqs' \in [Requests -> ReqFields]
      /\ HeldOnce' /\ PrefillBounded'
      /\ r \in 0..Len(trace) /\ r # 0
      /\ Pinned(r) = reqs[r].pinned /\ Pinned(r)' = f.pinned
      /\ Pinned(0) = matched /\ Pinned(0)' = matched'
      /\ \A y \in 0..Len(trace) \ {0, r} : Pinned(y)' = Pinned(y)
  BY <1>3, <1>4, <1>5, PinnedChange
<1>7. CacheOK(cache', Block) /\ PinsCoverHolders'
  <2>1. /\ Range(Pinned(r)') \subseteq Range(Pinned(r)) \cup {h}
        /\ \A y \in 0..Len(trace) \ {r} : Pinned(y)' = Pinned(y)
        /\ UNCHANGED trace /\ r \in 0..Len(trace)
    BY <1>3, <1>6
  <2>2. /\ Holders(h)' \subseteq Holders(h) \cup {r}
        /\ \A b : b # h => Holders(b)' \subseteq Holders(b)
    BY <2>1, HoldersChange
  <2> QED
    BY <2>2, OneGains
<1>8. TypeOK'
  BY <1>1, <1>6, <1>7, SMTT(30) DEF TypeOK, CacheOK, Cached
<1>9. LocalsOK'
  BY <1>1, <1>6, Zenon DEF LocalsOK
<1> QED
  BY <1>6, <1>7, <1>8, <1>9 DEF IInv, ColdBlocksListed, CacheOK

\* Streaming re-match: the prefill takes over a block that is cached.
LEMMA RematchStep ==
  ASSUME IInv, Rematch
  PROVE  IInv'
<1>1. TypeOK /\ LocalsOK /\ HeldOnce /\ PrefillBounded
  BY DEF IInv
<1> PICK r : r = Head(todo)
  OBVIOUS
<1>2. r \in Requests
  BY TodoFacts DEF Rematch, PrefillTurn
<1>3. /\ reqs[r] \in ReqFields /\ reqs[r].prefilled \in Nat /\ reqs[r].cached \in Nat
      /\ reqs[r].inserted \in Nat /\ Returned(reqs[r].alloc) \in Nat
      /\ reqs[r].pinned \in Seq(Block) /\ NumHashes(r) \in Nat /\ PromptLen(r) \in Nat
      /\ BlockSize \in Nat
  BY <1>1, <1>2, ReqFacts, TraceFacts, CfgAssumption
<1> PICK i : i = reqs[r].prefilled \div BlockSize + 1
  OBVIOUS
<1>4. i \in 1..NumHashes(r)
  <2> PICK n : n = reqs[r].prefilled
    OBVIOUS
  <2>0. n \in Nat
    BY <1>3
  <2>1. n \div BlockSize \in Nat
    BY <2>0, BlockArithmetic, SMTT(30)
  <2>2. i <= NumHashes(r)
    BY DEF Rematch, CanRematch
  <2> QED
    BY <1>3, <2>1, <2>2
<1> PICK h : h = Hash(r, i)
  OBVIOUS
<1>5. /\ h \in Block /\ h \in Cached(cache) /\ h \notin Range(reqs[r].pinned)
      /\ reqs[r].prefilled + BlockSize <= PromptLen(r) - 1
      /\ pc = "prefill" /\ cache' = Pin(cache, h)
  BY <1>1, <1>2, <1>4, HashFacts, ZenonT(30) DEF Rematch, CanRematch, PrefillTurn
<1> DEFINE pre == reqs[r].prefilled + BlockSize
           hit == reqs[r].cached + BlockSize
           own == Returned(reqs[r].alloc)
           ins == Larger(reqs[r].inserted, i)
           pin == Append(reqs[r].pinned, h)
           f   == [reqs[r] EXCEPT !.pinned = pin, !.prefilled = pre, !.cached = hit,
                                  !.alloc = own, !.inserted = ins]
<1>6. reqs' = [reqs EXCEPT ![r] = f]
  BY Zenon DEF Rematch
<1>7. /\ pre \in Nat /\ hit \in Nat /\ own \in Nat /\ ins \in Nat /\ pin \in Seq(Block)
      /\ pre <= PromptLen(r) /\ ins >= reqs[r].inserted /\ ins >= i
  <2>1. pin \in Seq(Block) /\ own \in Nat
    BY <1>3, <1>5, AppendProperties
  <2>2. ins \in Nat /\ ins >= reqs[r].inserted /\ ins >= i
    BY <1>3, <1>4 DEF Larger
  <2>3. pre \in Nat /\ hit \in Nat /\ pre <= PromptLen(r)
    <3>1. /\ reqs[r].prefilled \in Nat /\ reqs[r].cached \in Nat /\ BlockSize \in Nat
          /\ PromptLen(r) \in Nat /\ pre <= PromptLen(r) - 1
      BY <1>3, <1>5
    <3> QED
      BY <3>1
  <2> QED
    BY <2>1, <2>2, <2>3
<1> HIDE DEF pre, hit, own, ins, pin
<1>8. /\ f \in ReqFields /\ f.pinned = pin /\ f.prefilled = pre /\ f.inserted = ins
  BY <1>3, <1>7 DEF ReqFields
<1> HIDE DEF f
<1>9. \A j \in 1..NumHashes(r) : Hash(r, j) = h => j <= f.inserted
  BY <1>1, <1>2, <1>4, <1>7, <1>8, HashFacts
<1>10. UNCHANGED <<trace, now, queues, pc, step, call>>
  BY DEF Rematch, fixed
<1> QED
  BY <1>2, <1>5, <1>6, <1>7, <1>8, <1>9, <1>10, OnePins DEF pin

\* Rounding down to blocks is monotonic.
LEMMA BlocksMonotonic ==
  ASSUME NEW m \in Nat, NEW n \in Nat, m <= n
  PROVE  m \div BlockSize <= n \div BlockSize
<1> DEFINE b == BlockSize
<1>1. b \in Nat \ {0}
  BY CfgAssumption
<1> HIDE DEF b
<1>2. PICK p \in Nat, k \in 0..(b - 1) : m = b * p + k /\ p = m \div b
  BY <1>1
<1>3. PICK q \in Nat, l \in 0..(b - 1) : n = b * q + l /\ q = n \div b
  BY <1>1
<1>4. ASSUME p > q
      PROVE  FALSE
  <2>1. PICK d \in Nat \ {0} : p = q + d
    <3>1. p - q \in Nat \ {0} /\ p = q + (p - q)
      BY <1>4
    <3> QED
      BY <3>1
  <2>2. b * p = b * q + b * d /\ b * d >= b
    BY <1>1, <2>1
  <2> QED
    BY <1>1, <1>2, <1>3, <2>2
<1>5. p <= q
  BY <1>4
<1> QED
  BY <1>2, <1>3, <1>5 DEF b

\* The prefill publishes a block, or pins the one that is already there.
LEMMA PublishBlockStep ==
  ASSUME IInv, PublishBlock
  PROVE  IInv'
<1>1. TypeOK /\ LocalsOK /\ HeldOnce /\ PrefillBounded
  BY DEF IInv
<1> PICK r : r = Head(todo)
  OBVIOUS
<1>2. pc = "publish" /\ r \in Requests
  BY <1>1, TodoFacts DEF PublishBlock, LocalsOK
<1>3. /\ reqs[r] \in ReqFields /\ reqs[r].prefilled \in Nat /\ reqs[r].inserted \in Nat
      /\ Returned(reqs[r].alloc) \in Nat /\ reqs[r].pinned \in Seq(Block)
      /\ NumHashes(r) \in Nat /\ PromptLen(r) \in Nat /\ reqs[r].prefilled <= PromptLen(r)
  BY <1>1, <1>2, ReqFacts, TraceFacts DEF PrefillBounded
<1> PICK i : i = reqs[r].inserted + 1
  OBVIOUS
<1>4. i \in 1..NumHashes(r)
  <2>1. reqs[r].prefilled \div BlockSize <= NumHashes(r)
    BY <1>3, BlocksMonotonic DEF NumHashes
  <2>2. reqs[r].inserted < reqs[r].prefilled \div BlockSize
    BY DEF PublishBlock, ToPublish
  <2>3. reqs[r].prefilled \div BlockSize \in Nat
    BY <1>3, BlockArithmetic
  <2> QED
    BY <1>3, <2>1, <2>2, <2>3
<1> PICK h : h = Hash(r, i)
  OBVIOUS
<1>5. h \in Block /\ h \notin Range(reqs[r].pinned)
  <2>1. ~(i <= reqs[r].inserted)
    BY <1>3
  <2> QED
    BY <1>1, <1>2, <1>4, <2>1, HashFacts DEF HeldOnce
<1> DEFINE own == Returned(reqs[r].alloc)
           pin == Append(reqs[r].pinned, h)
           f   == [reqs[r] EXCEPT !.alloc = own, !.pinned = pin, !.inserted = i]
<1>6. /\ reqs' = [reqs EXCEPT ![r] = f]
      /\ cache' = IF h \in Cached(cache) THEN Pin(cache, h) ELSE Publish(cache, h)
  BY DEF PublishBlock
<1>7. own \in Nat /\ pin \in Seq(Block) /\ i \in Nat /\ i >= reqs[r].inserted
  BY <1>3, <1>5, AppendProperties
<1> HIDE DEF own, pin
<1>8. /\ f \in ReqFields /\ f.pinned = pin
      /\ f.prefilled = reqs[r].prefilled /\ f.inserted = i
  BY <1>3, <1>7 DEF ReqFields
<1> HIDE DEF f
<1>9. \A j \in 1..NumHashes(r) : Hash(r, j) = h => j <= f.inserted
  BY <1>1, <1>2, <1>4, <1>7, <1>8, HashFacts
<1>10. UNCHANGED <<trace, now, queues, pc, step, call>>
  BY DEF PublishBlock, fixed
<1> QED
  BY <1>2, <1>3, <1>5, <1>6, <1>7, <1>8, <1>9, <1>10, OnePins DEF pin

\* A decode step publishes a full block of generated tokens.
LEMMA PublishGenStep ==
  ASSUME IInv, PublishGen
  PROVE  IInv'
<1>1. TypeOK /\ LocalsOK /\ HeldOnce /\ PrefillBounded
  BY DEF IInv
<1> PICK r : r = Head(todo)
  OBVIOUS
<1>2. pc = "publish gen" /\ r \in Requests
  BY <1>1, TodoFacts, Zenon DEF PublishGen, LocalsOK
<1>3. /\ reqs[r] \in ReqFields /\ reqs[r].inserted \in Nat /\ reqs[r].genInserted \in Nat
      /\ Returned(reqs[r].alloc) \in Nat /\ reqs[r].pinned \in Seq(Block)
      /\ NumHashes(r) \in Nat /\ reqs[r].prefilled <= PromptLen(r)
  BY <1>1, <1>2, ReqFacts, TraceFacts, Zenon DEF PrefillBounded
<1> PICK h : h = GenHash(r, reqs[r].genInserted)
  OBVIOUS
<1>4. UNCHANGED <<trace, now, queues, pc, step, call>>
  BY Zenon DEF PublishGen, fixed
<1> PICK k : k = reqs[r].genInserted + 1
  OBVIOUS
<1>5. k \in Nat
  BY <1>3
<1>6. CASE h \in Cached(cache)
  <2> DEFINE f == [reqs[r] EXCEPT !.genInserted = k]
  <2>1. reqs' = [reqs EXCEPT ![r] = f] /\ cache' = cache
    BY <1>6, Zenon DEF PublishGen
  <2>2. /\ f \in ReqFields /\ f.pinned = reqs[r].pinned
        /\ f.prefilled = reqs[r].prefilled /\ f.inserted = reqs[r].inserted
    BY <1>3, <1>5 DEF ReqFields
  <2> HIDE DEF f
  <2>3. /\ reqs' \in [Requests -> ReqFields] /\ reqs'[r] = f
        /\ \A q \in Requests \ {r} : reqs'[q] = reqs[q]
    BY <1>1, <1>2, <2>1, <2>2, ReqUpdated, Zenon
  <2>4. UNCHANGED <<trace, matched>> /\ reqs'[r].inserted >= reqs[r].inserted
    BY <1>3, <1>4, <2>2, <2>3 DEF call
  <2>5. /\ Requests' = Requests
        /\ Cached(cache)' \subseteq Block /\ cache'.pins \in [Cached(cache)' -> Nat]
        /\ cache'.lru \in Seq(Block)
        /\ PrefillBounded' /\ HeldOnce' /\ ColdBlocksListed' /\ PinsCoverHolders'
    BY <1>2, <1>3, <2>1, <2>2, <2>3, <2>4, OneReqOK, Zenon
  <2>6. TypeOK'
    BY <1>1, <1>4, <2>3, <2>5 DEF TypeOK, queues, step, call
  <2>7. LocalsOK'
    BY <1>1, <1>2, <1>4, <2>5, Zenon DEF LocalsOK, queues, step, call
  <2> QED
    BY <2>5, <2>6, <2>7 DEF IInv
<1>7. CASE h \notin Cached(cache)
  <2>1. h \in Block /\ \A j \in 1..NumHashes(r) : Hash(r, j) # h
    <3>1. /\ \A g \in Nat : GenHash(r, g) \in Block
          /\ \A g, j \in Nat : GenHash(r, g) # Hash(r, j)
      BY <1>1, <1>2, HashFacts, Zenon
    <3>2. \A j \in 1..NumHashes(r) : j \in Nat
      BY <1>3
    <3> QED
      BY <1>3, <3>1, <3>2
  <2>2. h \notin Range(reqs[r].pinned)
    <3>1. Holders(h) = {}
      BY <1>7, HoldersFacts
    <3>2. Requests = 1..Len(trace) /\ Len(trace) \in Nat
      BY <1>1, TraceFacts
    <3>3. r \in 1..Len(trace)
      BY <1>2, <3>2, Zenon
    <3>4. r \in 0..Len(trace) /\ r # 0
      BY <3>2, <3>3
    <3> QED
      BY <3>1, <3>4 DEF Holders, Pinned
  <2> DEFINE own == Returned(reqs[r].alloc)
             pin == Append(reqs[r].pinned, h)
             f   == [reqs[r] EXCEPT !.alloc = own, !.pinned = pin, !.genInserted = k]
  <2>3. reqs' = [reqs EXCEPT ![r] = f] /\ cache' = Publish(cache, h)
    BY <1>7, Zenon DEF PublishGen
  <2>4. own \in Nat /\ pin \in Seq(Block)
    BY <1>3, <2>1, AppendProperties
  <2> HIDE DEF own, pin
  <2>5. /\ f \in ReqFields /\ f.pinned = pin
        /\ f.prefilled = reqs[r].prefilled /\ f.inserted = reqs[r].inserted
    BY <1>3, <1>5, <2>4 DEF ReqFields
  <2> HIDE DEF f
  <2>6. f.inserted >= reqs[r].inserted
    BY <1>3, <2>5
  <2> QED
    BY <1>2, <1>3, <1>4, <1>7, <2>1, <2>2, <2>3, <2>5, <2>6, OnePins, Zenon DEF pin
<1> QED
  BY <1>6, <1>7

\* The head of the queue is admitted: the blocks matched for it become its own.
LEMMA AdmitStep ==
  ASSUME IInv, Admit
  PROVE  IInv'
<1> USE DEF fixed, queues, step, call
<1>1. TypeOK /\ LocalsOK /\ HeldOnce /\ PrefillBounded
  BY DEF IInv
<1>2. Requests = 1..Len(trace) /\ Len(trace) \in Nat /\ 0 \in 0..Len(trace)
  BY <1>1, TraceFacts
<1> PICK r : r = Head(waiting)
  OBVIOUS
<1> PICK n : n = Len(matched)
  OBVIOUS
<1>3. /\ waiting # <<>> /\ r \in Requests /\ Tail(waiting) \in Seq(Requests)
      /\ matched \in Seq(Block) /\ n \in Nat /\ running \in Seq(Requests)
  BY <1>1, TailDistinct, LenProperties DEF Admit, Candidate, TypeOK
<1>4. /\ reqs[r] \in ReqFields /\ PromptLen(r) \in Nat \ {0} /\ NumHashes(r) \in Nat
      /\ BlockSize \in Nat
  BY <1>1, <1>3, ReqFacts, TraceFacts, CfgAssumption
<1>5. n <= NumHashes(r) /\ \A i \in 1..n : matched[i] = Hash(r, i)
  <2>1. CASE matched = <<>>
    BY <1>4, <2>1, EmptySeq
  <2>2. CASE matched # <<>>
    BY <1>1, <2>2 DEF LocalsOK, Admit
  <2> QED
    BY <2>1, <2>2
<1> DEFINE need  == Need(r)
           reuse == Smaller(n * BlockSize, PromptLen(r) - 1)
           f == [reqs[r] EXCEPT !.pinned = matched, !.alloc = need, !.cached = reuse,
                                !.prefilled = reuse, !.inserted = n]
<1>6. /\ reqs' = [reqs EXCEPT ![r] = f] /\ cache' = Reclaimed(need) /\ matched' = <<>>
      /\ running' = Append(running, r) /\ waiting' = Tail(waiting)
      /\ UNCHANGED <<fixed, pending, pc, step, ret, victim>> /\ pc = "admit"
  BY DEF Admit
<1>7. need \in Nat /\ reuse \in Nat /\ reuse <= PromptLen(r)
  <2>1. n * BlockSize \in Nat
    BY <1>3, <1>4
  <2>2. Blocks(PromptLen(r)) \in Nat /\ NumHashes(r) <= Blocks(PromptLen(r))
    BY <1>4, BlockArithmetic DEF NumHashes
  <2>3. need \in Nat
    BY <1>3, <1>4, <1>5, <2>2 DEF Need
  <2> QED
    BY <1>4, <2>1, <2>3 DEF Smaller
<1> HIDE DEF need, reuse
<1>8. /\ f \in ReqFields /\ f.pinned = matched
      /\ f.prefilled = reuse /\ f.inserted = n
  BY <1>3, <1>4, <1>7 DEF ReqFields
<1> HIDE DEF f
<1>9. ASSUME NEW i \in 1..NumHashes(r), Hash(r, i) \in Range(f.pinned)
      PROVE  i <= f.inserted
  <2>1. PICK j \in 1..n : Hash(r, i) = matched[j]
    BY <1>3, <1>8, <1>9, RangeIs
  <2>2. j \in 1..NumHashes(r)
    BY <1>3, <1>4, <1>5
  <2>3. i = j
    BY <1>1, <1>3, <1>5, <2>1, <2>2, HashFacts
  <2> QED
    BY <1>3, <1>8, <2>3
<1>10. IsInjective(matched) /\ IsInjective(matched') /\ Range(matched') = {}
  <2>1. IsInjective(matched)
    BY <1>1, <1>2 DEF HeldOnce, Pinned
  <2> QED
    BY <1>6, <2>1 DEF IsInjective, Range
<1>11. /\ Requests' = Requests /\ reqs' \in [Requests -> ReqFields]
       /\ HeldOnce' /\ PrefillBounded'
       /\ r \in 0..Len(trace) /\ r # 0
       /\ Pinned(r) = reqs[r].pinned /\ Pinned(r)' = f.pinned
       /\ Pinned(0) = matched /\ Pinned(0)' = matched'
       /\ \A y \in 0..Len(trace) \ {0, r} : Pinned(y)' = Pinned(y)
  <2>1. UNCHANGED trace /\ f.prefilled <= PromptLen(r)
    BY <1>6, <1>7, <1>8
  <2> QED
    BY <1>3, <1>6, <1>8, <1>9, <1>10, <2>1, PinnedChange
<1>12. ASSUME NEW h
       PROVE  /\ Cardinality(Holders(h)') \in Nat
              /\ Cardinality(Holders(h)') <= Cardinality(Holders(h))
              /\ Holders(h)' # {} => Holders(h) # {}
  <2> DEFINE G == Holders(h)
             H == Holders(h)'
  <2>1. IsFiniteSet(G) /\ Cardinality(G) \in Nat
    BY HoldersFacts
  <2>2. /\ H \subseteq 0..Len(trace) /\ 0 \notin H
        /\ \A y \in 0..Len(trace) \ {0, r} : y \in H => y \in G
        /\ r \in H => 0 \in G
    <3>1. Len(trace') = Len(trace)
      BY <1>6
    <3>2. \A y : y \in H <=> y \in 0..Len(trace) /\ h \in Range(Pinned(y)')
      BY <3>1 DEF Holders
    <3>3. \A y : y \in G <=> y \in 0..Len(trace) /\ h \in Range(Pinned(y))
      BY DEF Holders
    <3> HIDE DEF G, H
    <3> QED
      BY <1>2, <1>8, <1>10, <1>11, <3>2, <3>3
  <2> HIDE DEF G, H
  <2>3. CASE r \notin H
    <3>1. H \subseteq G
      BY <2>2, <2>3
    <3> QED
      BY <2>1, <3>1, FS_Subset, FS_CardinalityType DEF G, H
  <2>4. CASE r \in H
    <3> DEFINE R == G \ {0}
               U == R \cup {r}
    <3>1. IsFiniteSet(R) /\ Cardinality(R) = Cardinality(G) - 1 /\ Cardinality(R) \in Nat
      BY <2>1, <2>2, <2>4, FS_RemoveElement, FS_CardinalityType
    <3>2. H \subseteq U
      BY <2>2
    <3> HIDE DEF R
    <3>3. /\ IsFiniteSet(U) /\ Cardinality(U) \in Nat
          /\ Cardinality(U) = IF r \in R THEN Cardinality(R) ELSE Cardinality(R) + 1
      BY <3>1, FS_AddElement, FS_CardinalityType
    <3> HIDE DEF U
    <3>4. Cardinality(H) \in Nat /\ Cardinality(H) <= Cardinality(U)
      BY <3>2, <3>3, FS_Subset, FS_CardinalityType
    <3>5. Cardinality(H) <= Cardinality(G) /\ G # {}
      BY <2>1, <2>2, <2>4, <3>1, <3>3, <3>4
    <3> QED
      BY <3>4, <3>5 DEF G, H
  <2> QED
    BY <2>3, <2>4
<1>13. CacheOK(cache', Block) /\ PinsCoverHolders'
  BY <1>6, <1>12, NobodyGains
<1>14. TypeOK'
  <2>1. Append(running, r) \in Seq(Requests) /\ <<>> \in Seq(Block)
    BY <1>3, AppendProperties
  <2> QED
    BY <1>1, <1>3, <1>6, <1>11, <1>13, <2>1 DEF TypeOK, CacheOK, Cached
<1>15. LocalsOK'
  BY <1>6 DEF LocalsOK
<1> QED
  BY <1>11, <1>13, <1>14, <1>15 DEF IInv, ColdBlocksListed, CacheOK

-----------------------------------------------------------------------------
(* The theorems.                                                           *)

\* simulate() starts with nothing cached, held or running.
LEMMA InitIInv == Init => IInv
<1> SUFFICES ASSUME Init PROVE IInv
  OBVIOUS
<1>1. /\ trace \in Seq(Request) /\ trace \in Traces
      /\ Len(trace) \in Nat /\ Requests = 1..Len(trace)
  BY TracesAssumption, LenProperties DEF Init, Requests
<1>2. CacheOK(cache, Block)
  BY EmptyCacheOK DEF Init
<1>3. NewReq \in ReqFields /\ NewReq.pinned = <<>> /\ NewReq.prefilled = 0
  BY DEF NewReq, ReqFields
<1>4. \A r \in Requests : reqs[r].pinned = <<>> /\ reqs[r].prefilled = 0
  BY <1>3 DEF Init
<1>5. [r \in Requests |-> r] \in Seq(Requests)
  BY <1>1
<1>6. TypeOK
  BY <1>1, <1>2, <1>3, <1>5 DEF Init, TypeOK, CacheOK, Label
<1>7. LocalsOK
  BY DEF Init, LocalsOK
<1>8. PrefillBounded
  BY <1>4, <1>6, TraceFacts DEF PrefillBounded
<1>9. \A r \in 0..Len(trace) : Pinned(r) = <<>>
  BY <1>1, <1>4 DEF Pinned, Init
<1>10. HeldOnce
  BY <1>4, <1>9 DEF HeldOnce, IsInjective, Range
<1>11. PinsCoverHolders
  BY <1>9 DEF PinsCoverHolders, Held, Range
<1> QED
  BY <1>2, <1>6, <1>7, <1>8, <1>10, <1>11 DEF IInv, ColdBlocksListed, CacheOK

\* Whatever simulate() does next, the invariant holds again.
LEMMA NextIInv == IInv /\ [Next]_vars => IInv'
<1> SUFFICES ASSUME IInv, [Next]_vars PROVE IInv'
  OBVIOUS
<1>1. CASE UNCHANGED vars
  <2>1. HeldOnce' /\ PrefillBounded' /\ ColdBlocksListed' /\ PinsCoverHolders'
    BY <1>1, QuietOK DEF vars, fixed, call
  <2>2. TypeOK' /\ LocalsOK'
    BY <1>1, Zenon DEF IInv, TypeOK, LocalsOK, vars, fixed, queues, step, call, Requests,
                Cached, Candidate, NumHashes, PromptLen, Hash
  <2> QED
    BY <2>1, <2>2 DEF IInv
<1>2. CASE Next
  BY <1>2, QuietStep, ReclaimStep, FieldStep, AdmitMatchStep, AdmitStep, UnmatchStep,
     ReleaseBlockStep, RematchStep, PublishBlockStep, PublishGenStep DEF Next
<1> QED
  BY <1>1, <1>2

\* The inductive invariant holds in every state of simulate().
THEOREM Invariance == Spec => []IInv
<1> QED
  BY InitIInv, NextIInv, PTL DEF Spec

\* Type correctness: no field, queue or local of simulate() leaves its type; in
\* particular no block count and no pin count goes below zero.
THEOREM TypeCorrect == Spec => []TypeOK
<1>1. IInv => TypeOK
  BY DEF IInv
<1> QED
  BY <1>1, Invariance, PTL

\* A block that a request, or a match in progress, has pinned is never evicted,
\* and never has fewer pins than holders.
THEOREM HeldBlocksStay == Spec => []PinsCoverHolders
<1>1. IInv => PinsCoverHolders
  BY DEF IInv
<1> QED
  BY <1>1, Invariance, PTL

\* evict() never meets a pinned or an unknown block: the LRU list is exactly the
\* blocks without a pin, each once.
THEOREM LruListsColdBlocks == Spec => []ColdBlocksListed
<1>1. IInv => ColdBlocksListed
  BY DEF IInv
<1> QED
  BY <1>1, Invariance, PTL
-----------------------------------------------------------------------------
(* Part 2.                                                                 *)

(* First come, first served.                                               *)

InOrder(s) == \A i, j \in 1..Len(s) : i < j => Arrival(s[i]) <= Arrival(s[j])

NotLater(A, B) == \A q \in A, r \in B : Arrival(q) <= Arrival(r)

\* The victim that release() is working on is still in running, and the latest.
VictimLatest ==
  pc = "preempt" => victim \in Range(running) /\ NotLater(Range(running), {victim})

\* The inductive invariant: each queue holds a request once and in order, no
\* request is in two, and running goes before waiting before pending.
InLine ==
  /\ \A s \in {pending, waiting, running} : IsInjective(s) /\ InOrder(s)
  /\ Range(running) \cap Range(waiting) = {}
  /\ (Range(running) \cup Range(waiting)) \cap Range(pending) = {}
  /\ NotLater(Range(running), Range(waiting))
  /\ NotLater(Range(running) \cup Range(waiting), Range(pending))
  /\ VictimLatest

-----------------------------------------------------------------------------
(* Sequences of requests in order of arrival.                              *)

LEMMA QueueFacts ==
  ASSUME TypeOK
  PROVE  /\ \A r \in Requests : Arrival(r) \in Nat
         /\ \A s \in {pending, waiting, running} :
              s \in Seq(Requests) /\ Range(s) \subseteq Requests
<1>1. \A s \in {pending, waiting, running} : s \in Seq(Requests)
  BY DEF TypeOK
<1> QED
  BY <1>1, TraceFacts, RangeIs

\* The latest may go to the end.
LEMMA OrderAppend ==
  ASSUME NEW s \in Seq(Requests), NEW e \in Requests, InOrder(s),
         NotLater(Range(s), {e})
  PROVE  InOrder(Append(s, e))
<1> DEFINE t == Append(s, e)
<1>1. /\ Len(s) \in Nat /\ Len(t) = Len(s) + 1 /\ t[Len(s) + 1] = e
      /\ \A i \in 1..Len(s) : t[i] = s[i]
  BY AppendProperties, LenProperties
<1>2. \A i \in 1..Len(s) : s[i] \in Range(s)
  BY RangeIs
<1> HIDE DEF t
<1>3. ASSUME NEW i \in 1..Len(t), NEW j \in 1..Len(t), i < j
      PROVE  Arrival(t[i]) <= Arrival(t[j])
  <2>1. i \in 1..Len(s)
    BY <1>1, <1>3
  <2>2. CASE j \in 1..Len(s)
    BY <1>1, <1>3, <2>1, <2>2 DEF InOrder
  <2>3. CASE j = Len(s) + 1
    BY <1>1, <1>2, <2>1, <2>3 DEF NotLater
  <2> QED
    BY <1>1, <2>2, <2>3
<1> QED
  BY <1>3 DEF InOrder, t

\* The head is the earliest, and the rest stays in order.
LEMMA OrderTail ==
  ASSUME NEW s \in Seq(Requests), s # <<>>, InOrder(s), IsInjective(s)
  PROVE  InOrder(Tail(s)) /\ NotLater({Head(s)}, Range(Tail(s)))
<1> DEFINE t == Tail(s)
<1>1. /\ Len(s) \in Nat \ {0} /\ Len(t) = Len(s) - 1 /\ t \in Seq(Requests)
      /\ Head(s) = s[1] /\ \A i \in 1..Len(t) : t[i] = s[i + 1]
  BY HeadTailProperties, EmptySeq
<1> HIDE DEF t
<1>2. InOrder(t)
  BY <1>1 DEF InOrder
<1>3. ASSUME NEW r \in Range(t)
      PROVE  Arrival(s[1]) <= Arrival(r)
  <2>1. PICK i \in 1..Len(t) : r = t[i]
    BY <1>1, RangeIs
  <2>2. i + 1 \in 1..Len(s) /\ 1 \in 1..Len(s) /\ 1 < i + 1 /\ r = s[i + 1]
    BY <1>1, <2>1
  <2> QED
    BY <2>2 DEF InOrder
<1> QED
  BY <1>1, <1>2, <1>3 DEF NotLater, t

\* Whoever leaves, the others stay in order.
LEMMA OrderRemove ==
  ASSUME NEW s \in Seq(Requests), NEW e, InOrder(s)
  PROVE  InOrder(RemoveFirst(s, e))
<1>1. CASE e \in Range(s)
  <2>1. PICK k \in 1..Len(s) : RemoveFirst(s, e) = RemoveAt(s, k)
    BY <1>1, RemoveFirstProperties
  <2> DEFINE t == RemoveAt(s, k)
  <2>2. /\ Len(s) \in Nat /\ Len(t) = Len(s) - 1
        /\ \A i \in 1..(Len(s) - 1) : t[i] = IF i < k THEN s[i] ELSE s[i + 1]
    BY RemoveAtProperties, LenProperties
  <2> HIDE DEF t
  <2>3. ASSUME NEW i \in 1..Len(t), NEW j \in 1..Len(t), i < j
        PROVE  Arrival(t[i]) <= Arrival(t[j])
    <3> DEFINE f(n) == IF n < k THEN n ELSE n + 1
    <3>1. f(i) \in 1..Len(s) /\ f(j) \in 1..Len(s) /\ f(i) < f(j)
      BY <2>2, <2>3
    <3>2. t[i] = s[f(i)] /\ t[j] = s[f(j)]
      BY <2>2
    <3> HIDE DEF f
    <3> QED
      BY <3>1, <3>2 DEF InOrder
  <2> QED
    BY <2>1, <2>3 DEF InOrder, t
<1>2. CASE e \notin Range(s)
  <2>1. RemoveFirst(s, e) = s
    BY <1>2, RangeIs DEF RemoveFirst
  <2> QED
    BY <2>1
<1> QED
  BY <1>1, <1>2

\* The earliest may go to the front.
LEMMA OrderPush ==
  ASSUME NEW s \in Seq(Requests), NEW e \in Requests, InOrder(s),
         NotLater({e}, Range(s))
  PROVE  /\ <<e>> \o s \in Seq(Requests) /\ InOrder(<<e>> \o s)
         /\ Range(<<e>> \o s) = {e} \cup Range(s)
         /\ IsInjective(s) /\ e \notin Range(s) => IsInjective(<<e>> \o s)
<1> DEFINE t == <<e>> \o s
<1>1. <<e>> \in Seq(Requests) /\ Len(<<e>>) = 1 /\ <<e>>[1] = e
  OBVIOUS
<1>2. /\ t \in Seq(Requests) /\ Len(s) \in Nat /\ Len(t) = 1 + Len(s)
      /\ \A i \in 1..(1 + Len(s)) : t[i] = IF i <= 1 THEN e ELSE s[i - 1]
  BY <1>1, ConcatProperties, LenProperties
<1> HIDE DEF t
<1>3. /\ \A x : x \in Range(s) <=> \E i \in 1..Len(s) : x = s[i]
      /\ IsInjective(s) <=> \A i, j \in 1..Len(s) : s[i] = s[j] => i = j
  BY RangeIs
<1>4. /\ \A x : x \in Range(t) <=> \E i \in 1..Len(t) : x = t[i]
      /\ IsInjective(t) <=> \A i, j \in 1..Len(t) : t[i] = t[j] => i = j
  BY <1>2, RangeIs
<1>5. InOrder(t)
  <2> SUFFICES ASSUME NEW i \in 1..Len(t), NEW j \in 1..Len(t), i < j
               PROVE  Arrival(t[i]) <= Arrival(t[j])
    BY DEF InOrder
  <2>1. j - 1 \in 1..Len(s) /\ t[j] = s[j - 1]
    BY <1>2
  <2>2. CASE i = 1
    BY <1>2, <1>3, <2>1, <2>2 DEF NotLater
  <2>3. CASE i # 1
    <3> DEFINE k == i - 1  l == j - 1
    <3>1. k \in 1..Len(s) /\ l \in 1..Len(s) /\ k < l /\ t[i] = s[k] /\ t[j] = s[l]
      BY <1>2, <2>1, <2>3
    <3> HIDE DEF k, l
    <3> QED
      BY <3>1 DEF InOrder
  <2> QED
    BY <2>2, <2>3
<1>6. Range(t) = {e} \cup Range(s)
  <2>1. ASSUME NEW x \in Range(t) PROVE x \in {e} \cup Range(s)
    BY <1>2, <1>3, <1>4
  <2>2. e \in Range(t)
    BY <1>2, <1>4
  <2>3. ASSUME NEW x \in Range(s) PROVE x \in Range(t)
    <3>1. PICK i \in 1..Len(s) : x = s[i]
      BY <1>3
    <3>2. i + 1 \in 1..Len(t) /\ t[i + 1] = s[i]
      BY <1>2
    <3> QED
      BY <1>4, <3>1, <3>2
  <2> QED
    BY <2>1, <2>2, <2>3
<1>7. ASSUME IsInjective(s), e \notin Range(s) PROVE IsInjective(t)
  BY <1>2, <1>3, <1>4, <1>7
<1> QED
  BY <1>2, <1>5, <1>6, <1>7 DEF t

-----------------------------------------------------------------------------
(* One step of simulate().                                                 *)

\* Most steps leave the queues alone; if release() is at work on a victim after
\* one, the victim is as before or preempt_victim has just chosen it.
LEMMA QueuesStay ==
  ASSUME TypeOK, VictimLatest, [Next]_vars,
         ~(Arrive \/ Admit \/ Requeue \/ FirstToken \/ Finish)
  PROVE  UNCHANGED <<trace, pending, waiting, running>> /\ VictimLatest'
<1> USE DEF fixed, queues, step, call
<1> DEFINE Quiet == /\ UNCHANGED <<trace, pending, waiting, running>>
                    /\ pc' = "preempt" => pc = "preempt" /\ victim' = victim
<1>1. ASSUME Quiet PROVE VictimLatest'
  <2>1. \A r : Arrival(r)' = Arrival(r)
    BY <1>1 DEF Arrival
  <2> QED
    BY <1>1, <2>1 DEF VictimLatest, NotLater
<1>2. ASSUME Preempt PROVE UNCHANGED <<trace, pending, waiting, running>> /\ VictimLatest'
  <2>1. /\ UNCHANGED <<trace, pending, waiting, running>>
        /\ pc' = IF running = <<>> THEN "retry" ELSE "preempt"
        /\ victim' \in IF running = <<>> THEN {0}
                       ELSE {running[i] : i \in {j \in DOMAIN running : IsVictim(j)}}
    BY <1>2 DEF Preempt
  <2>2. CASE running # <<>>
    <3>1. PICK i \in DOMAIN running : IsVictim(i) /\ victim' = running[i]
      BY <2>1, <2>2
    <3>2. running \in Seq(Requests) /\ DOMAIN running = 1..Len(running)
      BY QueueFacts, LenProperties
    <3>3. /\ victim' \in Range(running)
          /\ \A q \in Range(running) : Arrival(q) <= Arrival(victim')
      BY <3>1, <3>2, RangeIs DEF IsVictim
    <3>4. \A r : Arrival(r)' = trace[r].arrival /\ Arrival(r) = trace[r].arrival
      BY <2>1 DEF Arrival
    <3>5. \A q \in Range(running') : \A r \in {victim'} : trace'[q].arrival <= trace'[r].arrival
      BY <2>1, <3>3 DEF Arrival
    <3> QED
      BY <2>1, <3>3, <3>5 DEF VictimLatest, NotLater, Arrival
  <2>3. CASE running = <<>>
    BY <2>1, <2>3 DEF VictimLatest
  <2> QED
    BY <2>1, <2>2, <2>3
<1>3. CASE UNCHANGED vars
  BY <1>1, <1>3 DEF vars
<1>4. CASE NextRound \/ Return \/ NoneDue \/ IdleJump \/ Stuck
           \/ AdmitMatch \/ AdmitFails \/ Unmatch \/ Refuse \/ NoCandidate
  <2>1. Quiet
    BY <1>4, Zenon DEF TypeOK, NextRound, Return, NoneDue, IdleJump, Stuck, AdmitMatch,
                AdmitFails, Unmatch, Refuse, NoCandidate
  <2> QED
    BY <1>1, <2>1
<1>5. CASE BeginStep \/ PlanDecode \/ BeginAlloc \/ AllocNone \/ Alloc
           \/ ReleaseBlock \/ SelfPreempted \/ Stall
  <2>1. Quiet
    BY <1>5, SMTT(30) DEF BeginStep, PlanDecode, BeginAlloc, AllocNone, Alloc, ReleaseBlock,
                SelfPreempted, Stall
  <2> QED
    BY <1>1, <2>1
<1>6. CASE BeginPrefill \/ Rematch \/ PrefillChunk \/ PublishBlock
           \/ PublishDisabled \/ Published \/ Elapse
  <2>1. Quiet
    BY <1>6, Zenon DEF BeginPrefill, Rematch, PrefillChunk, PublishBlock, PublishDisabled,
                Published, Elapse
  <2> QED
    BY <1>1, <2>1
<1>7. CASE BeginDecode \/ DecodeToken \/ PublishGen \/ Decoded
           \/ BeginFinish \/ Retired \/ EndStep \/ Skip \/ Over
  <2>1. Quiet
    BY <1>7, Zenon DEF TypeOK, BeginDecode, DecodeToken, PublishGen, Decoded, BeginFinish,
                Retired, EndStep, Skip, Over, vars
  <2> QED
    BY <1>1, <2>1
<1> QED
  BY <1>2, <1>3, <1>4, <1>5, <1>6, <1>7 DEF Next

-----------------------------------------------------------------------------
(* The steps that move a request.                                          *)

\* The places of Service are the queues.
LEMMA PlaceIs ==
  ASSUME TypeOK, InLine
  PROVE  /\ S!Requests = Requests /\ \A r : S!Arrival(r) = Arrival(r)
         /\ S!At("pending") = Range(pending) /\ S!At("waiting") = Range(waiting)
         /\ S!At("running") = Range(running)
<1>1. /\ Range(pending) \subseteq Requests /\ Range(waiting) \subseteq Requests
      /\ Range(running) \subseteq Requests
  BY QueueFacts
<1>2. S!Requests = Requests /\ \A r : S!Arrival(r) = Arrival(r)
  BY DEF S!Requests, S!Arrival, Requests, Arrival
<1>3. \A r \in Requests :
        Place[r] = IF r \in Range(pending) THEN "pending"
                   ELSE IF r \in Range(waiting) THEN "waiting"
                   ELSE IF r \in Range(running) THEN "running" ELSE "served"
  BY DEF Place
<1> QED
  BY <1>1, <1>2, <1>3 DEF S!At, InLine

\* A request that has changed queues has changed its place.
LEMMA PlaceMoves ==
  ASSUME TypeOK, InLine, UNCHANGED trace, NEW r \in Requests,
         NEW from, NEW to, Place[r] = from,
         \A q \in Requests \ {r} :
           /\ q \in Range(pending') <=> q \in Range(pending)
           /\ q \in Range(waiting') <=> q \in Range(waiting)
           /\ q \in Range(running') <=> q \in Range(running),
         to = IF r \in Range(pending') THEN "pending"
              ELSE IF r \in Range(waiting') THEN "waiting"
              ELSE IF r \in Range(running') THEN "running" ELSE "served"
  PROVE  S!Move(r, from, to)
<1> DEFINE F == [q \in Requests |-> IF q = r THEN to ELSE Place[q]]
<1>1. \A q \in Requests :
        F[q] = IF q \in Range(pending') THEN "pending"
               ELSE IF q \in Range(waiting') THEN "waiting"
               ELSE IF q \in Range(running') THEN "running" ELSE "served"
  BY DEF Place
<1>2. Place' = [q \in Requests |-> IF q \in Range(pending') THEN "pending"
                                   ELSE IF q \in Range(waiting') THEN "waiting"
                                   ELSE IF q \in Range(running') THEN "running"
                                   ELSE "served"]
  BY DEF Place, Requests, Range
<1>3. Place' = F
  BY <1>1, <1>2
<1>4. F = [Place EXCEPT ![r] = to]
  BY DEF Place
<1> QED
  BY <1>3, <1>4 DEF S!Move

\* The invariant of the next state, said of the primed queues.
LEMMA InLineAgain ==
  ASSUME UNCHANGED trace, VictimLatest',
         \A s \in {pending', waiting', running'} : IsInjective(s) /\ InOrder(s),
         Range(running') \cap Range(waiting') = {},
         (Range(running') \cup Range(waiting')) \cap Range(pending') = {},
         NotLater(Range(running'), Range(waiting')),
         NotLater(Range(running') \cup Range(waiting'), Range(pending'))
  PROVE  InLine'
<1>1. \A r : Arrival(r)' = Arrival(r)
  BY DEF Arrival
<1>2. \A s \in {pending', waiting', running'} : IsInjective(s) /\ InOrder(s)'
  BY <1>1 DEF InOrder
<1>3. NotLater(Range(running), Range(waiting))'
  BY <1>1 DEF NotLater
<1>4. NotLater(Range(running) \cup Range(waiting), Range(pending))'
  BY <1>1 DEF NotLater
<1> QED
  BY <1>2, <1>3, <1>4 DEF InLine

LEMMA ArriveMoves ==
  ASSUME TypeOK, InLine, Arrive
  PROVE  InLine' /\ \E r \in S!Requests : S!Arrive(r)
<1> DEFINE h == Head(pending)
<1>1. /\ pending # <<>> /\ pc = "arrive" /\ pc' = "arrive"
      /\ waiting' = Append(waiting, h) /\ pending' = Tail(pending)
      /\ UNCHANGED <<trace, running>>
  BY DEF Arrive, Due, fixed
<1>2. /\ pending \in Seq(Requests) /\ waiting \in Seq(Requests) /\ running \in Seq(Requests)
      /\ h \in Range(pending) /\ h \in Requests
      /\ Range(pending) \subseteq Requests /\ Range(waiting) \subseteq Requests
      /\ Range(running) \subseteq Requests /\ \A r \in Requests : Arrival(r) \in Nat
  BY <1>1, QueueFacts, TailDistinct
<1>3. /\ IsInjective(pending) /\ InOrder(pending) /\ IsInjective(waiting) /\ InOrder(waiting)
      /\ IsInjective(running) /\ InOrder(running) /\ h \notin Range(waiting)
      /\ h \notin Range(running)
  BY <1>2 DEF InLine
<1>4. /\ Range(pending') = Range(pending) \ {h} /\ IsInjective(pending') /\ InOrder(pending')
      /\ NotLater({h}, Range(pending'))
  BY <1>1, <1>2, <1>3, TailDistinct, OrderTail
<1>5. /\ Range(waiting') = Range(waiting) \cup {h} /\ IsInjective(waiting')
      /\ InOrder(waiting')
  <2>1. NotLater(Range(waiting), {h})
    BY <1>2 DEF InLine, NotLater
  <2>2. InOrder(Append(waiting, h))
    BY <1>2, <1>3, <2>1, OrderAppend
  <2>3. Range(Append(waiting, h)) = Range(waiting) \cup {h} /\ IsInjective(Append(waiting, h))
    BY <1>2, <1>3, AppendDistinct
  <2> QED
    BY <1>1, <2>2, <2>3
<1>6. InLine'
  <2>1. NotLater(Range(running'), Range(waiting'))
    BY <1>1, <1>2, <1>5 DEF InLine, NotLater
  <2>2. NotLater(Range(running') \cup Range(waiting'), Range(pending'))
    BY <1>1, <1>2, <1>4, <1>5 DEF InLine, NotLater
  <2>3. /\ Range(running') \cap Range(waiting') = {}
        /\ (Range(running') \cup Range(waiting')) \cap Range(pending') = {}
    BY <1>1, <1>3, <1>4, <1>5 DEF InLine
  <2>4. VictimLatest'
    BY <1>1 DEF VictimLatest
  <2> QED
    BY <1>1, <1>3, <1>4, <1>5, <2>1, <2>2, <2>3, <2>4, InLineAgain
<1>7. Place[h] = "pending" /\ S!Move(h, "pending", "waiting")
  <2>1. Place[h] = "pending"
    BY <1>2 DEF Place
  <2> QED
    BY <1>1, <1>2, <1>3, <1>4, <1>5, <2>1, PlaceMoves
<1>8. \A q \in Range(pending) : Arrival(h) <= Arrival(q)
  BY <1>2, <1>4 DEF NotLater
<1> QED
  BY <1>2, <1>6, <1>7, <1>8, PlaceIs DEF S!Arrive

LEMMA AdmitMoves ==
  ASSUME TypeOK, InLine, Admit
  PROVE  InLine' /\ \E r \in S!Requests : S!Admit(r)
<1> DEFINE h == Head(waiting)
<1>1. /\ waiting # <<>> /\ pc' = "admit"
      /\ running' = Append(running, h) /\ waiting' = Tail(waiting)
      /\ UNCHANGED <<trace, pending>>
  BY DEF Admit, Candidate, fixed
<1>2. /\ pending \in Seq(Requests) /\ waiting \in Seq(Requests) /\ running \in Seq(Requests)
      /\ h \in Range(waiting) /\ h \in Requests
      /\ Range(pending) \subseteq Requests /\ Range(waiting) \subseteq Requests
      /\ Range(running) \subseteq Requests /\ \A r \in Requests : Arrival(r) \in Nat
  BY <1>1, QueueFacts, TailDistinct
<1>3. /\ IsInjective(pending) /\ InOrder(pending) /\ IsInjective(waiting) /\ InOrder(waiting)
      /\ IsInjective(running) /\ InOrder(running) /\ h \notin Range(running)
      /\ h \notin Range(pending)
  BY <1>2 DEF InLine
<1>4. /\ Range(waiting') = Range(waiting) \ {h} /\ IsInjective(waiting') /\ InOrder(waiting')
      /\ NotLater({h}, Range(waiting'))
  BY <1>1, <1>2, <1>3, TailDistinct, OrderTail
<1>5. /\ Range(running') = Range(running) \cup {h} /\ IsInjective(running')
      /\ InOrder(running')
  <2>1. NotLater(Range(running), {h})
    BY <1>2 DEF InLine, NotLater
  <2>2. InOrder(Append(running, h))
    BY <1>2, <1>3, <2>1, OrderAppend
  <2>3. Range(Append(running, h)) = Range(running) \cup {h} /\ IsInjective(Append(running, h))
    BY <1>2, <1>3, AppendDistinct
  <2> QED
    BY <1>1, <2>2, <2>3
<1>6. InLine'
  <2>1. NotLater(Range(running'), Range(waiting'))
    BY <1>1, <1>2, <1>4, <1>5 DEF InLine, NotLater
  <2>2. NotLater(Range(running') \cup Range(waiting'), Range(pending'))
    BY <1>1, <1>2, <1>4, <1>5 DEF InLine, NotLater
  <2>3. /\ Range(running') \cap Range(waiting') = {}
        /\ (Range(running') \cup Range(waiting')) \cap Range(pending') = {}
    BY <1>1, <1>3, <1>4, <1>5 DEF InLine
  <2>4. VictimLatest'
    BY <1>1 DEF VictimLatest
  <2> QED
    BY <1>1, <1>3, <1>4, <1>5, <2>1, <2>2, <2>3, <2>4, InLineAgain
<1>7. Place[h] = "waiting" /\ S!Move(h, "waiting", "running")
  <2>1. Place[h] = "waiting"
    BY <1>2, <1>3 DEF Place
  <2> QED
    BY <1>1, <1>2, <1>3, <1>4, <1>5, <2>1, PlaceMoves
<1>8. \A q \in Range(waiting) : Arrival(h) <= Arrival(q)
  BY <1>2, <1>4 DEF NotLater
<1> QED
  BY <1>2, <1>6, <1>7, <1>8, PlaceIs DEF S!Admit

LEMMA RequeueMoves ==
  ASSUME TypeOK, InLine, Requeue
  PROVE  InLine' /\ \E r \in S!Requests : S!Preempt(r)
<1>1. /\ pc = "preempt" /\ pc' = "retry"
      /\ running' = RemoveFirst(running, victim) /\ waiting' = <<victim>> \o waiting
      /\ UNCHANGED <<trace, pending>>
  BY DEF Requeue, fixed
<1>2. /\ pending \in Seq(Requests) /\ waiting \in Seq(Requests) /\ running \in Seq(Requests)
      /\ victim \in Range(running) /\ victim \in Requests
      /\ Range(pending) \subseteq Requests /\ Range(waiting) \subseteq Requests
      /\ Range(running) \subseteq Requests /\ \A r \in Requests : Arrival(r) \in Nat
  BY <1>1, QueueFacts DEF InLine, VictimLatest
<1>3. /\ IsInjective(pending) /\ InOrder(pending) /\ IsInjective(waiting) /\ InOrder(waiting)
      /\ IsInjective(running) /\ InOrder(running) /\ victim \notin Range(waiting)
      /\ victim \notin Range(pending) /\ NotLater(Range(running), {victim})
  BY <1>1, <1>2 DEF InLine, VictimLatest
<1>4. /\ Range(running') = Range(running) \ {victim} /\ IsInjective(running')
      /\ InOrder(running')
  BY <1>1, <1>2, <1>3, RemoveFirstDistinct, OrderRemove
<1>5. /\ Range(waiting') = Range(waiting) \cup {victim} /\ IsInjective(waiting')
      /\ InOrder(waiting')
  <2>1. NotLater({victim}, Range(waiting))
    BY <1>2 DEF InLine, NotLater
  <2>2. /\ InOrder(<<victim>> \o waiting) /\ IsInjective(<<victim>> \o waiting)
        /\ Range(<<victim>> \o waiting) = {victim} \cup Range(waiting)
    BY <1>2, <1>3, <2>1, OrderPush
  <2> QED
    BY <1>1, <2>2
<1>6. InLine'
  <2>1. NotLater(Range(running'), Range(waiting'))
    BY <1>1, <1>2, <1>3, <1>4, <1>5 DEF InLine, NotLater
  <2>2. NotLater(Range(running') \cup Range(waiting'), Range(pending'))
    BY <1>1, <1>2, <1>4, <1>5 DEF InLine, NotLater
  <2>3. /\ Range(running') \cap Range(waiting') = {}
        /\ (Range(running') \cup Range(waiting')) \cap Range(pending') = {}
    BY <1>1, <1>3, <1>4, <1>5 DEF InLine
  <2>4. VictimLatest'
    BY <1>1 DEF VictimLatest
  <2> QED
    BY <1>1, <1>3, <1>4, <1>5, <2>1, <2>2, <2>3, <2>4, InLineAgain
<1>7. Place[victim] = "running" /\ S!Move(victim, "running", "waiting")
  <2>1. Place[victim] = "running"
    BY <1>2, <1>3 DEF Place
  <2> QED
    BY <1>1, <1>2, <1>3, <1>4, <1>5, <2>1, PlaceMoves
<1>8. \A q \in Range(running) : Arrival(q) <= Arrival(victim)
  BY <1>3 DEF NotLater
<1> QED
  BY <1>2, <1>6, <1>7, <1>8, PlaceIs DEF S!Preempt

\* running.remove(r), at the first token or after the last.
LEMMA ServeMoves ==
  ASSUME TypeOK, InLine, NEW r, running' = RemoveFirst(running, r), pc' = "retire",
         UNCHANGED <<trace, pending, waiting>>
  PROVE  InLine' /\ (UNCHANGED <<trace, Place>> \/ \E q \in S!Requests : S!Serve(q))
<1>1. /\ pending \in Seq(Requests) /\ waiting \in Seq(Requests) /\ running \in Seq(Requests)
      /\ Range(running) \subseteq Requests
  BY QueueFacts
<1>2. /\ IsInjective(pending) /\ InOrder(pending) /\ IsInjective(waiting) /\ InOrder(waiting)
      /\ IsInjective(running) /\ InOrder(running)
  BY DEF InLine
<1>3. CASE r \notin Range(running)
  <2>1. running' = running
    BY <1>1, <1>3, RangeIs DEF RemoveFirst
  <2>2. VictimLatest'
    BY DEF VictimLatest
  <2>3. InLine'
    BY <1>2, <2>1, <2>2, InLineAgain DEF InLine
  <2> QED
    BY <2>1, <2>3 DEF Place, Requests
<1>4. CASE r \in Range(running)
  <2>1. /\ Range(running') = Range(running) \ {r} /\ IsInjective(running')
        /\ InOrder(running')
    BY <1>1, <1>2, <1>4, RemoveFirstDistinct, OrderRemove
  <2>2. /\ NotLater(Range(running'), Range(waiting'))
        /\ NotLater(Range(running') \cup Range(waiting'), Range(pending'))
    BY <2>1 DEF InLine, NotLater
  <2>3. /\ Range(running') \cap Range(waiting') = {}
        /\ (Range(running') \cup Range(waiting')) \cap Range(pending') = {}
    BY <2>1 DEF InLine
  <2>4. VictimLatest'
    BY DEF VictimLatest
  <2>5. InLine'
    BY <1>2, <2>1, <2>2, <2>3, <2>4, InLineAgain
  <2>6. r \in Requests /\ r \notin Range(pending) /\ r \notin Range(waiting)
    BY <1>1, <1>4 DEF InLine
  <2>7. Place[r] = "running"
    BY <1>4, <2>6 DEF Place
  <2>8. S!Move(r, "running", "served")
    BY <2>1, <2>6, <2>7, PlaceMoves
  <2> QED
    BY <2>5, <2>6, <2>8, PlaceIs DEF S!Serve
<1> QED
  BY <1>3, <1>4

LEMMA FirstTokenMoves ==
  ASSUME TypeOK, InLine, FirstToken
  PROVE  InLine' /\ (UNCHANGED <<trace, Place>> \/ \E r \in S!Requests : S!Serve(r))
<1>1. UNCHANGED <<trace, pending, waiting>> /\ pc = "first"
  BY DEF FirstToken, fixed
<1>2. CASE OutputLen(Head(todo)) <= 1
  <2>1. running' = RemoveFirst(running, Head(todo)) /\ pc' = "retire"
    BY <1>2 DEF FirstToken
  <2> QED
    BY <1>1, <2>1, ServeMoves
<1>3. CASE ~(OutputLen(Head(todo)) <= 1)
  <2>1. UNCHANGED <<running, pc>>
    BY <1>3 DEF FirstToken
  <2>2. VictimLatest'
    BY <1>1, <2>1 DEF VictimLatest
  <2>3. InLine'
    BY <1>1, <2>1, <2>2, InLineAgain DEF InLine
  <2> QED
    BY <1>1, <2>1, <2>3 DEF Place, Requests
<1> QED
  BY <1>2, <1>3

-----------------------------------------------------------------------------
(* The theorems.                                                           *)

\* simulate() starts with the sorted trace in pending, which is Service's start.
LEMMA InitInLine == Init => InLine /\ S!Init
<1> SUFFICES ASSUME Init PROVE InLine /\ S!Init
  OBVIOUS
<1>1. /\ trace \in Traces /\ pending = [r \in Requests |-> r] /\ waiting = <<>>
      /\ running = <<>> /\ pc = "loop"
  BY DEF Init
<1>2. TypeOK
  BY InitIInv DEF IInv
<1>3. /\ Requests = 1..Len(trace) /\ Len(trace) \in Nat
      /\ \A q, r \in Requests : q <= r => Arrival(q) <= Arrival(r)
  BY <1>1, <1>2, TraceFacts, TracesAssumption DEF Arrival, Requests
<1>4. pending \in Seq(Requests) /\ Len(pending) = Len(trace) /\ \A i \in Requests : pending[i] = i
  <2>1. pending \in Seq(Requests) /\ DOMAIN pending = 1..Len(pending) /\ Len(pending) \in Nat
    BY <1>2, LenProperties DEF TypeOK
  <2>2. DOMAIN pending = 1..Len(trace)
    BY <1>1, <1>3
  <2> QED
    BY <1>1, <1>3, <2>1, <2>2
<1>5. Range(pending) = Requests /\ IsInjective(pending)
  BY <1>1 DEF Range, IsInjective
<1>6. InOrder(pending)
  BY <1>3, <1>4 DEF InOrder
<1>7. Range(<<>>) = {} /\ IsInjective(<<>>) /\ InOrder(<<>>)
  BY DEF Range, IsInjective, InOrder
<1>8. InLine
  BY <1>1, <1>5, <1>6, <1>7 DEF InLine, NotLater, VictimLatest
<1>9. Place = [r \in Requests |-> "pending"]
  BY <1>5 DEF Place
<1> QED
  BY <1>1, <1>8, <1>9 DEF S!Init, S!Requests, Requests

\* Every step keeps the line, and is a step of Service or moves nobody.
LEMMA NextInLine ==
  TypeOK /\ InLine /\ [Next]_vars => InLine' /\ [S!Next]_(S!vars)
<1> SUFFICES ASSUME TypeOK, InLine, [Next]_vars PROVE InLine' /\ [S!Next]_(S!vars)
  OBVIOUS
<1>1. CASE ~(Arrive \/ Admit \/ Requeue \/ FirstToken \/ Finish)
  <2>1. UNCHANGED <<trace, pending, waiting, running>> /\ VictimLatest'
    BY <1>1, QueuesStay DEF InLine
  <2>2. InLine'
    BY <2>1, InLineAgain DEF InLine
  <2>3. UNCHANGED S!vars
    BY <2>1 DEF S!vars, Place, Requests
  <2> QED
    BY <2>2, <2>3
<1>2. CASE Arrive
  BY <1>2, ArriveMoves DEF S!Next
<1>3. CASE Admit
  BY <1>3, AdmitMoves DEF S!Next
<1>4. CASE Requeue
  BY <1>4, RequeueMoves DEF S!Next
<1>5. CASE FirstToken
  BY <1>5, FirstTokenMoves DEF S!Next, S!vars
<1>6. CASE Finish
  <2>1. /\ running' = RemoveFirst(running, Head(todo)) /\ pc' = "retire"
        /\ UNCHANGED <<trace, pending, waiting>>
    BY <1>6 DEF Finish, fixed
  <2> QED
    BY <2>1, ServeMoves DEF S!Next, S!vars
<1> QED
  BY <1>1, <1>2, <1>3, <1>4, <1>5, <1>6

\* simulate() implements Service: nobody is admitted before an earlier request
\* that waits, and who gives way is the latest of those that run.
THEOREM Implements == Spec => FirstComeFirstServed
<1>1. Init => S!Init /\ InLine
  BY InitInLine
<1>2. TypeOK /\ InLine /\ [Next]_vars => InLine' /\ [S!Next]_(S!vars)
  BY NextInLine
<1> QED
  BY <1>1, <1>2, TypeCorrect, PTL DEF Spec, S!Spec, FirstComeFirstServed

-----------------------------------------------------------------------------
(* What the refinement says of who is overtaken.                           *)

\* The places of Service.
Places == {"pending", "waiting", "running", "served"}

\* Everybody has a place, and nobody has been overtaken.
OrderInv ==
  /\ Place \in [S!Requests -> Places]
  /\ \A r \in S!Requests : S!Arrival(r) \in Nat
  /\ S!NobodyOvertaken

\* Who is where after a move.
LEMMA Moved ==
  ASSUME OrderInv, NEW r \in S!Requests, NEW from \in Places, NEW to \in Places \ {from},
         S!Move(r, from, to)
  PROVE  /\ S!Requests' = S!Requests /\ \A q : S!Arrival(q)' = S!Arrival(q)
         /\ Place' \in [S!Requests -> Places]
         /\ \A p \in Places :
              S!At(p)' = IF p = to THEN S!At(p) \cup {r} ELSE S!At(p) \ {r}
         /\ r \in S!At(from) /\ \A p \in Places : S!At(p) \subseteq S!Requests
<1>1. /\ Place' = [Place EXCEPT ![r] = to] /\ Place[r] = from
      /\ S!Requests' = S!Requests /\ \A q : S!Arrival(q)' = S!Arrival(q)
      /\ Place \in [S!Requests -> Places]
  BY DEF S!Move, OrderInv, S!Requests, S!Arrival
<1>2. /\ Place' \in [S!Requests -> Places] /\ Place'[r] = to
      /\ \A q \in S!Requests \ {r} : Place'[q] = Place[q]
  BY <1>1
<1>3. ASSUME NEW p \in Places
      PROVE  S!At(p)' = IF p = to THEN S!At(p) \cup {r} ELSE S!At(p) \ {r}
  BY <1>1, <1>2 DEF S!At
<1> QED
  BY <1>1, <1>2, <1>3 DEF S!At

\* A request that Service moves gets no one before it who came after it.
LEMMA NextOrderInv == OrderInv /\ [S!Next]_(S!vars) => OrderInv'
<1> SUFFICES ASSUME OrderInv, [S!Next]_(S!vars) PROVE OrderInv'
  OBVIOUS
<1>1. CASE UNCHANGED S!vars
  BY <1>1 DEF S!vars, OrderInv, S!NobodyOvertaken, S!At, S!Requests, S!Arrival
<1>2. ASSUME NEW r \in S!Requests, S!Arrive(r) PROVE OrderInv'
  <2>1. S!Move(r, "pending", "waiting") /\ \A q \in S!At("pending") : S!Arrival(r) <= S!Arrival(q)
    BY <1>2 DEF S!Arrive
  <2> QED
    BY <2>1, Moved DEF OrderInv, S!NobodyOvertaken, Places
<1>3. ASSUME NEW r \in S!Requests, S!Admit(r) PROVE OrderInv'
  <2>1. S!Move(r, "waiting", "running") /\ \A q \in S!At("waiting") : S!Arrival(r) <= S!Arrival(q)
    BY <1>3 DEF S!Admit
  <2> QED
    BY <2>1, Moved DEF OrderInv, S!NobodyOvertaken, Places
<1>4. ASSUME NEW r \in S!Requests, S!Preempt(r) PROVE OrderInv'
  <2>1. S!Move(r, "running", "waiting") /\ \A q \in S!At("running") : S!Arrival(q) <= S!Arrival(r)
    BY <1>4 DEF S!Preempt
  <2> QED
    BY <2>1, Moved DEF OrderInv, S!NobodyOvertaken, Places
<1>5. ASSUME NEW r \in S!Requests, S!Serve(r) PROVE OrderInv'
  <2>1. S!Move(r, "running", "served")
    BY <1>5 DEF S!Serve
  <2> QED
    BY <2>1, Moved DEF OrderInv, S!NobodyOvertaken, Places
<1> QED
  BY <1>1, <1>2, <1>3, <1>4, <1>5 DEF S!Next

\* Whatever implements Service never serves a request while an earlier one waits, nor
\* keeps one waiting that arrived after one still to come: nothing is used of Place.
LEMMA FirstComeIsFirst == S!Spec => []S!NobodyOvertaken
<1>1. S!Init => OrderInv
  <2> SUFFICES ASSUME S!Init PROVE OrderInv
    OBVIOUS
  <2>1. trace \in Traces /\ Place = [r \in S!Requests |-> "pending"]
    BY DEF S!Init
  <2>2. \A r \in S!Requests : S!Arrival(r) \in Nat
    <3>1. trace \in Seq(Request)
      BY <2>1, TracesAssumption
    <3>2. ASSUME NEW r \in DOMAIN trace PROVE trace[r].arrival \in Nat
      <4>1. trace[r] \in Request
        BY <3>1
      <4> QED
        BY <4>1 DEF Request
    <3> QED
      BY <3>2 DEF S!Requests, S!Arrival
  <2> QED
    BY <2>1, <2>2 DEF OrderInv, S!NobodyOvertaken, S!At, Places
<1>2. OrderInv => S!NobodyOvertaken
  BY DEF OrderInv
<1> QED
  BY <1>1, <1>2, NextOrderInv, PTL DEF S!Spec

\* In simulate() nobody is overtaken: what runs arrived no later than what waits, and
\* what waits no later than what is still to come.  It follows from the refinement alone.
THEOREM NobodyIsOvertaken == Spec => []S!NobodyOvertaken
<1>1. S!Spec => []S!NobodyOvertaken
  BY FirstComeIsFirst
<1>2. Spec => S!Spec
  BY Implements DEF FirstComeFirstServed
<1> QED
  BY <1>1, <1>2, PTL

-----------------------------------------------------------------------------
(* Order of arrival, through all three queues.                             *)

\* The three queues, one after the other.
LEMMA QueueInOrder == TypeOK /\ InLine => ArrivalOrder
<1> SUFFICES ASSUME TypeOK, InLine PROVE ArrivalOrder
  OBVIOUS
<1> DEFINE a == Len(running)  b == Len(waiting)  c == Len(pending)
           rest == running \o waiting
<1>1. /\ running \in Seq(Requests) /\ waiting \in Seq(Requests) /\ pending \in Seq(Requests)
      /\ a \in Nat /\ b \in Nat /\ c \in Nat
  BY LenProperties DEF TypeOK
<1>2. /\ rest \in Seq(Requests) /\ Len(rest) = a + b
      /\ \A i \in 1..(a + b) : rest[i] = IF i <= a THEN running[i] ELSE waiting[i - a]
  BY <1>1, ConcatProperties
<1>3. /\ Queue \in Seq(Requests) /\ Len(Queue) = a + b + c
      /\ \A i \in 1..(a + b + c) :
           Queue[i] = IF i <= a + b THEN rest[i] ELSE pending[i - (a + b)]
  <2>1. Queue = rest \o pending
    BY DEF Queue
  <2> HIDE DEF rest
  <2>2. /\ rest \o pending \in Seq(Requests)
        /\ Len(rest \o pending) = Len(rest) + Len(pending)
        /\ \A i \in 1..(Len(rest) + Len(pending)) :
             (rest \o pending)[i] = IF i <= Len(rest) THEN rest[i] ELSE pending[i - Len(rest)]
    <3>1. rest \in Seq(Requests) /\ pending \in Seq(Requests)
      BY <1>1, <1>2
    <3> QED
      BY <3>1, ConcatProperties
  <2> QED
    BY <1>2, <2>1, <2>2
<1>4. DOMAIN Queue = 1..(a + b + c)
  BY <1>3, LenProperties
<1> HIDE DEF a, b, c, rest
<1>5. ASSUME NEW i \in 1..(a + b + c)
      PROVE  /\ i <= a => i \in 1..a /\ Queue[i] = running[i]
             /\ a < i /\ i <= a + b => i - a \in 1..b /\ Queue[i] = waiting[i - a]
             /\ a + b < i => i - (a + b) \in 1..c /\ Queue[i] = pending[i - (a + b)]
  BY <1>1, <1>2, <1>3, SMTT(30)
<1>6. /\ \A i \in 1..a : running[i] \in Range(running)
      /\ \A i \in 1..b : waiting[i] \in Range(waiting)
      /\ \A i \in 1..c : pending[i] \in Range(pending)
  BY <1>1, RangeIs DEF a, b, c
<1>7. /\ \A i, j \in 1..a : i < j => Arrival(running[i]) <= Arrival(running[j])
      /\ \A i, j \in 1..b : i < j => Arrival(waiting[i]) <= Arrival(waiting[j])
      /\ \A i, j \in 1..c : i < j => Arrival(pending[i]) <= Arrival(pending[j])
  BY DEF InLine, InOrder, a, b, c
<1>8. ASSUME NEW i \in 1..(a + b + c), NEW j \in 1..(a + b + c), i < j
      PROVE  Arrival(Queue[i]) <= Arrival(Queue[j])
  <2>1. CASE j <= a
    BY <1>1, <1>5, <1>7, <1>8, <2>1
  <2>2. CASE i <= a /\ a < j /\ j <= a + b
    BY <1>1, <1>5, <1>6, <2>2 DEF InLine, NotLater
  <2>3. CASE i <= a + b /\ a + b < j
    BY <1>1, <1>5, <1>6, <2>3 DEF InLine, NotLater
  <2>4. CASE a < i /\ j <= a + b
    <3> DEFINE k == i - a  l == j - a
    <3>1. a < j /\ i <= a + b
      BY <1>1, <1>8, <2>4
    <3>2. k \in 1..b /\ Queue[i] = waiting[k]
      BY <1>5, <2>4, <3>1
    <3>3. l \in 1..b /\ Queue[j] = waiting[l]
      BY <1>5, <2>4, <3>1
    <3>4. k < l
      BY <1>1, <1>8
    <3> HIDE DEF k, l
    <3> QED
      BY <1>7, <3>2, <3>3, <3>4
  <2>5. CASE a + b < i
    <3> DEFINE k == i - (a + b)  l == j - (a + b)
    <3>1. a + b < j
      BY <1>1, <1>8, <2>5
    <3>2. k \in 1..c /\ Queue[i] = pending[k]
      BY <1>5, <2>5
    <3>3. l \in 1..c /\ Queue[j] = pending[l]
      BY <1>5, <3>1
    <3>4. k < l
      BY <1>1, <1>8
    <3> HIDE DEF k, l
    <3> QED
      BY <1>7, <3>2, <3>3, <3>4
  <2> QED
    BY <1>1, <1>8, <2>1, <2>2, <2>3, <2>4, <2>5
<1> QED
  BY <1>4, <1>8 DEF ArrivalOrder

\* Through admissions, preemptions and re-admissions, running before waiting
\* before pending is in order of arrival.
THEOREM ServedInOrder == Spec => []ArrivalOrder
<1>1. Init => InLine
  BY InitInLine
<1>2. TypeOK /\ InLine /\ [Next]_vars => InLine'
  BY NextInLine
<1>3. TypeOK /\ InLine => ArrivalOrder
  BY QueueInOrder
<1> QED
  BY <1>1, <1>2, <1>3, TypeCorrect, PTL DEF Spec

-----------------------------------------------------------------------------
(* Nobody lost, nobody twice: a request is in one place of one queue until *)
(* it has finished, and in none once it is released.                       *)

\* The loop of a step that simulate() is in, release() and the publishing of
\* blocks included, and the requests it has not turned to yet.
Loop == IF pc = "retire" THEN ret
        ELSE IF pc = "publish gen" THEN "decode"
        ELSE IF pc \in {"preempt", "retry"} THEN "alloc"
        ELSE IF pc = "publish" THEN "prefill" ELSE pc

Left == IF pc \in {"retire", "publish gen"} THEN Range(Tail(todo)) ELSE Range(todo)

\* The lists a step is made of: nobody is in one twice, nobody in one has not
\* arrived yet, and who is to decode has had the first token.
ListsOK ==
  /\ IsInjective(todo) /\ IsInjective(batch)
  /\ (Range(todo) \cup Range(batch)) \cap Range(pending) = {}
  /\ \A r \in Range(batch) : OutputLen(r) > 1
  /\ Loop \in {"plan", "alloc"} => Range(todo) \cap Range(batch) = {}
  /\ Loop = "alloc" => \A r \in Range(todo) : OutputLen(r) > 1
  /\ Loop \in {"plan", "first"} => Left \subseteq Range(running)
  /\ Loop = "plan" => Range(batch) \subseteq Range(running)
  /\ Loop \in {"decode", "finish"} => Range(todo) \subseteq Range(batch)
  /\ pc = "retire" => /\ victim = Head(todo) /\ victim \notin Range(running)
                      /\ ret \in {"first", "finish"}
  /\ pc \in {"admit", "unmatch"} => ret \in {"idle", "loop"}

\* A request of one token is gone when it has that token, so it never decodes.
ShortOK ==
  \A r \in Requests : OutputLen(r) <= 1 =>
    /\ ~reqs[r].finish => reqs[r].generated = 0
    /\ r \in Range(running) /\ Prefilled(r) =>
         Loop = "prefill" \/ (Loop = "first" /\ r \in Left)

\* A request that was preempted after it had been put in the batch decodes one
\* token while it waits, which does not complete it.
GhostOK ==
  \A r \in Range(waiting) :
    /\ Loop \in {"plan", "alloc", "decode"} /\ r \in Left => reqs[r].generated = 0
    /\ Loop \in {"alloc", "prefill", "first"} /\ r \in Range(batch) => reqs[r].generated = 0
    /\ pc = "publish gen" /\ r = Head(todo) => reqs[r].generated = 1

\* A request is finished when it is complete, and leaves running in the same step.
DoneOK ==
  /\ \A r \in Requests :
       /\ ~reqs[r].finish => r \in Range(running) \cup Range(waiting) \cup Range(pending)
       /\ reqs[r].finish => r \notin Range(waiting) \cup Range(pending)
       /\ reqs[r].finish /\ r \in Range(running) =>
            /\ Complete(r)
            /\ (Loop = "decode" /\ r \in Range(batch)) \/ (Loop = "finish" /\ r \in Left)
  /\ Loop = "decode" =>
       \A r \in Range(batch) \ Range(todo) : Complete(r) => reqs[r].finish
  /\ Loop = "finish" =>
       \A r \in Range(todo) : Complete(r) => reqs[r].finish

Accounted == ListsOK /\ ShortOK /\ GhostOK /\ DoneOK

\* Where no step is being made.
Outer == {"loop", "arrive", "idle", "admit", "unmatch", "done", "stuck", "too small"}

-----------------------------------------------------------------------------
(* Facts every step uses.                                                  *)

LEMMA RangeFacts ==
  ASSUME TypeOK
  PROVE  /\ Range(todo) \subseteq Requests /\ Range(batch) \subseteq Requests
         /\ Range(running) \subseteq Requests /\ Range(waiting) \subseteq Requests
         /\ Range(pending) \subseteq Requests /\ Left \subseteq Range(todo)
         /\ Range(<<>>) = {} /\ IsInjective(<<>>)
<1>1. \A s \in {todo, batch, running, waiting, pending} : Range(s) \subseteq Requests
  BY RangeIs DEF TypeOK
<1>2. Range(Tail(todo)) \subseteq Range(todo)
  <2>1. CASE todo = <<>>
    BY <2>1 DEF Range
  <2>2. CASE todo # <<>>
    BY <2>2, TailDistinct DEF TypeOK
  <2> QED
    BY <2>1, <2>2
<1>3. Range(<<>>) = {} /\ IsInjective(<<>>)
  BY DEF Range, IsInjective
<1> QED
  BY <1>1, <1>2, <1>3, Zenon DEF Left

\* The trace stays, and with it the requests.
LEMMA SameTrace ==
  ASSUME UNCHANGED trace
  PROVE  /\ Requests' = Requests
         /\ \A r : OutputLen(r)' = OutputLen(r) /\ PromptLen(r)' = PromptLen(r)
  BY DEF Requests, OutputLen, PromptLen

\* Outside a step nothing is asked of the loop.
LEMMA OuterStep ==
  ASSUME TypeOK, Accounted, pc \in Outer, pc' \in Outer,
         pc' \in {"admit", "unmatch"} => ret' \in {"idle", "loop"},
         UNCHANGED <<trace, queues, reqs, step>>
  PROVE  Accounted'
<1>1. Loop = pc /\ Loop' = pc'
  BY Zenon DEF Loop, Outer
<1>2. /\ Requests' = Requests
      /\ \A r : OutputLen(r)' = OutputLen(r) /\ PromptLen(r)' = PromptLen(r)
  BY SameTrace
<1>3. ListsOK'
  BY <1>1, <1>2, Zenon DEF Accounted, ListsOK, Outer, queues, step
<1>4. ShortOK'
  BY <1>1, <1>2, Zenon DEF Accounted, ShortOK, Outer, queues, Prefilled
<1>5. GhostOK'
  BY <1>1, Zenon DEF GhostOK, Outer
<1>6. DoneOK'
  BY <1>1, <1>2, Zenon DEF Accounted, DoneOK, Outer, queues, Complete
<1> QED
  BY <1>3, <1>4, <1>5, <1>6 DEF Accounted

\* A step that changes neither list nor place, and completes no prefill.
LEMMA SameStep ==
  ASSUME TypeOK, Accounted,
         UNCHANGED <<trace, queues, todo, batch, pc, ret, victim>>,
         \A r \in Requests :
           /\ reqs'[r].generated = reqs[r].generated /\ reqs'[r].finish = reqs[r].finish
           /\ reqs'[r].prefilled = reqs[r].prefilled \/ Loop = "prefill"
  PROVE  Accounted'
<1>1. Loop' = Loop /\ Left' = Left
  BY Zenon DEF Loop, Left
<1>2. /\ Requests' = Requests
      /\ \A r : OutputLen(r)' = OutputLen(r) /\ PromptLen(r)' = PromptLen(r)
  BY SameTrace
<1>3. ListsOK'
  BY <1>1, <1>2 DEF Accounted, ListsOK, queues
<1>4. ShortOK'
  BY <1>1, <1>2 DEF Accounted, ShortOK, queues, Prefilled
<1>5. GhostOK'
  BY <1>1, <1>2, RangeFacts, Zenon DEF Accounted, GhostOK, queues
<1>6. DoneOK'
  BY <1>1, <1>2, RangeFacts DEF Accounted, DoneOK, queues, Complete
<1> QED
  BY <1>3, <1>4, <1>5, <1>6 DEF Accounted

\* The head of todo, and what is left without it.
LEMMA HeadTaken ==
  ASSUME TypeOK, ListsOK, todo # <<>>
  PROVE  /\ Head(todo) \in Range(todo) /\ Head(todo) \in Requests
         /\ Range(Tail(todo)) = Range(todo) \ {Head(todo)} /\ IsInjective(Tail(todo))
         /\ Range(Append(batch, Head(todo))) = Range(batch) \cup {Head(todo)}
         /\ Head(todo) \notin Range(batch) => IsInjective(Append(batch, Head(todo)))
<1>1. todo \in Seq(Requests) /\ batch \in Seq(Requests) /\ IsInjective(todo) /\ IsInjective(batch)
  BY DEF TypeOK, ListsOK
<1>2. Head(todo) \in Requests
  BY <1>1, TailDistinct
<1> QED
  BY <1>1, <1>2, TailDistinct, AppendDistinct

\* The fields that count who is served.
Untouched == \A r \in Requests : /\ reqs'[r].generated = reqs[r].generated
                                 /\ reqs'[r].finish = reqs[r].finish
                                 /\ reqs'[r].prefilled = reqs[r].prefilled

\* A step that only changes the lists keeps the books if it keeps the lists in
\* order and what is left to do is no more than it was.
LEMMA ListStep ==
  ASSUME TypeOK, Accounted, UNCHANGED <<trace, queues>>, Untouched,
         ListsOK',
         \A r \in Requests : OutputLen(r) <= 1 /\ r \in Range(running) /\ Prefilled(r) =>
           Loop' = "prefill" \/ (Loop' = "first" /\ r \in Left'),
         GhostOK',
         \A r \in Requests : reqs[r].finish /\ r \in Range(running) =>
           \/ Loop' = "decode" /\ r \in Range(batch')
           \/ Loop' = "finish" /\ r \in Left',
         Loop' = "decode" => \A r \in Range(batch') \ Range(todo') : Complete(r) => reqs[r].finish,
         Loop' = "finish" => \A r \in Range(todo') : Complete(r) => reqs[r].finish,
         Range(todo') \subseteq Requests, Range(batch') \subseteq Requests
  PROVE  Accounted'
<1>1. /\ Requests' = Requests
      /\ \A r : OutputLen(r)' = OutputLen(r) /\ PromptLen(r)' = PromptLen(r)
  BY SameTrace
<1>2. ShortOK'
  BY <1>1 DEF Accounted, ShortOK, queues, Prefilled, Untouched
<1>3. DoneOK'
  <2>1. \A r \in Requests : Complete(r)' <=> Complete(r)
    BY <1>1 DEF Complete, Untouched
  <2> QED
    BY <1>1, <2>1 DEF Accounted, DoneOK, queues, Untouched
<1> QED
  BY <1>2, <1>3 DEF Accounted

-----------------------------------------------------------------------------
(* The decode batch.                                                       *)

LEMMA BeginStepStep ==
  ASSUME TypeOK, InLine, Accounted, BeginStep
  PROVE  Accounted'
<1>1. /\ UNCHANGED <<trace, queues, reqs>> /\ todo' = running /\ batch' = <<>>
      /\ Loop = "idle" /\ pc' = "plan" /\ Loop' = "plan" /\ Left' = Range(running)
  BY DEF BeginStep, fixed, Loop, Left
<1>2. \A r : OutputLen(r)' = OutputLen(r)
  BY <1>1, SameTrace
<1>3. ListsOK'
  BY <1>1, <1>2, RangeFacts DEF Accounted, ListsOK, InLine, queues
<1>4. GhostOK'
  BY <1>1, RangeFacts DEF GhostOK, InLine, queues
<1> QED
  BY <1>1, <1>3, <1>4, ListStep, RangeFacts DEF Accounted, ShortOK, DoneOK, Untouched

LEMMA PlanDecodeStep ==
  ASSUME TypeOK, InLine, Accounted, PlanDecode
  PROVE  Accounted'
<1>1. /\ UNCHANGED <<trace, queues, reqs>> /\ todo' = Tail(todo) /\ batch' = Append(batch, Head(todo))
      /\ Loop = "plan" /\ pc' = "plan" /\ Loop' = "plan" /\ Left = Range(todo)
      /\ Left' = Range(todo') /\ todo # <<>> /\ Prefilled(Head(todo))
  BY DEF PlanDecode, fixed, Loop, Left
<1>2. \A r : OutputLen(r)' = OutputLen(r)
  BY <1>1, SameTrace
<1>3. /\ Head(todo) \in Range(todo) /\ Head(todo) \in Requests
      /\ Range(todo') = Range(todo) \ {Head(todo)} /\ IsInjective(todo')
      /\ Head(todo) \notin Range(batch)
      /\ Range(batch') = Range(batch) \cup {Head(todo)} /\ IsInjective(batch')
  BY <1>1, HeadTaken DEF Accounted, ListsOK
<1>4. OutputLen(Head(todo)) > 1
  <2>1. Head(todo) \in Range(running) /\ OutputLen(Head(todo)) \in Nat
    BY <1>1, <1>3, TraceFacts DEF Accounted, ListsOK
  <2> QED
    BY <1>1, <1>3, <2>1 DEF Accounted, ShortOK
<1>5. ListsOK'
  BY <1>1, <1>2, <1>3, <1>4 DEF Accounted, ListsOK, queues
<1>6. GhostOK'
  BY <1>1, <1>3, Zenon DEF Accounted, ListsOK, GhostOK, InLine, queues
<1> QED
  BY <1>1, <1>3, <1>5, <1>6, ListStep, RangeFacts DEF Accounted, ShortOK, DoneOK, Untouched

LEMMA BeginAllocStep ==
  ASSUME TypeOK, InLine, Accounted, BeginAlloc
  PROVE  Accounted'
<1>1. /\ UNCHANGED <<trace, queues, reqs>> /\ todo' = batch /\ batch' = <<>>
      /\ Loop = "plan" /\ pc' = "alloc" /\ Loop' = "alloc" /\ Left' = Range(batch)
  BY DEF BeginAlloc, fixed, Loop, Left
<1>2. \A r : OutputLen(r)' = OutputLen(r)
  BY <1>1, SameTrace
<1>3. ListsOK'
  BY <1>1, <1>2, RangeFacts DEF Accounted, ListsOK, queues
<1>4. GhostOK'
  BY <1>1, RangeFacts, Zenon DEF Accounted, ListsOK, GhostOK, InLine, queues
<1> QED
  BY <1>1, <1>3, <1>4, ListStep, RangeFacts DEF Accounted, ShortOK, DoneOK, Untouched

\* AllocNone, and Alloc once there is a block.
LEMMA TakenStep ==
  ASSUME TypeOK, Accounted, UNCHANGED <<trace, queues>>, Untouched, todo # <<>>,
         pc \in {"alloc", "retry"}, pc' = "alloc",
         todo' = Tail(todo), batch' = Append(batch, Head(todo))
  PROVE  Accounted'
<1>1. Loop = "alloc" /\ Loop' = "alloc" /\ Left = Range(todo) /\ Left' = Range(todo')
  BY Zenon DEF Loop, Left
<1>2. \A r : OutputLen(r)' = OutputLen(r)
  BY SameTrace
<1>3. /\ Head(todo) \in Range(todo) /\ Head(todo) \in Requests
      /\ Range(todo') = Range(todo) \ {Head(todo)} /\ IsInjective(todo')
      /\ Head(todo) \notin Range(batch)
      /\ Range(batch') = Range(batch) \cup {Head(todo)} /\ IsInjective(batch')
  BY <1>1, HeadTaken DEF Accounted, ListsOK
<1>4. ListsOK'
  BY <1>1, <1>2, <1>3 DEF Accounted, ListsOK, queues
<1>5. GhostOK'
  BY <1>1, <1>3, RangeFacts, Zenon DEF Accounted, GhostOK, queues, Untouched
<1> QED
  BY <1>1, <1>3, <1>4, <1>5, ListStep, RangeFacts DEF Accounted, ShortOK, DoneOK

LEMMA AllocStep ==
  ASSUME TypeOK, Accounted, Alloc
  PROVE  Accounted'
<1>1. /\ UNCHANGED <<trace, queues>> /\ todo # <<>> /\ pc \in {"alloc", "retry"} /\ pc' = "alloc"
      /\ todo' = Tail(todo) /\ batch' = Append(batch, Head(todo))
      /\ reqs' = [reqs EXCEPT ![Head(todo)].alloc = @ + 1]
  BY DEF Alloc, fixed
<1>2. Untouched
  <2>1. Head(todo) \in Requests
    BY <1>1, TailDistinct DEF TypeOK
  <2> QED
    BY <1>1, <2>1, ReqFacts DEF Untouched, TypeOK, ReqFields
<1> QED
  BY <1>1, <1>2, TakenStep

\* SelfPreempted and Stall: the sequence is in neither list.
LEMMA DroppedStep ==
  ASSUME TypeOK, Accounted, UNCHANGED <<trace, queues, reqs, batch>>, todo # <<>>,
         pc = "retry", pc' = "alloc", todo' = Tail(todo)
  PROVE  Accounted'
<1>1. Loop = "alloc" /\ Loop' = "alloc" /\ Left = Range(todo) /\ Left' = Range(todo')
  BY DEF Loop, Left
<1>2. \A r : OutputLen(r)' = OutputLen(r)
  BY SameTrace
<1>3. Range(todo') = Range(todo) \ {Head(todo)} /\ IsInjective(todo')
  BY HeadTaken DEF Accounted
<1>4. ListsOK'
  BY <1>1, <1>2, <1>3 DEF Accounted, ListsOK, queues
<1>5. GhostOK'
  BY <1>1, <1>3 DEF Accounted, GhostOK, queues
<1> QED
  BY <1>1, <1>3, <1>4, <1>5, ListStep, RangeFacts DEF Accounted, ShortOK, DoneOK, Untouched

LEMMA PreemptStep ==
  ASSUME TypeOK, Accounted, Preempt
  PROVE  Accounted'
<1>1. /\ UNCHANGED <<trace, queues, reqs, todo, batch, ret>>
      /\ pc = "alloc" /\ pc' \in {"preempt", "retry"}
      /\ Loop = "alloc" /\ Loop' = "alloc" /\ Left = Range(todo) /\ Left' = Left
  BY DEF Preempt, fixed, step, Loop, Left
<1>2. \A r : OutputLen(r)' = OutputLen(r)
  BY <1>1, SameTrace
<1>3. ListsOK'
  BY <1>1, <1>2 DEF Accounted, ListsOK, queues
<1>4. GhostOK'
  BY <1>1, Zenon DEF Accounted, GhostOK, queues
<1> QED
  BY <1>1, <1>3, <1>4, ListStep, RangeFacts DEF Accounted, ShortOK, DoneOK, Untouched

\* The victim had not finished; it waits with no token.
LEMMA RequeueStep ==
  ASSUME TypeOK, InLine, Accounted, Requeue
  PROVE  Accounted'
<1>1. /\ UNCHANGED <<trace, pending, todo, batch, ret, victim>>
      /\ pc = "preempt" /\ pc' = "retry"
      /\ Loop = "alloc" /\ Loop' = "alloc" /\ Left = Range(todo) /\ Left' = Left
      /\ running' = RemoveFirst(running, victim) /\ waiting' = <<victim>> \o waiting
  BY DEF Requeue, fixed, step, call, Loop, Left
<1>2. /\ victim \in Range(running) /\ victim \in Requests /\ victim \notin Range(waiting)
      /\ victim \notin Range(pending)
  BY <1>1, RangeFacts DEF InLine, VictimLatest
<1>3. /\ \A r \in Requests \ {victim} : reqs'[r] = reqs[r]
      /\ reqs'[victim].generated = 0 /\ reqs'[victim].prefilled = 0
      /\ reqs'[victim].finish = reqs[victim].finish
  <2>1. reqs' = [reqs EXCEPT ![victim].alloc = 0, ![victim].prefilled = 0,
                             ![victim].generated = 0, ![victim].cached = 0,
                             ![victim].inserted = 0, ![victim].genInserted = 0]
    BY DEF Requeue
  <2> QED
    BY <1>2, <2>1 DEF TypeOK, ReqFields
<1>4. Range(running') = Range(running) \ {victim}
  BY <1>1, <1>2, RemoveFirstDistinct DEF InLine, TypeOK
<1>5. Range(waiting') = {victim} \cup Range(waiting)
  <2>1. waiting \in Seq(Requests) /\ InOrder(waiting) /\ NotLater({victim}, Range(waiting))
    BY <1>2 DEF TypeOK, InLine, NotLater
  <2> QED
    BY <1>1, <1>2, <2>1, OrderPush
<1>6. /\ Requests' = Requests
      /\ \A r : OutputLen(r)' = OutputLen(r) /\ PromptLen(r)' = PromptLen(r)
  BY <1>1, SameTrace
<1>7. ListsOK'
  BY <1>1, <1>6 DEF Accounted, ListsOK
<1>8. ShortOK'
  BY <1>1, <1>2, <1>3, <1>4, <1>6 DEF Accounted, ShortOK, Prefilled
<1>9. GhostOK'
  BY <1>1, <1>2, <1>3, <1>5, RangeFacts DEF Accounted, GhostOK
<1>10. DoneOK'
  BY <1>1, <1>2, <1>3, <1>4, <1>5, <1>6 DEF Accounted, DoneOK, Complete
<1> QED
  BY <1>7, <1>8, <1>9, <1>10 DEF Accounted

-----------------------------------------------------------------------------
(* Prefill.                                                                *)

LEMMA BeginPrefillStep ==
  ASSUME TypeOK, InLine, Accounted, BeginPrefill
  PROVE  Accounted'
<1>1. /\ UNCHANGED <<trace, queues, reqs, batch>> /\ todo' = running
      /\ Loop = "alloc" /\ pc' = "prefill" /\ Loop' = "prefill"
  BY DEF BeginPrefill, fixed, Loop
<1>2. \A r : OutputLen(r)' = OutputLen(r)
  BY <1>1, SameTrace
<1>3. ListsOK'
  BY <1>1, <1>2 DEF Accounted, ListsOK, InLine, queues
<1>4. GhostOK'
  BY <1>1, Zenon DEF Accounted, GhostOK, queues
<1> QED
  BY <1>1, <1>3, <1>4, ListStep, RangeFacts DEF Accounted, DoneOK, Untouched

LEMMA PrefillChunkStep ==
  ASSUME TypeOK, Accounted, PrefillChunk
  PROVE  Accounted'
<1> DEFINE h == Head(todo)
           chunk == Smaller(budget, PromptLen(h) - reqs[h].prefilled)
<1>1. /\ UNCHANGED <<trace, queues, todo, batch, victim>>
      /\ Loop = "prefill" /\ pc' = "publish" /\ Loop' = "prefill"
      /\ Left' = Left /\ todo # <<>>
      /\ reqs' = [reqs EXCEPT ![h].prefilled = @ + chunk]
  BY DEF PrefillChunk, PrefillTurn, fixed, call, Loop, Left
<1>2. h \in Requests
  BY <1>1, TailDistinct DEF TypeOK
<1>3. \A r \in Requests : reqs'[r].generated = reqs[r].generated /\ reqs'[r].finish = reqs[r].finish
  BY <1>1, <1>2 DEF TypeOK, ReqFields
<1>4. /\ Requests' = Requests
      /\ \A r : OutputLen(r)' = OutputLen(r) /\ PromptLen(r)' = PromptLen(r)
  BY <1>1, SameTrace
<1>5. ListsOK'
  BY <1>1, <1>4 DEF Accounted, ListsOK, queues
<1>6. ShortOK'
  BY <1>1, <1>3, <1>4 DEF Accounted, ShortOK
<1>7. GhostOK'
  BY <1>1, <1>3, RangeFacts, Zenon DEF Accounted, GhostOK, queues
<1>8. DoneOK'
  BY <1>1, <1>3, <1>4, RangeFacts DEF Accounted, DoneOK, queues, Complete
<1> QED
  BY <1>5, <1>6, <1>7, <1>8 DEF Accounted

\* The end of a turn of the prefill loop, with or without a chunk.
LEMMA TurnOverStep ==
  ASSUME TypeOK, Accounted, UNCHANGED <<trace, queues, reqs, batch>>, todo # <<>>,
         pc \in {"prefill", "publish"}, pc' = "prefill", todo' = Tail(todo)
  PROVE  Accounted'
<1>1. Loop = "prefill" /\ Loop' = "prefill"
  BY Zenon DEF Loop
<1>2. \A r : OutputLen(r)' = OutputLen(r)
  BY SameTrace
<1>3. Range(todo') = Range(todo) \ {Head(todo)} /\ IsInjective(todo')
  BY HeadTaken DEF Accounted
<1>4. ListsOK'
  BY <1>1, <1>2, <1>3 DEF Accounted, ListsOK, queues
<1>5. GhostOK'
  BY <1>1, Zenon DEF Accounted, GhostOK, queues
<1> QED
  BY <1>1, <1>3, <1>4, <1>5, ListStep, RangeFacts DEF Accounted, DoneOK, Untouched

LEMMA ElapseStep ==
  ASSUME TypeOK, InLine, Accounted, Elapse
  PROVE  Accounted'
<1>1. /\ UNCHANGED <<trace, queues, reqs, batch>> /\ todo' = running
      /\ Loop = "prefill" /\ pc' = "first" /\ Loop' = "first" /\ Left' = Range(running)
  BY DEF Elapse, Loop, Left
<1>2. \A r : OutputLen(r)' = OutputLen(r)
  BY <1>1, SameTrace
<1>3. ListsOK'
  BY <1>1, <1>2 DEF Accounted, ListsOK, InLine, queues
<1>4. GhostOK'
  BY <1>1, Zenon DEF Accounted, GhostOK, queues
<1> QED
  BY <1>1, <1>3, <1>4, ListStep, RangeFacts DEF Accounted, DoneOK, Untouched

-----------------------------------------------------------------------------
(* Tokens.                                                                 *)

\* Who has the first token as the only one is finished and leaves running.
LEMMA FirstTokenStep ==
  ASSUME TypeOK, InLine, Accounted, FirstToken
  PROVE  Accounted'
<1> DEFINE h == Head(todo)
           last == OutputLen(h) <= 1
<1>1. /\ UNCHANGED <<trace, pending, waiting, batch>> /\ todo # <<>>
      /\ pc = "first" /\ Loop = "first" /\ Left = Range(todo) /\ IsFirstToken(h)
      /\ reqs' = [reqs EXCEPT ![h].ttft = TRUE, ![h].generated = 1, ![h].finish = @ \/ last]
  BY DEF FirstToken, fixed, Loop, Left
<1>2. /\ h \in Range(todo) /\ h \in Requests /\ h \in Range(running)
      /\ Range(Tail(todo)) = Range(todo) \ {h} /\ IsInjective(Tail(todo))
      /\ OutputLen(h) \in Nat /\ h \notin Range(batch)
      /\ h \notin Range(waiting) /\ h \notin Range(pending)
  BY <1>1, HeadTaken, TraceFacts DEF Accounted, ListsOK, InLine, IsFirstToken
<1>3. ~reqs[h].finish
  BY <1>1, <1>2 DEF Accounted, DoneOK
<1>4. /\ \A r \in Requests \ {h} : reqs'[r] = reqs[r]
      /\ reqs'[h].generated = 1 /\ (reqs'[h].finish <=> last)
      /\ reqs'[h].prefilled = reqs[h].prefilled
  <2>1. reqs \in [Requests -> ReqFields]
    BY DEF TypeOK
  <2> HIDE DEF h, last
  <2>2. /\ \A r \in Requests \ {h} : reqs'[r] = reqs[r]
        /\ reqs'[h].generated = 1 /\ reqs'[h].finish = (reqs[h].finish \/ last)
        /\ reqs'[h].prefilled = reqs[h].prefilled
    BY <1>1, <1>2, <2>1 DEF ReqFields
  <2> QED
    BY <1>3, <2>2
<1>5. /\ Requests' = Requests
      /\ \A r : OutputLen(r)' = OutputLen(r) /\ PromptLen(r)' = PromptLen(r)
  BY <1>1, SameTrace
<1>6. CASE last
  <2>1. /\ running' = RemoveFirst(running, h) /\ UNCHANGED todo
        /\ pc' = "retire" /\ victim' = h /\ ret' = "first"
        /\ Loop' = "first" /\ Left' = Range(Tail(todo))
    BY <1>6 DEF FirstToken, Loop, Left
  <2>2. Range(running') = Range(running) \ {h}
    BY <1>2, <2>1, RemoveFirstDistinct DEF InLine, TypeOK
  <2> HIDE DEF h, last
  <2>3. ListsOK'
    BY <1>1, <1>2, <1>5, <2>1, <2>2 DEF Accounted, ListsOK, h
  <2>4. ShortOK'
    BY <1>1, <1>2, <1>4, <1>5, <1>6, <2>1, <2>2 DEF Accounted, ShortOK, Prefilled
  <2>5. GhostOK'
    BY <1>1, <1>2, <1>4, <2>1, RangeFacts, ZenonT(30) DEF Accounted, GhostOK
  <2>6. DoneOK'
    BY <1>1, <1>2, <1>4, <1>5, <1>6, <2>1, <2>2 DEF Accounted, DoneOK, Complete
  <2> QED
    BY <2>3, <2>4, <2>5, <2>6 DEF Accounted
<1>7. CASE ~last
  <2>1. /\ todo' = Tail(todo) /\ UNCHANGED <<running, pc, victim, ret>>
        /\ Loop' = "first" /\ Left' = Range(Tail(todo))
    BY <1>1, <1>7 DEF FirstToken, Loop, Left
  <2> HIDE DEF h, last
  <2>2. ListsOK'
    BY <1>1, <1>2, <1>5, <2>1 DEF Accounted, ListsOK
  <2>3. ShortOK'
    BY <1>1, <1>2, <1>4, <1>5, <1>7, <2>1 DEF Accounted, ShortOK, Prefilled, last
  <2>4. GhostOK'
    BY <1>1, <1>2, <1>4, <2>1, RangeFacts, ZenonT(30) DEF Accounted, GhostOK
  <2>5. DoneOK'
    BY <1>1, <1>2, <1>4, <1>5, <1>7, <2>1 DEF Accounted, DoneOK, Complete
  <2> QED
    BY <2>2, <2>3, <2>4, <2>5 DEF Accounted
<1> QED
  BY <1>6, <1>7

\* A step through a list that passes over its head.
LEMMA SkipStep ==
  ASSUME TypeOK, InLine, Accounted, Skip
  PROVE  Accounted'
<1> DEFINE h == Head(todo)
<1>1. /\ UNCHANGED <<trace, queues, reqs, pc, batch, ret, victim>> /\ todo # <<>>
      /\ todo' = Tail(todo) /\ pc \in {"plan", "prefill", "first", "finish"}
      /\ Loop = pc /\ Loop' = Loop /\ Left = Range(todo) /\ Left' = Range(todo')
  BY Zenon DEF Skip, fixed, call, Loop, Left
<1>2. /\ h \in Range(todo) /\ h \in Requests
      /\ Range(todo') = Range(todo) \ {h} /\ IsInjective(todo')
  BY <1>1, HeadTaken DEF Accounted
<1>3. \A r : OutputLen(r)' = OutputLen(r)
  BY <1>1, SameTrace
<1>4. ListsOK'
  BY <1>1, <1>2, <1>3 DEF Accounted, ListsOK, queues
<1>5. GhostOK'
  BY <1>1, <1>2, Zenon DEF Accounted, GhostOK, queues
<1>6. ASSUME pc = "first", OutputLen(h) <= 1, h \in Range(running), Prefilled(h)
      PROVE  FALSE
  <2>1. ~IsFirstToken(h)
    BY <1>6 DEF Skip
  <2>2. ~reqs[h].finish
    BY <1>1, <1>2, <1>6 DEF Accounted, DoneOK
  <2>3. reqs[h].generated = 0
    BY <1>2, <1>6, <2>2 DEF Accounted, ShortOK
  <2>4. h \notin Range(batch)
    BY <1>2, <1>6, TraceFacts DEF Accounted, ListsOK
  <2> QED
    BY <1>6, <2>1, <2>3, <2>4 DEF IsFirstToken
<1>7. ASSUME pc = "finish" PROVE ~Complete(h)
  BY <1>7 DEF Skip
<1>8. \A r \in Requests : OutputLen(r) <= 1 /\ r \in Range(running) /\ Prefilled(r) =>
        Loop' = "prefill" \/ (Loop' = "first" /\ r \in Left')
  BY <1>1, <1>2, <1>6 DEF Accounted, ShortOK
<1>9. \A r \in Requests : reqs[r].finish /\ r \in Range(running) =>
        \/ Loop' = "decode" /\ r \in Range(batch')
        \/ Loop' = "finish" /\ r \in Left'
  BY <1>1, <1>2, <1>7 DEF Accounted, DoneOK
<1> QED
  BY <1>1, <1>2, <1>4, <1>5, <1>8, <1>9, ListStep, RangeFacts DEF Accounted, DoneOK, Untouched

LEMMA BeginDecodeStep ==
  ASSUME TypeOK, InLine, Accounted, BeginDecode
  PROVE  Accounted'
<1>1. /\ UNCHANGED <<trace, queues, reqs, batch>> /\ todo = <<>> /\ todo' = batch
      /\ Loop = "first" /\ Left = Range(todo)
      /\ pc' = "decode" /\ Loop' = "decode" /\ Left' = Range(batch)
  BY DEF BeginDecode, fixed, Loop, Left
<1>2. \A r : OutputLen(r)' = OutputLen(r)
  BY <1>1, SameTrace
<1>3. ListsOK'
  BY <1>1, <1>2 DEF Accounted, ListsOK, queues
<1>4. GhostOK'
  BY <1>1, Zenon DEF Accounted, GhostOK, queues
<1> QED
  BY <1>1, <1>3, <1>4, ListStep, RangeFacts DEF Accounted, ShortOK, DoneOK, Untouched

LEMMA DecodeTokenStep ==
  ASSUME TypeOK, Accounted, DecodeToken
  PROVE  Accounted'
<1> DEFINE h == Head(todo)
<1>1. /\ UNCHANGED <<trace, queues, todo, batch, ret, victim>> /\ todo # <<>>
      /\ pc = "decode" /\ pc' = "publish gen" /\ Loop = "decode" /\ Loop' = "decode"
      /\ Left = Range(todo) /\ Left' = Range(Tail(todo))
  BY Zenon DEF DecodeToken, fixed, step, call, Loop, Left
<1>2. /\ h \in Range(todo) /\ h \in Requests /\ h \in Range(batch)
      /\ Range(Tail(todo)) = Range(todo) \ {h}
  BY <1>1, HeadTaken, Zenon DEF Accounted, ListsOK
<1>3. /\ \A r \in Requests \ {h} : reqs'[r] = reqs[r]
      /\ reqs'[h].generated = reqs[h].generated + 1 /\ reqs'[h].finish = reqs[h].finish
      /\ reqs'[h].prefilled = reqs[h].prefilled /\ reqs[h].generated \in Nat
  <2>1. reqs \in [Requests -> ReqFields] /\ reqs[h].generated \in Nat
    BY <1>2, ReqFacts DEF TypeOK
  <2> QED
    BY <1>2, <2>1, Zenon DEF DecodeToken, ReqFields
<1>4. /\ Requests' = Requests
      /\ \A r : OutputLen(r)' = OutputLen(r) /\ PromptLen(r)' = PromptLen(r)
  BY <1>1, SameTrace, Zenon
<1>5. OutputLen(h) > 1 /\ OutputLen(h) \in Nat
  BY <1>2, TraceFacts DEF Accounted, ListsOK
<1> HIDE DEF h
<1>6. ListsOK'
  BY <1>1, <1>4, Zenon DEF Accounted, ListsOK, queues
<1>7. ShortOK'
  <2>1. \A r \in Requests : Prefilled(r)' <=> Prefilled(r)
    BY <1>2, <1>3, <1>4 DEF Prefilled
  <2>2. \A r \in Requests : OutputLen(r) <= 1 => r # h
    BY <1>5
  <2> QED
    BY <1>1, <1>3, <1>4, <2>1, <2>2, Zenon DEF Accounted, ShortOK, queues
<1>8. GhostOK'
  <2>1. ASSUME NEW r \in Range(waiting)
        PROVE  /\ r # h /\ r \in Range(todo) => reqs'[r].generated = 0
               /\ r = h => reqs'[r].generated = 1
    <3>1. r \in Requests /\ (r \in Range(todo) => reqs[r].generated = 0)
      BY <1>1, RangeFacts, Zenon DEF Accounted, GhostOK
    <3>2. h \in Range(todo) /\ (r # h => reqs'[r] = reqs[r])
      BY <1>2, <1>3, <3>1
    <3> QED
      BY <1>3, <3>1, <3>2
  <2> QED
    BY <1>1, <1>2, <2>1, Zenon DEF GhostOK, queues, h
<1>9. DoneOK'
  <2>1. \A r \in Requests : Complete(r) => Complete(r)'
    BY <1>2, <1>3, <1>4, <1>5 DEF Complete
  <2>2. \A r \in Requests \ {h} : Complete(r)' => Complete(r)
    BY <1>3, <1>4 DEF Complete
  <2>3. \A r \in Requests : reqs'[r].finish = reqs[r].finish
    BY <1>3
  <2> QED
    BY <1>1, <1>2, <1>4, <2>1, <2>2, <2>3, RangeFacts, Zenon DEF Accounted, DoneOK, queues
<1> QED
  BY <1>6, <1>7, <1>8, <1>9 DEF Accounted

\* A sequence that waits is not complete with the token it has just decoded.
LEMMA DecodedStep ==
  ASSUME IInv, InLine, Accounted, Decoded
  PROVE  Accounted'
<1> DEFINE h == Head(todo)
<1>1. /\ UNCHANGED <<trace, queues, batch, ret, victim>> /\ todo # <<>> /\ todo' = Tail(todo)
      /\ pc = "publish gen" /\ pc' = "decode" /\ Loop = "decode" /\ Loop' = "decode"
      /\ Left = Range(Tail(todo)) /\ Left' = Range(todo')
  BY Zenon DEF Decoded, fixed, call, Loop, Left, IInv, LocalsOK
<1>2. /\ TypeOK /\ h \in Range(todo) /\ h \in Requests /\ h \in Range(batch)
      /\ Range(todo') = Range(todo) \ {h} /\ IsInjective(todo')
  BY <1>1, HeadTaken, Zenon DEF IInv, Accounted, ListsOK
<1>3. /\ \A r \in Requests \ {h} : reqs'[r] = reqs[r]
      /\ reqs'[h].generated = reqs[h].generated
      /\ reqs'[h].finish <=> (reqs[h].finish \/ Complete(h))
      /\ reqs'[h].prefilled = reqs[h].prefilled
  <2>1. reqs \in [Requests -> ReqFields]
    BY <1>2 DEF TypeOK
  <2>2. /\ \A r \in Requests \ {h} : reqs'[r] = reqs[r]
        /\ reqs'[h].generated = reqs[h].generated
        /\ reqs'[h].finish = (reqs[h].finish \/ Complete(h))
        /\ reqs'[h].prefilled = reqs[h].prefilled
    BY <1>2, <2>1, Zenon DEF Decoded, ReqFields
  <2> QED
    BY <2>2
<1>4. /\ Requests' = Requests
      /\ \A r : OutputLen(r)' = OutputLen(r) /\ PromptLen(r)' = PromptLen(r)
  BY <1>1, SameTrace, Zenon
<1>5. OutputLen(h) > 1 /\ OutputLen(h) \in Nat /\ reqs[h].generated \in Nat
  BY <1>2, TraceFacts, ReqFacts DEF Accounted, ListsOK
<1>6. Complete(h) => h \notin Range(waiting)
  <2>1. h \in Range(waiting) => reqs[h].generated = 1
    BY <1>1, Zenon DEF Accounted, GhostOK
  <2> HIDE DEF h
  <2> QED
    BY <1>5, <2>1 DEF Complete
<1>7. h \notin Range(pending)
  BY <1>2 DEF Accounted, ListsOK
<1>8. \A r \in Requests : (Prefilled(r)' <=> Prefilled(r)) /\ (Complete(r)' <=> Complete(r))
  BY <1>2, <1>3, <1>4 DEF Prefilled, Complete
<1> HIDE DEF h
<1>9. ListsOK'
  BY <1>1, <1>2, <1>4, Zenon DEF Accounted, ListsOK, queues
<1>10. ShortOK'
  <2>1. \A r \in Requests : OutputLen(r) <= 1 => r # h
    BY <1>5
  <2> QED
    BY <1>1, <1>3, <1>4, <1>8, <2>1, Zenon DEF Accounted, ShortOK, queues
<1>11. GhostOK'
  <2>1. \A r \in Range(waiting) : r \in Range(todo') => reqs'[r].generated = 0
    BY <1>1, <1>2, <1>3, RangeFacts, Zenon DEF Accounted, GhostOK, h
  <2> QED
    BY <1>1, <2>1, Zenon DEF GhostOK, queues
<1>12. DoneOK'
  <2>1. /\ reqs[h].finish => reqs'[h].finish
        /\ Complete(h) => reqs'[h].finish
        /\ reqs'[h].finish => reqs[h].finish \/ Complete(h)
    BY <1>3
  <2>2. \A r \in Requests :
          /\ ~reqs'[r].finish => r \in Range(running) \cup Range(waiting) \cup Range(pending)
          /\ reqs'[r].finish => r \notin Range(waiting) \cup Range(pending)
          /\ reqs'[r].finish /\ r \in Range(running) => Complete(r) /\ r \in Range(batch)
    BY <1>1, <1>2, <1>3, <1>6, <1>7, <2>1, Zenon DEF Accounted, DoneOK
  <2>3. \A r \in Range(batch) \ Range(todo') : Complete(r) => reqs'[r].finish
    BY <1>1, <1>2, <1>3, <2>1, RangeFacts, Zenon DEF Accounted, DoneOK
  <2>4. \A r \in Range(batch) : Complete(r)' <=> Complete(r)
    BY <1>2, <1>8, RangeFacts
  <2> QED
    BY <1>1, <1>4, <1>8, <2>2, <2>3, <2>4, Zenon DEF DoneOK, queues
<1> QED
  BY <1>9, <1>10, <1>11, <1>12 DEF Accounted

LEMMA BeginFinishStep ==
  ASSUME TypeOK, InLine, Accounted, BeginFinish
  PROVE  Accounted'
<1>1. /\ UNCHANGED <<trace, queues, reqs, batch>> /\ todo = <<>> /\ todo' = batch
      /\ pc = "decode" /\ Loop = "decode"
      /\ pc' = "finish" /\ Loop' = "finish" /\ Left' = Range(batch)
  BY DEF BeginFinish, fixed, Loop, Left
<1>2. \A r : OutputLen(r)' = OutputLen(r)
  BY <1>1, SameTrace
<1>3. ListsOK'
  BY <1>1, <1>2 DEF Accounted, ListsOK, queues
<1>4. GhostOK'
  BY <1>1 DEF GhostOK
<1>5. Range(todo) = {}
  BY <1>1 DEF Range
<1> QED
  BY <1>1, <1>3, <1>4, <1>5, ListStep, RangeFacts DEF Accounted, ShortOK, DoneOK, Untouched

\* Whoever is complete has been marked as finished, and leaves running.
LEMMA FinishStep ==
  ASSUME TypeOK, InLine, Accounted, Finish
  PROVE  Accounted'
<1> DEFINE h == Head(todo)
<1>1. /\ UNCHANGED <<trace, pending, waiting, reqs, todo, batch>> /\ todo # <<>>
      /\ running' = RemoveFirst(running, h) /\ Complete(h)
      /\ pc = "finish" /\ Loop = "finish" /\ Left = Range(todo)
      /\ pc' = "retire" /\ Loop' = "finish" /\ Left' = Range(Tail(todo))
      /\ victim' = h /\ ret' = "finish"
  BY DEF Finish, fixed, step, Loop, Left
<1>2. /\ h \in Range(todo) /\ h \in Requests /\ Range(Tail(todo)) = Range(todo) \ {h}
  BY <1>1, HeadTaken DEF Accounted
<1>3. Range(running') = Range(running) \ {h}
  <2>1. running \in Seq(Requests) /\ IsInjective(running)
    BY DEF TypeOK, InLine
  <2>2. CASE h \in Range(running)
    BY <1>1, <2>1, <2>2, RemoveFirstDistinct
  <2>3. CASE h \notin Range(running)
    <3>1. running' = running
      BY <1>1, <2>1, <2>3, RangeIs DEF RemoveFirst
    <3> QED
      BY <2>3, <3>1
  <2> QED
    BY <2>2, <2>3
<1>4. reqs[h].finish
  BY <1>1, <1>2 DEF Accounted, DoneOK
<1>5. /\ Requests' = Requests
      /\ \A r : OutputLen(r)' = OutputLen(r) /\ PromptLen(r)' = PromptLen(r)
  BY <1>1, SameTrace
<1>6. \A r : (Prefilled(r)' <=> Prefilled(r)) /\ (Complete(r)' <=> Complete(r))
  BY <1>1, <1>5 DEF Prefilled, Complete
<1>7. ListsOK'
  BY <1>1, <1>2, <1>3, <1>5 DEF Accounted, ListsOK
<1> HIDE DEF h
<1>8. ShortOK'
  BY <1>1, <1>3, <1>5, <1>6 DEF Accounted, ShortOK
<1>9. GhostOK'
  BY <1>1 DEF GhostOK
<1>10. DoneOK'
  BY <1>1, <1>2, <1>3, <1>4, <1>5, <1>6 DEF Accounted, DoneOK
<1> QED
  BY <1>7, <1>8, <1>9, <1>10 DEF Accounted

\* The end of release() for a request that has left running.
LEMMA RetiredStep ==
  ASSUME IInv, InLine, Accounted, Retired
  PROVE  Accounted'
<1>1. /\ UNCHANGED <<trace, queues, batch>> /\ todo # <<>> /\ todo' = Tail(todo)
      /\ pc = "retire" /\ pc' = ret /\ ret \in {"first", "finish"}
      /\ Loop = ret /\ Loop' = ret /\ Left = Range(Tail(todo)) /\ Left' = Left
      /\ reqs' = [reqs EXCEPT ![victim].alloc = 0] /\ victim \in Requests
  BY Zenon DEF Retired, fixed, Loop, Left, IInv, LocalsOK, Accounted, ListsOK
<1>2. /\ TypeOK /\ Range(todo') = Range(todo) \ {Head(todo)} /\ IsInjective(todo')
  BY <1>1, HeadTaken DEF IInv, Accounted
<1>3. Untouched
  BY <1>1, <1>2 DEF Untouched, TypeOK, ReqFields
<1>4. \A r : OutputLen(r)' = OutputLen(r)
  BY <1>1, SameTrace
<1>5. ListsOK'
  BY <1>1, <1>2, <1>4 DEF Accounted, ListsOK, queues
<1>6. GhostOK'
  BY <1>1, <1>2, <1>3, RangeFacts, Zenon DEF Accounted, GhostOK, queues, Untouched
<1> QED
  BY <1>1, <1>2, <1>3, <1>5, <1>6, ListStep, RangeFacts DEF Accounted, ShortOK, DoneOK

LEMMA EndStepStep ==
  ASSUME TypeOK, InLine, Accounted, EndStep
  PROVE  Accounted'
<1>1. /\ UNCHANGED <<trace, queues, reqs, todo>> /\ todo = <<>> /\ batch' = <<>>
      /\ pc = "finish" /\ Loop = "finish" /\ Left = Range(todo)
      /\ pc' = "admit" /\ Loop' = "admit" /\ ret' = "loop"
  BY DEF EndStep, fixed, Loop, Left
<1>2. \A r : OutputLen(r)' = OutputLen(r)
  BY <1>1, SameTrace
<1>3. ListsOK'
  BY <1>1, <1>2, RangeFacts DEF Accounted, ListsOK, queues
<1>4. GhostOK'
  BY <1>1 DEF GhostOK
<1>5. Range(todo) = {}
  BY <1>1 DEF Range
<1> QED
  BY <1>1, <1>3, <1>4, <1>5, ListStep, RangeFacts DEF Accounted, ShortOK, DoneOK, Untouched

-----------------------------------------------------------------------------
(* Arrivals and admissions, and the whole of Next.                         *)

LEMMA ArriveStep ==
  ASSUME TypeOK, InLine, Accounted, Arrive
  PROVE  Accounted'
<1> DEFINE h == Head(pending)
<1>1. /\ UNCHANGED <<trace, running, reqs, pc, todo, batch>> /\ pending # <<>>
      /\ waiting' = Append(waiting, h) /\ pending' = Tail(pending)
      /\ pc = "arrive" /\ Loop = "arrive" /\ Loop' = "arrive"
  BY DEF Arrive, Due, fixed, step, Loop
<1>2. /\ Range(pending') = Range(pending) \ {h} /\ h \in Range(pending) /\ h \in Requests
      /\ Range(waiting') = Range(waiting) \cup {h}
  BY <1>1, TailDistinct, AppendDistinct DEF TypeOK, InLine
<1>3. /\ Requests' = Requests
      /\ \A r : OutputLen(r)' = OutputLen(r) /\ PromptLen(r)' = PromptLen(r)
  BY <1>1, SameTrace
<1>4. \A r : (Prefilled(r)' <=> Prefilled(r)) /\ (Complete(r)' <=> Complete(r))
  BY <1>1, <1>3 DEF Prefilled, Complete
<1> HIDE DEF h
<1>5. ListsOK'
  BY <1>1, <1>2, <1>3 DEF Accounted, ListsOK
<1>6. ShortOK'
  BY <1>1, <1>3, <1>4 DEF Accounted, ShortOK
<1>7. GhostOK'
  BY <1>1 DEF GhostOK
<1>8. DoneOK'
  BY <1>1, <1>2, <1>3, <1>4 DEF Accounted, DoneOK
<1> QED
  BY <1>5, <1>6, <1>7, <1>8 DEF Accounted

\* Who is admitted has part of the prompt still to compute.
LEMMA AdmittedStep ==
  ASSUME TypeOK, InLine, Accounted, Admit
  PROVE  Accounted'
<1> DEFINE h == Head(waiting)
           reuse == Smaller(Len(matched) * BlockSize, PromptLen(h) - 1)
<1>1. /\ UNCHANGED <<trace, pending, pc, todo, batch, ret>> /\ waiting # <<>>
      /\ running' = Append(running, h) /\ waiting' = Tail(waiting)
      /\ pc = "admit" /\ Loop = "admit" /\ Loop' = "admit"
      /\ reqs' = [reqs EXCEPT ![h].pinned = matched, ![h].alloc = Need(h),
                              ![h].cached = reuse, ![h].prefilled = reuse,
                              ![h].inserted = Len(matched)]
  BY DEF Admit, Candidate, fixed, step, Loop
<1>2. /\ Range(waiting') = Range(waiting) \ {h} /\ h \in Range(waiting) /\ h \in Requests
      /\ Range(running') = Range(running) \cup {h}
  BY <1>1, TailDistinct, AppendDistinct DEF TypeOK, InLine
<1>3. /\ \A r \in Requests \ {h} : reqs'[r] = reqs[r]
      /\ reqs'[h].generated = reqs[h].generated /\ reqs'[h].finish = reqs[h].finish
      /\ reqs'[h].prefilled = reuse
  BY <1>1, <1>2, ZenonT(30) DEF TypeOK, ReqFields
<1>4. /\ Requests' = Requests
      /\ \A r : OutputLen(r)' = OutputLen(r) /\ PromptLen(r)' = PromptLen(r)
  BY <1>1, SameTrace
<1>5. \A r \in Requests : r = h => ~Prefilled(r)'
  <2>1. PromptLen(h) \in Nat \ {0} /\ Len(matched) * BlockSize \in Nat
    <3>1. Len(matched) \in Nat /\ BlockSize \in Nat
      BY LenProperties, CfgAssumption DEF TypeOK
    <3> QED
      BY <1>2, <3>1, TraceFacts
  <2>2. reuse < PromptLen(h)
    BY <2>1 DEF Smaller
  <2>3. reuse \in Int
    BY <2>1 DEF Smaller
  <2> HIDE DEF h, reuse
  <2> QED
    BY <1>3, <1>4, <2>1, <2>2, <2>3 DEF Prefilled
<1>6. /\ \A r \in Requests \ {h} : Prefilled(r)' <=> Prefilled(r)
      /\ \A r \in Requests : /\ Complete(r)' <=> Complete(r)
                             /\ reqs'[r].generated = reqs[r].generated
                             /\ reqs'[r].finish = reqs[r].finish
  BY <1>3, <1>4 DEF Prefilled, Complete
<1>7. ~reqs[h].finish
  BY <1>2 DEF Accounted, DoneOK
<1> HIDE DEF h, reuse
<1>8. ListsOK'
  BY <1>1, <1>4 DEF Accounted, ListsOK
<1>9. ShortOK'
  BY <1>1, <1>2, <1>4, <1>5, <1>6 DEF Accounted, ShortOK
<1>10. GhostOK'
  BY <1>1 DEF GhostOK
<1>11. DoneOK'
  BY <1>1, <1>2, <1>4, <1>6, <1>7 DEF Accounted, DoneOK
<1> QED
  BY <1>8, <1>9, <1>10, <1>11 DEF Accounted

\* The steps that only pin, publish, unpin or count blocks.
LEMMA BlockSteps ==
  ASSUME IInv, Accounted,
         ReleaseBlock \/ Rematch \/ PublishBlock \/ PublishDisabled \/ PublishGen
  PROVE  Accounted'
<1>1. UNCHANGED <<trace, queues, todo, batch, pc, ret, victim>> /\ TypeOK
  BY Zenon DEF IInv, ReleaseBlock, Rematch, PrefillTurn, PublishBlock, PublishDisabled, PublishGen,
         fixed, step, call
<1>2. reqs \in [Requests -> ReqFields]
  BY <1>1 DEF TypeOK
<1>3. todo # <<>> => Head(todo) \in Requests
  BY <1>1, TailDistinct DEF TypeOK
<1>4. CASE ReleaseBlock
  <2>1. victim \in Requests /\ reqs' = [reqs EXCEPT ![victim].pinned = Front(@)]
    BY <1>4, Zenon DEF ReleaseBlock, IInv, LocalsOK
  <2>2. Untouched
    BY <1>2, <2>1, SMTT(30) DEF Untouched, ReqFields
  <2> QED
    BY <1>1, <2>2, SameStep DEF Untouched
<1>5. CASE Rematch
  <2>1. Head(todo) \in Requests /\ Loop = "prefill"
    BY <1>3, <1>5, SMTT(30) DEF Rematch, PrefillTurn, Loop
  <2> PICK x, i : x = Head(todo) /\ i = reqs[x].prefilled \div BlockSize + 1
    OBVIOUS
  <2> PICK a, p, n, q, c : /\ a = Returned(reqs[x].alloc) /\ p = Append(reqs[x].pinned, Hash(x, i))
                           /\ n = Larger(reqs[x].inserted, i)
                           /\ q = reqs[x].prefilled + BlockSize /\ c = reqs[x].cached + BlockSize
    OBVIOUS
  <2> PICK f : f = [reqs[x] EXCEPT !.pinned = p, !.prefilled = q, !.cached = c, !.alloc = a, !.inserted = n]
    OBVIOUS
  <2>3. reqs' = [reqs EXCEPT ![x] = f]
    BY <1>5, ZenonT(30) DEF Rematch
  <2>4. reqs[x] \in ReqFields /\ reqs'[x] = f /\ \A r \in Requests \ {x} : reqs'[r] = reqs[r]
    BY <1>2, <2>1, <2>3, Zenon
  <2>5. reqs'[x].generated = reqs[x].generated /\ reqs'[x].finish = reqs[x].finish
    BY <2>4, SMTT(30) DEF ReqFields
  <2>2. \A r \in Requests : /\ reqs'[r].generated = reqs[r].generated
                            /\ reqs'[r].finish = reqs[r].finish
    BY <2>4, <2>5
  <2> QED
    BY <1>1, <2>1, <2>2, SameStep
<1>6. CASE PublishBlock
  <2>1. Head(todo) \in Requests
    BY <1>3, <1>6 DEF PublishBlock, IInv, LocalsOK
  <2>2. Untouched
    BY <1>2, <1>6, <2>1 DEF PublishBlock, ReqFields, Untouched
  <2> QED
    BY <1>1, <2>2, SameStep DEF Untouched
<1>7. CASE PublishDisabled
  <2>1. Head(todo) \in Requests
    BY <1>3, <1>7 DEF PublishDisabled, IInv, LocalsOK
  <2>2. Untouched
    BY <1>2, <1>7, <2>1 DEF PublishDisabled, ReqFields, Untouched
  <2> QED
    BY <1>1, <2>2, SameStep DEF Untouched
<1>8. CASE PublishGen
  <2>1. Head(todo) \in Requests
    BY <1>3, <1>8, Zenon DEF PublishGen, IInv, LocalsOK
  <2> DEFINE x == Head(todo)
             h == GenHash(x, reqs[x].genInserted)
  <2>2. \/ reqs' = [reqs EXCEPT ![x].genInserted = @ + 1]
        \/ reqs' = [reqs EXCEPT ![x].alloc = Returned(@), ![x].pinned = Append(@, h),
                                ![x].genInserted = @ + 1]
    BY <1>8, Zenon DEF PublishGen
  <2> HIDE DEF x, h
  <2>3. x \in Requests
    BY <2>1 DEF x
  <2>4. ASSUME reqs' = [reqs EXCEPT ![x].genInserted = @ + 1]
        PROVE  Untouched
    BY <1>2, <2>3, <2>4 DEF ReqFields, Untouched
  <2>5. ASSUME reqs' = [reqs EXCEPT ![x].alloc = Returned(@), ![x].pinned = Append(@, h),
                                    ![x].genInserted = @ + 1]
        PROVE  Untouched
    BY <1>2, <2>3, <2>5 DEF ReqFields, Untouched
  <2>6. Untouched
    BY <2>2, <2>4, <2>5
  <2> QED
    BY <1>1, <2>6, SameStep DEF Untouched
<1> QED
  BY <1>4, <1>5, <1>6, <1>7, <1>8

LEMMA OuterSteps ==
  ASSUME IInv, Accounted,
         \/ NextRound \/ Return \/ NoneDue \/ IdleJump \/ Stuck
         \/ AdmitMatch \/ AdmitFails \/ Unmatch \/ Refuse \/ NoCandidate
  PROVE  Accounted'
<1>1. /\ UNCHANGED <<trace, queues, reqs, step>> /\ TypeOK /\ pc \in Outer
      /\ pc \in {"admit", "unmatch"} => ret \in {"idle", "loop"}
  BY Zenon DEF NextRound, Return, NoneDue, IdleJump, Stuck, AdmitMatch, AdmitFails, Unmatch,
         Refuse, NoCandidate, fixed, IInv, Outer, Accounted, ListsOK
<1>2. pc' \in Outer /\ (pc' \in {"admit", "unmatch"} => ret' \in {"idle", "loop"})
  BY <1>1, Zenon DEF NextRound, Return, NoneDue, IdleJump, Stuck, AdmitMatch, AdmitFails, Unmatch,
         Refuse, NoCandidate, fixed, call, Outer
<1> QED
  BY <1>1, <1>2, OuterStep

LEMMA NextAccounted ==
  IInv /\ InLine /\ Accounted /\ [Next]_vars => Accounted'
<1> SUFFICES ASSUME IInv, InLine, Accounted, [Next]_vars PROVE Accounted'
  OBVIOUS
<1>1. TypeOK
  BY DEF IInv
<1>2. CASE UNCHANGED vars \/ Over
  BY <1>1, <1>2, SameStep, Zenon DEF vars, fixed, step, call, Over
<1>3. CASE \/ NextRound \/ Return \/ NoneDue \/ IdleJump \/ Stuck
           \/ AdmitMatch \/ AdmitFails \/ Unmatch \/ Refuse \/ NoCandidate
  BY <1>3, OuterSteps
<1>4. CASE ReleaseBlock \/ Rematch \/ PublishBlock \/ PublishDisabled \/ PublishGen
  BY <1>4, BlockSteps
<1>5. CASE Arrive \/ Admit
  BY <1>1, <1>5, ArriveStep, AdmittedStep
<1>6. CASE BeginStep \/ PlanDecode \/ BeginAlloc \/ Alloc \/ Preempt \/ Requeue
  BY <1>1, <1>6, BeginStepStep, PlanDecodeStep, BeginAllocStep, AllocStep, PreemptStep,
     RequeueStep
<1>7. CASE AllocNone
  BY <1>1, <1>7, TakenStep DEF AllocNone, fixed, Untouched
<1>8. CASE SelfPreempted \/ Stall
  <2>1. todo # <<>>
    BY <1>8, Zenon DEF SelfPreempted, Stall, IInv, LocalsOK
  <2> QED
    BY <1>1, <1>8, <2>1, DroppedStep DEF SelfPreempted, Stall, fixed
<1>9. CASE BeginPrefill \/ PrefillChunk \/ Elapse
  BY <1>1, <1>9, BeginPrefillStep, PrefillChunkStep, ElapseStep
<1>10. CASE Published
  <2>1. todo # <<>>
    BY <1>10 DEF Published, IInv, LocalsOK
  <2> QED
    BY <1>1, <1>10, <2>1, TurnOverStep DEF Published, fixed
<1>11. CASE FirstToken \/ BeginDecode \/ DecodeToken \/ Decoded
  BY <1>1, <1>11, FirstTokenStep, BeginDecodeStep, DecodeTokenStep, DecodedStep
<1>12. CASE BeginFinish \/ Finish \/ Retired \/ EndStep \/ Skip
  BY <1>1, <1>12, BeginFinishStep, FinishStep, RetiredStep, EndStepStep, SkipStep
<1> QED
  BY <1>2, <1>3, <1>4, <1>5, <1>6, <1>7, <1>8, <1>9, <1>10, <1>11, <1>12 DEF Next

LEMMA InitAccounted == Init => Accounted
<1> SUFFICES ASSUME Init PROVE Accounted
  OBVIOUS
<1>1. /\ pending = [r \in Requests |-> r] /\ waiting = <<>> /\ running = <<>>
      /\ todo = <<>> /\ batch = <<>> /\ pc = "loop" /\ Loop = "loop"
      /\ \A r \in Requests : reqs[r].generated = 0 /\ reqs[r].finish = FALSE
  BY DEF Init, NewReq, Loop
<1>2. Range(pending) = Requests /\ Range(<<>>) = {} /\ IsInjective(<<>>)
  BY <1>1 DEF Range, IsInjective
<1> QED
  BY <1>1, <1>2 DEF Accounted, ListsOK, ShortOK, GhostOK, DoneOK

-----------------------------------------------------------------------------
(* The theorem.                                                            *)

\* Two sequences, one after the other, with nothing in common.
LEMMA JoinedOnce ==
  ASSUME NEW T, NEW s \in Seq(T), NEW t \in Seq(T)
  PROVE  /\ s \o t \in Seq(T)
         /\ Range(s \o t) = Range(s) \cup Range(t)
         /\ IsInjective(s) /\ IsInjective(t) /\ Range(s) \cap Range(t) = {} =>
              IsInjective(s \o t)
<1> DEFINE m == Len(s)  n == Len(t)  u == s \o t
<1>1. /\ m \in Nat /\ n \in Nat /\ u \in Seq(T) /\ Len(u) = m + n
      /\ \A i \in 1..(m + n) : u[i] = IF i <= m THEN s[i] ELSE t[i - m]
  BY ConcatProperties, LenProperties
<1>2. /\ \A x : x \in Range(s) <=> \E i \in 1..m : x = s[i]
      /\ \A x : x \in Range(t) <=> \E i \in 1..n : x = t[i]
  BY RangeIs
<1> HIDE DEF m, n, u
<1>3. /\ \A x : x \in Range(u) <=> \E i \in 1..(m + n) : x = u[i]
      /\ (\A i, j \in 1..(m + n) : u[i] = u[j] => i = j) => IsInjective(u)
  <2>1. /\ \A x : x \in Range(u) <=> \E i \in 1..Len(u) : x = u[i]
        /\ IsInjective(u) <=> \A i, j \in 1..Len(u) : u[i] = u[j] => i = j
    BY <1>1, RangeIs
  <2> QED
    BY <1>1, <2>1
<1>4. /\ \A i \in 1..m : i \in 1..(m + n) /\ u[i] = s[i]
      /\ \A i \in 1..n : i + m \in 1..(m + n) /\ u[i + m] = t[i]
      /\ \A i \in 1..(m + n) : \/ i \in 1..m
                               \/ \E k \in 1..n : i = k + m
  <2>1. ASSUME NEW i \in 1..n PROVE i + m \in 1..(m + n) /\ u[i + m] = t[i]
    BY <1>1
  <2>2. ASSUME NEW i \in 1..(m + n), i \notin 1..m PROVE \E k \in 1..n : i = k + m
    <3>1. i - m \in 1..n /\ i = (i - m) + m
      BY <1>1, <2>2
    <3> QED
      BY <3>1
  <2>3. \A i \in 1..m : i \in 1..(m + n) /\ u[i] = s[i]
    BY <1>1
  <2> QED
    BY <2>1, <2>2, <2>3
<1>5. Range(u) = Range(s) \cup Range(t)
  BY <1>2, <1>3, <1>4
<1>6. ASSUME IsInjective(s), IsInjective(t), Range(s) \cap Range(t) = {}
      PROVE  IsInjective(u)
  <2>1. /\ \A i, j \in 1..m : s[i] = s[j] => i = j
        /\ \A i, j \in 1..n : t[i] = t[j] => i = j
    BY <1>6, RangeIs DEF m, n
  <2>2. \A i \in 1..m, j \in 1..n : s[i] # t[j]
    BY <1>2, <1>6
  <2>3. ASSUME NEW i \in 1..(m + n), NEW j \in 1..(m + n), u[i] = u[j] PROVE i = j
    <3>1. CASE i \in 1..m /\ j \in 1..m
      BY <1>4, <2>1, <2>3, <3>1
    <3>2. CASE i \in 1..m /\ \E k \in 1..n : j = k + m
      BY <1>4, <2>2, <2>3, <3>2
    <3>3. CASE j \in 1..m /\ \E k \in 1..n : i = k + m
      BY <1>4, <2>2, <2>3, <3>3
    <3>4. CASE (\E k \in 1..n : i = k + m) /\ (\E k \in 1..n : j = k + m)
      BY <1>4, <2>1, <2>3, <3>4
    <3> QED
      BY <1>4, <3>1, <3>2, <3>3, <3>4
  <2> QED
    BY <1>3, <2>3
<1> QED
  BY <1>1, <1>5, <1>6 DEF u

\* The three queues, one after the other, hold each request once.
LEMMA QueueOnce ==
  ASSUME TypeOK, InLine
  PROVE  /\ IsInjective(Queue)
         /\ Range(Queue) = Range(running) \cup Range(waiting) \cup Range(pending)
         /\ Range(waiting \o pending) = Range(waiting) \cup Range(pending)
<1> DEFINE rest == running \o waiting
<1>1. running \in Seq(Requests) /\ waiting \in Seq(Requests) /\ pending \in Seq(Requests)
  BY DEF TypeOK
<1>2. /\ rest \in Seq(Requests) /\ IsInjective(rest)
      /\ Range(rest) = Range(running) \cup Range(waiting)
  BY <1>1, JoinedOnce DEF InLine
<1>3. Range(waiting \o pending) = Range(waiting) \cup Range(pending)
  BY <1>1, JoinedOnce
<1>4. Queue = rest \o pending
  BY DEF Queue
<1> HIDE DEF rest
<1>5. /\ Range(rest \o pending) = Range(rest) \cup Range(pending)
      /\ IsInjective(rest \o pending)
  BY <1>1, <1>2, JoinedOnce DEF InLine
<1> QED
  BY <1>2, <1>3, <1>4, <1>5

LEMMA AccountedOnce == TypeOK /\ InLine /\ Accounted => EachInOnePlace
<1> SUFFICES ASSUME TypeOK, InLine, Accounted PROVE EachInOnePlace
  OBVIOUS
<1>1. pc \in {"loop", "arrive", "idle"} => Loop \notin {"decode", "finish"}
  BY Zenon DEF Loop
<1>2. DoneOK
  BY DEF Accounted
<1> QED
  BY <1>1, <1>2, QueueOnce DEF EachInOnePlace, DoneOK

\* simulate() loses no request and serves none twice: whatever is preempted, in
\* whatever loop, a request is in one place of one of the three queues until it
\* has its last token, and in none of them when the step is over.
THEOREM NoneLostOrRepeated == Spec => []EachInOnePlace
<1>1. Init => IInv /\ InLine /\ Accounted
  BY InitIInv, InitInLine, InitAccounted
<1>2. IInv => TypeOK
  BY DEF IInv
<1>3. IInv /\ InLine /\ Accounted /\ [Next]_vars => InLine' /\ Accounted'
  BY <1>2, NextInLine, NextAccounted
<1>4. TypeOK /\ InLine /\ Accounted => EachInOnePlace
  BY AccountedOnce
<1> QED
  BY <1>1, <1>2, <1>3, <1>4, Invariance, PTL DEF Spec

-----------------------------------------------------------------------------
(* The prefix a running request relies on.                                *)

\* The victim of a preemption has left running before it is looked at again, and a
\* request that is released has left it too.
VictimAway ==
  /\ pc \notin {"preempt", "retry", "retire"} => victim = 0
  /\ pc \in {"retry", "retire"} => victim \notin Range(running)

LEMMA RemovedFrom ==
  ASSUME TypeOK, InLine, NEW r
  PROVE  /\ r \notin Range(RemoveFirst(running, r))
         /\ Range(RemoveFirst(running, r)) \subseteq Range(running)
<1>1. running \in Seq(Requests) /\ IsInjective(running)
  BY DEF TypeOK, InLine
<1>2. CASE r \in Range(running)
  BY <1>1, <1>2, RemoveFirstDistinct
<1>3. CASE r \notin Range(running)
  <2>1. RemoveFirst(running, r) = running
    BY <1>1, <1>3 DEF RemoveFirst, Range
  <2> QED
    BY <1>3, <2>1
<1> QED
  BY <1>2, <1>3

LEMMA VictimStep ==
  ASSUME TypeOK, InLine, VictimAway, [Next]_vars
  PROVE  VictimAway'
<1> USE DEF fixed, queues, step, call
<1>0. 0 \notin Range(running)
  BY TraceFacts, RangeFacts
<1>1. CASE UNCHANGED vars \/ Over
  BY <1>1, Zenon DEF vars, Over, VictimAway
<1>2. CASE \/ NextRound \/ Return \/ Arrive \/ NoneDue \/ IdleJump \/ Stuck
           \/ AdmitMatch \/ Admit \/ AdmitFails \/ Unmatch \/ Refuse \/ NoCandidate
  <2>1. victim' = victim /\ pc \notin {"preempt", "retry", "retire"}
        /\ pc' \notin {"preempt", "retry", "retire"}
    BY <1>2, ZenonT(30) DEF NextRound, Return, Arrive, NoneDue, IdleJump, Stuck, AdmitMatch, Admit,
                AdmitFails, Unmatch, Refuse, NoCandidate, TypeOK
  <2> QED
    BY <2>1 DEF VictimAway
<1>3. CASE BeginStep \/ PlanDecode \/ BeginAlloc \/ AllocNone
           \/ BeginPrefill \/ Rematch \/ PrefillChunk \/ PublishBlock
           \/ PublishDisabled \/ Published \/ Elapse
           \/ BeginDecode \/ DecodeToken \/ PublishGen \/ Decoded
           \/ BeginFinish \/ EndStep \/ Skip
  <2>1. victim' = victim /\ pc \notin {"preempt", "retry", "retire"}
        /\ pc' \notin {"preempt", "retry", "retire"}
    BY <1>3, Zenon DEF BeginStep, PlanDecode, BeginAlloc, AllocNone, BeginPrefill, Rematch, PrefillTurn,
                PrefillChunk, PublishBlock, PublishDisabled, Published, Elapse, BeginDecode, DecodeToken,
                PublishGen, Decoded, BeginFinish, EndStep, Skip
  <2> QED
    BY <2>1 DEF VictimAway
<1>4. CASE Alloc \/ SelfPreempted \/ Stall \/ Retired
  <2>1. victim' = 0 /\ pc' \notin {"preempt", "retry", "retire"}
    BY <1>4 DEF Alloc, SelfPreempted, Stall, Retired, TypeOK
  <2> QED
    BY <2>1 DEF VictimAway
<1>5. CASE Preempt
  <2>1. pc' = IF running = <<>> THEN "retry" ELSE "preempt"
    BY <1>5 DEF Preempt
  <2>2. running = <<>> => victim' = 0 /\ running' = running
    BY <1>5 DEF Preempt
  <2> QED
    BY <1>0, <2>1, <2>2 DEF VictimAway
<1>6. CASE ReleaseBlock
  BY <1>6 DEF ReleaseBlock, VictimAway
<1>7. CASE Requeue
  BY <1>7, RemovedFrom DEF Requeue, VictimAway
<1>8. CASE FirstToken \/ Finish
  <2>1. pc \in {"first", "finish"} /\ pc' \in {pc, "retire"}
        /\ (pc' = pc => victim' = victim)
        /\ (pc' = "retire" => victim' = Head(todo) /\ running' = RemoveFirst(running, Head(todo)))
    BY <1>8 DEF FirstToken, Finish
  <2> QED
    BY <2>1, RemovedFrom DEF VictimAway
<1> QED
  BY <1>1, <1>2, <1>3, <1>4, <1>5, <1>6, <1>7, <1>8 DEF Next

\* Whoever runs after a step ran before it, unless it has just been admitted.
LEMMA RanBefore ==
  ASSUME TypeOK, InLine, VictimAway, [Next]_vars, ~Admit,
         NEW r \in Range(running') \ {victim'}
  PROVE  r \in Range(running) \ {victim}
<1> USE DEF fixed, queues, step, call
<1>1. VictimAway'
  BY VictimStep
<1>2. CASE Requeue
  BY <1>2, RemovedFrom DEF Requeue
<1>3. CASE FirstToken \/ Finish
  <2>1. pc \in {"first", "finish"} /\ r # 0
    BY <1>3, TraceFacts, RangeFacts, RemovedFrom DEF FirstToken, Finish
  <2>2. running' = running \/ \E x : running' = RemoveFirst(running, x)
    BY <1>3 DEF FirstToken, Finish
  <2> QED
    BY <2>1, <2>2, RemovedFrom DEF VictimAway
<1>4. CASE ~(Requeue \/ FirstToken \/ Finish)
  <2>1. running' = running
    <3>1. ~Arrive => running' = running
      BY <1>4, QueuesStay DEF InLine
    <3> QED
      BY <3>1 DEF Arrive
  <2>2. r # victim \/ pc \notin {"retry", "retire"}
    BY <2>1 DEF VictimAway
  <2>3. r # 0
    BY <2>1, TraceFacts, RangeFacts
  <2>4. pc = "preempt" => victim' = victim
    BY <1>4, <2>1
       DEF Next, vars, Over, NextRound, Return, Arrive, NoneDue, IdleJump, Stuck, AdmitMatch, AdmitFails, Unmatch,
           Refuse, NoCandidate, BeginStep, PlanDecode, BeginAlloc, AllocNone, Alloc, Preempt, ReleaseBlock,
           SelfPreempted, Stall, BeginPrefill, Rematch, PrefillTurn, PrefillChunk, PublishBlock, PublishDisabled,
           Published, Elapse, BeginDecode, DecodeToken, PublishGen, Decoded, BeginFinish, Retired, EndStep, Skip
  <2> QED
    BY <2>1, <2>2, <2>3, <2>4 DEF VictimAway
<1> QED
  BY <1>2, <1>3, <1>4

\* What PrefixHeld says of one request, but for the bound on its prefill.
HeldAt(r) ==
  /\ PrefixCaching => \A i \in 1..reqs[r].inserted : Hash(r, i) \in Range(reqs[r].pinned)
  /\ ToPublish(r) => pc = "publish" /\ r = Head(todo)
  /\ reqs[r].cached <= reqs[r].prefilled /\ reqs[r].cached < PromptLen(r)

\* A request whose prefix the step does not touch.
LEMMA PrefixSame ==
  ASSUME NEW r, HeldAt(r), UNCHANGED trace,
         reqs'[r].inserted = reqs[r].inserted, reqs'[r].prefilled = reqs[r].prefilled,
         reqs'[r].cached = reqs[r].cached, Range(reqs[r].pinned) \subseteq Range(reqs'[r].pinned),
         pc = "publish" => pc' = "publish" /\ todo' = todo
  PROVE  HeldAt(r)'
<1>1. \A i : Hash(r, i)' = Hash(r, i)
  BY DEF Hash
<1>2. PromptLen(r)' = PromptLen(r) /\ (ToPublish(r)' <=> ToPublish(r))
  BY DEF PromptLen, ToPublish
<1> QED
  BY <1>1, <1>2 DEF HeldAt

\* An admitted request holds what it has matched, and that is all it skips.
LEMMA PrefixAdmitted ==
  ASSUME IInv, Admit, NEW r, r = Head(waiting)
  PROVE  HeldAt(r)'
<1> DEFINE n == Len(matched)
           reuse == Smaller(n * BlockSize, PromptLen(r) - 1)
<1>1. TypeOK /\ LocalsOK
  BY DEF IInv
<1>2. r \in Requests /\ n \in Nat /\ matched \in Seq(Block)
  BY <1>1, TailDistinct, LenProperties DEF Admit, Candidate, TypeOK
<1>3. /\ PromptLen(r) \in Nat \ {0} /\ BlockSize \in Nat \ {0}
      /\ reqs \in [Requests -> ReqFields]
  BY <1>1, <1>2, TraceFacts, CfgAssumption DEF TypeOK
<1>4. /\ reqs'[r].pinned = matched /\ reqs'[r].inserted = n
      /\ reqs'[r].cached = reuse /\ reqs'[r].prefilled = reuse
      /\ UNCHANGED trace
  <2> HIDE DEF n
  <2>1. reqs' = [reqs EXCEPT ![r].pinned = matched, ![r].alloc = Need(r),
                             ![r].cached = reuse, ![r].prefilled = reuse, ![r].inserted = n]
        /\ UNCHANGED trace
    BY DEF Admit, fixed, n
  <2> HIDE DEF reuse
  <2> QED
    BY <1>2, <1>3, <2>1 DEF ReqFields
<1>5. \A i \in 1..n : matched[i] = Hash(r, i)
  <2>1. CASE matched = <<>>
    BY <2>1
  <2>2. CASE matched # <<>>
    BY <1>1, <2>2 DEF LocalsOK, Admit
  <2> QED
    BY <2>1, <2>2
<1>6. \A i \in 1..n : Hash(r, i) \in Range(matched)
  BY <1>2, <1>5, RangeIs
<1>7. reuse \in Nat /\ reuse < PromptLen(r) /\ reuse <= n * BlockSize
  <2> HIDE DEF n
  <2>1. n * BlockSize \in Nat
    BY <1>2, <1>3
  <2> QED
    BY <1>3, <2>1 DEF Smaller
<1>8. ~(n < reuse \div BlockSize)
  <2> DEFINE b == BlockSize
  <2> HIDE DEF n, reuse
  <2>1. b \in Nat \ {0} /\ reuse \in Nat /\ n \in Nat /\ reuse <= n * b
    BY <1>2, <1>3, <1>7
  <2> HIDE DEF b
  <2>2. PICK q \in Nat, m \in 0..(b - 1) : reuse = b * q + m /\ q = reuse \div b
    BY <2>1
  <2>3. ASSUME q > n PROVE FALSE
    <3>1. PICK d \in Nat \ {0} : q = n + d
      <4>1. q - n \in Nat \ {0} /\ q = n + (q - n)
        BY <2>1, <2>3
      <4> QED
        BY <4>1
    <3>2. b * q = b * n + b * d /\ b * d >= b
      BY <2>1, <3>1
    <3> QED
      BY <2>1, <2>2, <3>2
  <2> QED
    BY <2>1, <2>2, <2>3 DEF b
<1> HIDE DEF reuse, n
<1>9. \A i : Hash(r, i)' = Hash(r, i)
  BY <1>4 DEF Hash
<1>10. PromptLen(r)' = PromptLen(r)
  BY <1>4 DEF PromptLen
<1> QED
  BY <1>4, <1>6, <1>7, <1>8, <1>9, <1>10 DEF HeldAt, ToPublish

\* A block that is taken over or published is the next one of the prompt.
LEMMA PrefixGrows ==
  ASSUME IInv, Rematch \/ PublishBlock \/ PublishDisabled \/ PrefillChunk,
         NEW r, r = Head(todo), HeldAt(r), pc = "prefill" => ~ToPublish(r)
  PROVE  HeldAt(r)'
<1>1. TypeOK /\ LocalsOK /\ UNCHANGED trace
  BY ZenonT(30) DEF IInv, Rematch, PublishBlock, PublishDisabled, PrefillChunk, fixed
<1>2. r \in Requests
  BY <1>1, TailDistinct, Zenon DEF Rematch, PrefillTurn, PublishBlock, PublishDisabled, PrefillChunk, LocalsOK, TypeOK
<1>3. /\ reqs \in [Requests -> ReqFields] /\ reqs[r].prefilled \in Nat /\ reqs[r].inserted \in Nat
      /\ reqs[r].cached \in Nat /\ reqs[r].pinned \in Seq(Block) /\ PromptLen(r) \in Nat
      /\ BlockSize \in Nat \ {0} /\ reqs[r].prefilled \div BlockSize \in Nat /\ NumHashes(r) \in Nat
  BY <1>1, <1>2, ReqFacts, TraceFacts, CfgAssumption, BlockArithmetic DEF TypeOK
<1>4. PromptLen(r)' = PromptLen(r) /\ \A i : Hash(r, i)' = Hash(r, i)
  BY <1>1 DEF PromptLen, Hash
<1>5. CASE Rematch
  <2> PICK i : i = reqs[r].prefilled \div BlockSize + 1
    OBVIOUS
  <2> PICK h : h = Hash(r, i)
    BY SMTT(30)
  <2>1. /\ reqs' = [reqs EXCEPT ![r].pinned = Append(@, h), ![r].prefilled = @ + BlockSize,
                               ![r].cached = @ + BlockSize, ![r].alloc = Returned(@),
                               ![r].inserted = Larger(@, i)]
        /\ pc = "prefill" /\ reqs[r].prefilled % BlockSize = 0
        /\ reqs[r].prefilled + BlockSize <= PromptLen(r) - 1 /\ i <= NumHashes(r)
    BY <1>5, Zenon DEF Rematch, PrefillTurn, CanRematch
  <2>2. i \in 1..NumHashes(r)
    <3> DEFINE q == reqs[r].prefilled \div BlockSize
    <3>1. q \in Nat /\ i = q + 1 /\ i <= NumHashes(r) /\ NumHashes(r) \in Nat
      BY <1>3, <2>1, Zenon
    <3> HIDE DEF q
    <3> QED
      BY <3>1, SMTT(30)
  <2>3. h \in Block
    BY <1>1, <1>2, <2>2, HashFacts
  <2>4. /\ reqs'[r].pinned = Append(reqs[r].pinned, h)
        /\ reqs'[r].prefilled = reqs[r].prefilled + BlockSize
        /\ reqs'[r].cached = reqs[r].cached + BlockSize
        /\ reqs'[r].inserted = Larger(reqs[r].inserted, i)
    <3> DEFINE pin == Append(reqs[r].pinned, h)
               pre == reqs[r].prefilled + BlockSize
               hit == reqs[r].cached + BlockSize
               own == Returned(reqs[r].alloc)
               ins == Larger(reqs[r].inserted, i)
               f   == [reqs[r] EXCEPT !.pinned = pin, !.prefilled = pre, !.cached = hit,
                                      !.alloc = own, !.inserted = ins]
    <3>1. reqs' = [reqs EXCEPT ![r] = f] /\ reqs[r] \in ReqFields
      BY <1>2, <1>3, <2>1, Zenon
    <3> HIDE DEF pin, pre, hit, own, ins
    <3>2. f.pinned = pin /\ f.prefilled = pre /\ f.cached = hit /\ f.inserted = ins
      BY <3>1 DEF ReqFields
    <3> HIDE DEF f
    <3>3. reqs'[r] = f
      BY <1>2, <1>3, <3>1
    <3> QED
      BY <3>2, <3>3, SMTT(30) DEF pin, pre, hit, ins
  <2>5. Range(reqs'[r].pinned) = Range(reqs[r].pinned) \cup {h}
    BY <1>3, <2>3, <2>4, AppendDistinct
  <2>6. ~(reqs[r].inserted < i - 1)
    <3>1. ~(reqs[r].inserted < reqs[r].prefilled \div BlockSize)
      BY <2>1 DEF ToPublish
    <3> DEFINE q == reqs[r].prefilled \div BlockSize
    <3>2. q \in Nat /\ i = q + 1 /\ ~(reqs[r].inserted < q)
      BY <1>3, <3>1
    <3> HIDE DEF q
    <3> QED
      BY <1>3, <3>2
  <2>7. reqs'[r].inserted = IF i <= reqs[r].inserted THEN reqs[r].inserted ELSE i
    BY <1>3, <2>2, <2>4 DEF Larger
  <2>8. ASSUME PrefixCaching, NEW j \in 1..reqs'[r].inserted PROVE Hash(r, j) \in Range(reqs'[r].pinned)
    <3>1. j \in 1..reqs[r].inserted \/ j = i
      BY <1>3, <2>2, <2>6, <2>7
    <3> QED
      BY <2>5, <2>8, <3>1 DEF HeldAt
  <2>9. ~(reqs'[r].inserted < reqs'[r].prefilled \div BlockSize)
    <3> DEFINE b == BlockSize
               p == reqs[r].prefilled
    <3>1. (p + b) \div b = p \div b + 1
      <4>1. b \in Nat \ {0} /\ p \in Nat
        BY <1>3
      <4> HIDE DEF b, p
      <4> QED
        BY <4>1
    <3>2. reqs'[r].prefilled \div BlockSize = i
      BY <2>4, <3>1
    <3>3. i <= reqs'[r].inserted
      BY <1>3, <2>2, <2>7
    <3> QED
      BY <1>3, <2>2, <2>7, <3>2, <3>3
  <2>10. reqs'[r].cached <= reqs'[r].prefilled /\ reqs'[r].cached < PromptLen(r)
    <3> DEFINE k == reqs[r].cached
               p == reqs[r].prefilled
               l == PromptLen(r)
               b == BlockSize
    <3>1. k \in Nat /\ p \in Nat /\ l \in Nat /\ b \in Nat /\ k <= p /\ p + b <= l - 1
      BY <1>3, <2>1, Zenon DEF HeldAt
    <3>2. reqs'[r].cached = k + b /\ reqs'[r].prefilled = p + b
      BY <2>4
    <3> HIDE DEF k, p, l, b
    <3>3. reqs'[r].cached <= reqs'[r].prefilled /\ reqs'[r].cached < l
      BY <3>1, <3>2, SMTT(30)
    <3> QED
      BY <3>3, SMTT(30) DEF l
  <2> QED
    BY <1>4, <2>8, <2>9, <2>10 DEF HeldAt, ToPublish
<1>6. CASE PublishBlock
  <2> PICK i : i = reqs[r].inserted + 1
    OBVIOUS
  <2> PICK h : h = Hash(r, i)
    OBVIOUS
  <2>1. /\ reqs' = [reqs EXCEPT ![r].alloc = Returned(@), ![r].pinned = Append(@, h), ![r].inserted = @ + 1]
        /\ pc = "publish" /\ pc' = "publish" /\ todo' = todo /\ reqs[r].inserted < reqs[r].prefilled \div BlockSize
    BY <1>6 DEF PublishBlock, ToPublish, step
  <2>2. i \in 1..NumHashes(r)
    <3>1. reqs[r].prefilled \div BlockSize <= NumHashes(r)
      BY <1>2, <1>3, BlocksMonotonic DEF NumHashes, IInv, PrefillBounded
    <3> QED
      BY <1>3, <2>1, <3>1, SMTT(30)
  <2>3. h \in Block
    BY <1>1, <1>2, <2>2, HashFacts
  <2>4. /\ reqs'[r].pinned = Append(reqs[r].pinned, h)
        /\ reqs'[r].prefilled = reqs[r].prefilled /\ reqs'[r].cached = reqs[r].cached
        /\ reqs'[r].inserted = i
    BY <1>2, <1>3, <2>1, SMTT(30) DEF ReqFields
  <2>5. Range(reqs'[r].pinned) = Range(reqs[r].pinned) \cup {h}
    BY <1>3, <2>3, <2>4, AppendDistinct
  <2>6. ASSUME PrefixCaching, NEW j \in 1..reqs'[r].inserted PROVE Hash(r, j) \in Range(reqs'[r].pinned)
    <3>1. j \in 1..reqs[r].inserted \/ j = i
      BY <1>3, <2>4, SMTT(30)
    <3> QED
      BY <2>5, <2>6, <3>1 DEF HeldAt
  <2> QED
    BY <1>4, <2>1, <2>4, <2>6, Zenon DEF HeldAt, ToPublish
<1>7. CASE PublishDisabled
  <2>1. /\ reqs'[r].prefilled = reqs[r].prefilled /\ reqs'[r].cached = reqs[r].cached
        /\ ~PrefixCaching /\ pc' = "publish" /\ todo' = todo
    BY <1>2, <1>3, <1>7 DEF PublishDisabled, step, ReqFields
  <2> QED
    BY <1>4, <2>1 DEF HeldAt, ToPublish
<1>8. CASE PrefillChunk
  <2> DEFINE chunk == Smaller(budget, PromptLen(r) - reqs[r].prefilled)
  <2>1. reqs' = [reqs EXCEPT ![r].prefilled = @ + chunk] /\ pc' = "publish" /\ todo' = todo
        /\ budget > 0 /\ budget \in Nat /\ reqs[r].prefilled <= PromptLen(r)
    BY <1>2, <1>8 DEF PrefillChunk, PrefillTurn, IInv, PrefillBounded, TypeOK
  <2>2. chunk \in Nat
    BY <1>3, <2>1 DEF Smaller
  <2> HIDE DEF chunk
  <2>3. /\ reqs'[r].prefilled = reqs[r].prefilled + chunk /\ reqs'[r].cached = reqs[r].cached
        /\ reqs'[r].inserted = reqs[r].inserted /\ reqs'[r].pinned = reqs[r].pinned
    BY <1>2, <1>3, <2>1 DEF ReqFields
  <2>4. reqs'[r].cached <= reqs'[r].prefilled
    BY <1>3, <2>2, <2>3, SMTT(30) DEF HeldAt
  <2> QED
    BY <1>4, <2>1, <2>3, <2>4 DEF HeldAt
<1> QED
  BY <1>5, <1>6, <1>7, <1>8, SMTT(30)

\* No step takes a prefix from a request that runs.
LEMMA PrefixStep ==
  ASSUME IInv, InLine, VictimAway, PrefixHeld, [Next]_vars
  PROVE  PrefixHeld'
<1>1. TypeOK /\ LocalsOK
  BY DEF IInv
<1>2. UNCHANGED trace /\ Requests' = Requests /\ Range(running') \subseteq Requests
  <2>1. UNCHANGED trace
    BY Zenon DEF Next, vars, fixed, Over, NextRound, Return, Arrive, NoneDue, IdleJump, Stuck, AdmitMatch, Admit,
           AdmitFails, Unmatch, Refuse, NoCandidate, BeginStep, PlanDecode, BeginAlloc, AllocNone, Alloc, Preempt,
           ReleaseBlock, Requeue, SelfPreempted, Stall, BeginPrefill, Rematch, PrefillChunk, PublishBlock,
           PublishDisabled, Published, Elapse, FirstToken, BeginDecode, DecodeToken, PublishGen, Decoded,
           BeginFinish, Finish, Retired, EndStep, Skip
  <2>2. running' \in Seq(Requests')
    BY NextIInv DEF IInv, TypeOK
  <2> QED
    BY <2>1, <2>2, RangeIs DEF Requests
<1>3. PrefillBounded' /\ \A r : PromptLen(r)' = PromptLen(r)
  BY <1>2, NextIInv DEF IInv, PromptLen
<1> SUFFICES ASSUME NEW r \in Range(running') \ {victim'} PROVE HeldAt(r)'
  BY <1>2, <1>3 DEF PrefixHeld, HeldAt, PrefillBounded
<1>4. r \in Requests
  BY <1>2
<1>5. \A x \in Range(running) \ {victim} : HeldAt(x) /\ (pc # "publish" => ~ToPublish(x))
  BY DEF PrefixHeld, HeldAt
<1>6. ~Admit => r \in Range(running) \ {victim}
  BY <1>1, RanBefore
<1>7. reqs \in [Requests -> ReqFields]
  BY <1>1 DEF TypeOK
<1>8. ASSUME r \in Range(running) \ {victim}, UNCHANGED <<reqs, trace>>,
             pc = "publish" => pc' = "publish" /\ todo' = todo
      PROVE  HeldAt(r)'
  BY <1>5, <1>8, PrefixSame
<1>9. ASSUME NEW x \in Requests, x # r, r \in Range(running) \ {victim}, UNCHANGED trace,
             \A y \in Requests \ {x} : reqs'[y] = reqs[y],
             pc = "publish" => pc' = "publish" /\ todo' = todo
      PROVE  HeldAt(r)'
  BY <1>4, <1>5, <1>9, PrefixSame
<1>10. CASE UNCHANGED vars \/ Over
  <2>1. UNCHANGED <<reqs, trace, pc, todo, running, victim>>
    BY <1>10, Zenon DEF vars, fixed, queues, step, call, Over
  <2> QED
    BY <1>8, <2>1
<1>11. CASE Admit
  <2>1. waiting # <<>> /\ Head(waiting) \in Requests /\ running' = Append(running, Head(waiting)) /\ victim' = victim
    BY <1>1, <1>11, TailDistinct DEF Admit, Candidate, TypeOK
  <2>2. CASE r = Head(waiting)
    BY <1>11, <2>2, PrefixAdmitted
  <2>3. CASE r # Head(waiting)
    <3>1. r \in Range(running) \ {victim}
      BY <1>1, <2>1, <2>3, AppendDistinct, SMTT(30) DEF TypeOK
    <3>2. pc # "publish" /\ \A y \in Requests \ {Head(waiting)} : reqs'[y] = reqs[y]
      BY <1>7, <1>11, <2>1 DEF Admit
    <3> QED
      BY <1>2, <1>9, <2>1, <2>3, <3>1, <3>2
  <2> QED
    BY <2>2, <2>3
<1>12. CASE \/ NextRound \/ Return \/ Arrive \/ NoneDue \/ IdleJump \/ Stuck
            \/ AdmitMatch \/ AdmitFails \/ Unmatch \/ Refuse \/ NoCandidate
            \/ BeginStep \/ PlanDecode \/ BeginAlloc \/ AllocNone \/ Preempt
            \/ SelfPreempted \/ Stall \/ BeginPrefill \/ Elapse
            \/ BeginDecode \/ BeginFinish \/ Finish \/ EndStep \/ Skip
  <2>1. UNCHANGED reqs /\ pc # "publish" /\ ~Admit
    BY <1>12, Zenon DEF NextRound, Return, Arrive, NoneDue, IdleJump, Stuck, AdmitMatch, Admit, AdmitFails, Unmatch,
           Refuse, NoCandidate, BeginStep, PlanDecode, BeginAlloc, AllocNone, Preempt, SelfPreempted, Stall,
           BeginPrefill, Elapse, BeginDecode, BeginFinish, Finish, EndStep, Skip
  <2> QED
    BY <1>2, <1>6, <1>8, <2>1
<1>13. CASE Published
  <2>1. UNCHANGED reqs /\ ~Admit /\ pc = "publish" /\ ~ToPublish(Head(todo))
    BY <1>13 DEF Published, Admit
  <2>2. r \in Range(running) \ {victim} /\ HeldAt(r)
    BY <1>5, <1>6, <2>1
  <2>3. ~ToPublish(r)
    BY <2>1, <2>2 DEF HeldAt
  <2>4. ~ToPublish(r)' /\ \A i : Hash(r, i)' = Hash(r, i)
    BY <1>2, <2>1, <2>3 DEF ToPublish, Hash
  <2> QED
    BY <1>3, <2>1, <2>2, <2>4 DEF HeldAt
<1>14. CASE ReleaseBlock \/ Requeue
  <2>1. victim \in Requests /\ pc # "publish" /\ ~Admit
    BY <1>1, <1>14, Zenon DEF ReleaseBlock, Requeue, LocalsOK, Admit
  <2>2. \A y \in Requests \ {victim} : reqs'[y] = reqs[y]
    BY <1>7, <1>14, <2>1, SMTT(30) DEF ReleaseBlock, Requeue
  <2> QED
    BY <1>2, <1>6, <1>9, <2>1, <2>2, SMTT(30)
<1>15. CASE Rematch \/ PublishBlock \/ PublishDisabled \/ PrefillChunk
  <2>1. /\ Head(todo) \in Requests /\ ~Admit /\ UNCHANGED todo
        /\ pc = "publish" => pc' = "publish"
    BY <1>1, <1>15, TailDistinct, Zenon
       DEF Rematch, PrefillTurn, PublishBlock, PublishDisabled, PrefillChunk, LocalsOK, TypeOK, Admit, step
  <2>2. CASE r = Head(todo)
    BY <1>5, <1>6, <1>15, <2>1, <2>2, PrefixGrows
  <2>3. CASE r # Head(todo)
    <3>1. \A y \in Requests \ {Head(todo)} : reqs'[y] = reqs[y]
      BY <1>7, <1>15, <2>1, Zenon DEF Rematch, PublishBlock, PublishDisabled, PrefillChunk
    <3> QED
      BY <1>2, <1>6, <1>9, <2>1, <2>3, <3>1, SMTT(30)
  <2> QED
    BY <2>2, <2>3
<1>16. CASE Alloc \/ FirstToken \/ DecodeToken \/ PublishGen \/ Decoded \/ Retired
  <2>1. pc # "publish" /\ ~Admit
    BY <1>16, ZenonT(30) DEF Alloc, FirstToken, DecodeToken, PublishGen, Decoded, Retired, Admit
  <2>2. PICK x \in Requests : x = IF pc = "retire" THEN victim ELSE Head(todo)
    BY <1>1, <1>16, TailDistinct, Zenon
       DEF Alloc, FirstToken, DecodeToken, PublishGen, Decoded, Retired, LocalsOK, TypeOK
  <2>3. /\ reqs'[r].inserted = reqs[r].inserted /\ reqs'[r].prefilled = reqs[r].prefilled
        /\ reqs'[r].cached = reqs[r].cached
        /\ Range(reqs[r].pinned) \subseteq Range(reqs'[r].pinned)
    <3>1. CASE Alloc \/ Retired
      <4>1. PICK n : reqs' = [reqs EXCEPT ![x].alloc = n]
        BY <2>2, <3>1 DEF Alloc, Retired
      <4> QED
        BY <1>4, <1>7, <4>1 DEF ReqFields
    <3>3. CASE FirstToken
      <4>1. PICK y, z : reqs' = [reqs EXCEPT ![x].ttft = y, ![x].generated = 1, ![x].finish = z]
        BY <2>2, <3>3, Zenon DEF FirstToken
      <4> QED
        BY <1>4, <1>7, <4>1 DEF ReqFields
    <3>4. CASE DecodeToken
      <4>1. PICK y, n, g : reqs' = [reqs EXCEPT ![x].ttft = y, ![x].generated = n, ![x].genInserted = g]
        BY <2>2, <3>4, Zenon DEF DecodeToken
      <4> QED
        BY <1>4, <1>7, <4>1 DEF ReqFields
    <3>5. CASE Decoded
      <4>1. PICK y, g : reqs' = [reqs EXCEPT ![x].finish = y, ![x].genInserted = g]
        BY <2>2, <3>5, Zenon DEF Decoded
      <4> QED
        BY <1>4, <1>7, <4>1 DEF ReqFields
    <3>2. CASE PublishGen
      <4> DEFINE h == GenHash(x, reqs[x].genInserted)
      <4>1. h \in Block /\ reqs[x].pinned \in Seq(Block)
        <5>1. x \in Nat /\ reqs[x].genInserted \in Nat /\ reqs[x].pinned \in Seq(Block)
          BY <1>1, TraceFacts, ReqFacts
        <5> QED
          BY <5>1 DEF GenHash, Block
      <4> DEFINE own == Returned(reqs[x].alloc)
                 pin == Append(reqs[x].pinned, h)
                 g   == reqs[x].genInserted + 1
      <4>2. \/ reqs' = [reqs EXCEPT ![x].genInserted = g]
            \/ reqs' = [reqs EXCEPT ![x].alloc = own, ![x].pinned = pin, ![x].genInserted = g]
        BY <1>7, <2>2, <3>2, Zenon DEF PublishGen
      <4>3. Range(reqs[x].pinned) \subseteq Range(pin)
        BY <4>1, AppendDistinct
      <4> HIDE DEF h, own, pin, g
      <4>4. CASE reqs' = [reqs EXCEPT ![x].genInserted = g]
        BY <1>4, <1>7, <4>4 DEF ReqFields
      <4>5. CASE reqs' = [reqs EXCEPT ![x].alloc = own, ![x].pinned = pin, ![x].genInserted = g]
        <5>1. /\ reqs'[r].inserted = reqs[r].inserted /\ reqs'[r].prefilled = reqs[r].prefilled
              /\ reqs'[r].cached = reqs[r].cached
              /\ reqs'[r].pinned = IF r = x THEN pin ELSE reqs[r].pinned
          BY <1>4, <1>7, <4>5 DEF ReqFields
        <5> QED
          BY <4>3, <5>1
      <4> QED
        BY <4>2, <4>4, <4>5
    <3> QED
      BY <1>16, <3>1, <3>2, <3>3, <3>4, <3>5
  <2> QED
    BY <1>2, <1>5, <1>6, <2>1, <2>3, PrefixSame, SMTT(30)
<1> QED
  BY <1>10, <1>11, <1>12, <1>13, <1>14, <1>15, <1>16 DEF Next

\* The prefix a running request has skipped or computed stays cached, and no request
\* skips its whole prompt, for every trace, pool and timing.
THEOREM PrefixStays == Spec => []PrefixHeld
<1>1. Init => IInv /\ InLine /\ VictimAway /\ PrefixHeld
  <2>1. Init => VictimAway /\ PrefixHeld
    BY DEF Init, VictimAway, PrefixHeld, Range
  <2> QED
    BY <2>1, InitIInv, InitInLine
<1>2. IInv => TypeOK
  BY DEF IInv
<1>3. IInv /\ InLine /\ VictimAway /\ PrefixHeld /\ [Next]_vars => InLine' /\ VictimAway' /\ PrefixHeld'
  BY <1>2, NextInLine, VictimStep, PrefixStep
<1> QED
  BY <1>1, <1>2, <1>3, Invariance, PTL DEF Spec

-----------------------------------------------------------------------------
(* Every request has its output, and gives its blocks back.                *)

\* The tokens of a request and what is said of it agree: it never gets more than its
\* output, has a first-token time from its first token on, and is finished when it has
\* them all, except while the block of its last token is published.
TokensOK ==
  \A r \in Requests :
    /\ reqs[r].generated <= OutputLen(r)
    /\ reqs[r].generated > 0 => reqs[r].ttft
    /\ Complete(r) => reqs[r].finish \/ (pc = "publish gen" /\ r = Head(todo))
    /\ reqs[r].finish => Complete(r)

\* Whoever is prefilled runs, and whoever is to get a token has not finished.
TurnsOK ==
  /\ Loop = "prefill" => Range(todo) \subseteq Range(running)
  /\ Loop \in {"plan", "alloc", "decode"} => \A r \in Range(todo) : ~reqs[r].finish
  /\ Loop \in {"plan", "alloc", "prefill", "first"} => \A r \in Range(batch) : ~reqs[r].finish

\* A request that has finished and left running has given back all its blocks, unless
\* release() is at work on it.
GivenBack ==
  \A r \in Requests :
    reqs[r].finish /\ r \notin Range(running) /\ ~(pc = "retire" /\ r = victim) =>
      reqs[r].pinned = <<>> /\ reqs[r].alloc = 0

\* simulate() returns only when the queues are empty.
AtDone == pc = "done" => AllServed

Served == TokensOK /\ TurnsOK /\ GivenBack /\ AtDone

\* The request whose fields a step may change.
Touched == IF pc \in {"preempt", "retire"} THEN victim
           ELSE IF pc = "admit" THEN Head(waiting) ELSE Head(todo)

LEMMA OthersSame ==
  ASSUME TypeOK, LocalsOK, [Next]_vars
  PROVE  /\ UNCHANGED trace
         /\ reqs' = reqs \/ (Touched \in Requests /\ \A y \in Requests \ {Touched} : reqs'[y] = reqs[y])
<1>1. reqs \in [Requests -> ReqFields]
  BY DEF TypeOK
<1>2. CASE \/ UNCHANGED vars \/ Over \/ NextRound \/ Return \/ Arrive \/ NoneDue \/ IdleJump \/ Stuck
           \/ AdmitMatch \/ AdmitFails \/ Unmatch \/ Refuse \/ NoCandidate
           \/ BeginStep \/ PlanDecode \/ BeginAlloc \/ AllocNone
  BY <1>2, Zenon DEF vars, fixed, Over, NextRound, Return, Arrive, NoneDue, IdleJump, Stuck, AdmitMatch, AdmitFails,
              Unmatch, Refuse, NoCandidate, BeginStep, PlanDecode, BeginAlloc, AllocNone
<1>3. CASE \/ Preempt \/ SelfPreempted \/ Stall \/ BeginPrefill \/ Published \/ Elapse
           \/ BeginDecode \/ BeginFinish \/ Finish \/ EndStep \/ Skip
  BY <1>3 DEF fixed, Preempt, SelfPreempted, Stall, BeginPrefill, Published, Elapse, BeginDecode,
              BeginFinish, Finish, EndStep, Skip
<1>4. CASE Admit
  <2>1. Touched = Head(waiting) /\ Head(waiting) \in Requests
    BY <1>4, TailDistinct DEF Admit, Candidate, Touched, TypeOK
  <2> QED
    BY <1>1, <1>4, <2>1 DEF Admit, fixed
<1>5. CASE ReleaseBlock \/ Requeue \/ Retired
  <2>1. Touched = victim /\ victim \in Requests
    BY <1>5, Zenon DEF ReleaseBlock, Requeue, Retired, Touched, LocalsOK
  <2> QED
    BY <1>1, <1>5, <2>1 DEF ReleaseBlock, Requeue, Retired, fixed
<1>6. CASE \/ Alloc \/ Rematch \/ PrefillChunk \/ PublishBlock \/ PublishDisabled
           \/ FirstToken \/ DecodeToken \/ PublishGen \/ Decoded
  <2>1. todo # <<>> /\ pc \notin {"preempt", "retire", "admit"} /\ UNCHANGED trace
    BY <1>6, Zenon DEF Alloc, Rematch, PrefillTurn, PrefillChunk, PublishBlock, PublishDisabled, FirstToken,
                DecodeToken, PublishGen, Decoded, LocalsOK, fixed
  <2>2. Touched = Head(todo) /\ Head(todo) \in Requests
    BY <2>1, TailDistinct DEF Touched, TypeOK
  <2>3. \A y \in Requests \ {Head(todo)} : reqs'[y] = reqs[y]
    <3>1. CASE Alloc \/ Rematch \/ PrefillChunk \/ PublishBlock \/ PublishDisabled
      BY <1>1, <2>2, <3>1, Zenon DEF Alloc, Rematch, PrefillChunk, PublishBlock, PublishDisabled
    <3>2. CASE FirstToken \/ DecodeToken \/ Decoded
      BY <1>1, <2>2, <3>2, Zenon DEF FirstToken, DecodeToken, Decoded
    <3>3. CASE PublishGen
      BY <1>1, <2>2, <3>3, Zenon DEF PublishGen
    <3> QED
      BY <1>6, <3>1, <3>2, <3>3, SMTT(30)
  <2> QED
    BY <2>1, <2>2, <2>3, SMTT(30)
<1> QED
  BY <1>2, <1>3, <1>4, <1>5, <1>6 DEF Next

\* Only four actions change how many tokens a request has, and whether it is finished.
ServeSame == \A r \in Requests : /\ reqs'[r].generated = reqs[r].generated
                                 /\ reqs'[r].ttft = reqs[r].ttft
                                 /\ reqs'[r].finish = reqs[r].finish

LEMMA ServeFields ==
  ASSUME TypeOK, LocalsOK, [Next]_vars, ~(Requeue \/ FirstToken \/ DecodeToken \/ Decoded)
  PROVE  ServeSame
<1>1. reqs \in [Requests -> ReqFields]
  BY DEF TypeOK
<1>2. SUFFICES ASSUME Touched \in Requests, \A y \in Requests \ {Touched} : reqs'[y] = reqs[y]
               PROVE  LET r == Touched
                      IN  /\ reqs'[r].generated = reqs[r].generated
                          /\ reqs'[r].ttft = reqs[r].ttft /\ reqs'[r].finish = reqs[r].finish
  BY OthersSame DEF ServeSame
<1>3. CASE \/ UNCHANGED vars \/ Over \/ NextRound \/ Return \/ Arrive \/ NoneDue \/ IdleJump \/ Stuck
           \/ AdmitMatch \/ AdmitFails \/ Unmatch \/ Refuse \/ NoCandidate
           \/ BeginStep \/ PlanDecode \/ BeginAlloc \/ AllocNone
           \/ Preempt \/ SelfPreempted \/ Stall \/ BeginPrefill \/ Published \/ Elapse
           \/ BeginDecode \/ BeginFinish \/ Finish \/ EndStep \/ Skip
  <2>1. UNCHANGED reqs
    BY <1>3, Zenon DEF vars, Over, NextRound, Return, Arrive, NoneDue, IdleJump, Stuck, AdmitMatch, AdmitFails,
                Unmatch, Refuse, NoCandidate, BeginStep, PlanDecode, BeginAlloc, AllocNone,
                Preempt, SelfPreempted, Stall, BeginPrefill, Published, Elapse, BeginDecode,
                BeginFinish, Finish, EndStep, Skip
  <2> QED
    BY <2>1
<1> PICK x : x = Touched
  OBVIOUS
<1>4. CASE Admit
  <2>1. PICK a, b, c, d, e : reqs' = [reqs EXCEPT ![x].pinned = a, ![x].alloc = b, ![x].cached = c,
                                                  ![x].prefilled = d, ![x].inserted = e]
    BY <1>4, Zenon DEF Admit, Touched
  <2> QED
    BY <1>1, <1>2, <2>1, SMTT(30) DEF ReqFields
<1>5. CASE Alloc \/ Retired
  <2>1. PICK a : reqs' = [reqs EXCEPT ![x].alloc = a]
    BY <1>5 DEF Alloc, Retired, Touched
  <2> QED
    BY <1>1, <1>2, <2>1 DEF ReqFields
<1>6. CASE ReleaseBlock
  <2>1. PICK a : reqs' = [reqs EXCEPT ![x].pinned = a]
    BY <1>6 DEF ReleaseBlock, Touched
  <2> QED
    BY <1>1, <1>2, <2>1 DEF ReqFields
<1>7. CASE Rematch
  <2>1. PICK a, b, c, d, e : reqs' = [reqs EXCEPT ![x].pinned = a, ![x].prefilled = b, ![x].cached = c,
                                                  ![x].alloc = d, ![x].inserted = e]
    BY <1>7, Zenon DEF Rematch, PrefillTurn, Touched
  <2> QED
    BY <1>1, <1>2, <2>1 DEF ReqFields
<1>8. CASE PrefillChunk
  <2>1. PICK a : reqs' = [reqs EXCEPT ![x].prefilled = a]
    BY <1>8 DEF PrefillChunk, PrefillTurn, Touched
  <2> QED
    BY <1>1, <1>2, <2>1 DEF ReqFields
<1>9. CASE PublishBlock
  <2>1. PICK a, b, c : reqs' = [reqs EXCEPT ![x].alloc = a, ![x].pinned = b, ![x].inserted = c]
    BY <1>9, Zenon DEF PublishBlock, Touched
  <2> QED
    BY <1>1, <1>2, <2>1 DEF ReqFields
<1>10. CASE PublishDisabled
  <2>1. PICK a : reqs' = [reqs EXCEPT ![x].inserted = a]
    BY <1>10 DEF PublishDisabled, Touched
  <2> QED
    BY <1>1, <1>2, <2>1 DEF ReqFields
<1>11. CASE PublishGen
  <2> PICK h : h = GenHash(x, reqs[x].genInserted)
    OBVIOUS
  <2>1. \/ reqs' = [reqs EXCEPT ![x].genInserted = @ + 1]
        \/ reqs' = [reqs EXCEPT ![x].alloc = Returned(@), ![x].pinned = Append(@, h), ![x].genInserted = @ + 1]
    BY <1>11, Zenon DEF PublishGen, Touched
  <2>2. CASE reqs' = [reqs EXCEPT ![x].genInserted = @ + 1]
    BY <1>1, <1>2, <2>2 DEF ReqFields
  <2>3. CASE reqs' = [reqs EXCEPT ![x].alloc = Returned(@), ![x].pinned = Append(@, h), ![x].genInserted = @ + 1]
    BY <1>1, <1>2, <2>3 DEF ReqFields
  <2> QED
    BY <2>1, <2>2, <2>3
<1> QED
  BY <1>3, <1>4, <1>5, <1>6, <1>7, <1>8, <1>9, <1>10, <1>11 DEF Next

\* The serving actions, field by field.
LEMMA RequeueFields ==
  ASSUME TypeOK, LocalsOK, Requeue
  PROVE  /\ victim \in Requests /\ reqs'[victim].generated = 0 /\ reqs'[victim].alloc = 0
         /\ reqs'[victim].finish = reqs[victim].finish /\ reqs'[victim].pinned = reqs[victim].pinned
         /\ \A y \in Requests \ {victim} : reqs'[y] = reqs[y]
<1>1. victim \in Requests /\ reqs \in [Requests -> ReqFields]
  BY DEF TypeOK, LocalsOK, Requeue
<1> QED
  BY <1>1 DEF Requeue, ReqFields

LEMMA FirstTokenFields ==
  ASSUME TypeOK, FirstToken, NEW h, h = Head(todo)
  PROVE  /\ h \in Requests /\ reqs'[h].generated = 1 /\ reqs'[h].ttft
         /\ reqs'[h].finish = (reqs[h].finish \/ OutputLen(h) <= 1)
         /\ reqs'[h].pinned = reqs[h].pinned /\ reqs'[h].alloc = reqs[h].alloc
         /\ \A y \in Requests \ {h} : reqs'[y] = reqs[y]
<1>1. h \in Requests /\ reqs \in [Requests -> ReqFields]
  BY TailDistinct DEF TypeOK, FirstToken
<1>2. PICK y : y = (reqs[h].finish \/ OutputLen(h) <= 1)
  OBVIOUS
<1>3. reqs' = [reqs EXCEPT ![h].ttft = TRUE, ![h].generated = 1, ![h].finish = y]
  BY <1>1, <1>2 DEF FirstToken
<1>4. /\ reqs'[h].generated = 1 /\ reqs'[h].ttft = TRUE /\ reqs'[h].finish = y
      /\ reqs'[h].pinned = reqs[h].pinned /\ reqs'[h].alloc = reqs[h].alloc
  BY <1>1, <1>3 DEF ReqFields
<1>5. \A x \in Requests \ {h} : reqs'[x] = reqs[x]
  BY <1>1, <1>3
<1> QED
  BY <1>1, <1>2, <1>4, <1>5

LEMMA DecodeTokenFields ==
  ASSUME TypeOK, DecodeToken, NEW h, h = Head(todo)
  PROVE  /\ h \in Requests /\ reqs'[h].generated = reqs[h].generated + 1
         /\ reqs'[h].ttft = (reqs[h].ttft \/ reqs[h].generated = 0)
         /\ reqs'[h].finish = reqs[h].finish
         /\ reqs'[h].pinned = reqs[h].pinned /\ reqs'[h].alloc = reqs[h].alloc
         /\ \A y \in Requests \ {h} : reqs'[y] = reqs[y]
<1>1. h \in Requests /\ reqs \in [Requests -> ReqFields]
  BY TailDistinct, Zenon DEF TypeOK, DecodeToken
<1>2. PICK y, n : y = (reqs[h].ttft \/ reqs[h].generated = 0) /\ n = reqs[h].generated + 1
  OBVIOUS
<1>3. PICK g : reqs' = [reqs EXCEPT ![h].ttft = y, ![h].generated = n, ![h].genInserted = g]
  BY <1>1, <1>2, Zenon DEF DecodeToken
<1>4. /\ reqs'[h].generated = n /\ reqs'[h].ttft = y /\ reqs'[h].finish = reqs[h].finish
      /\ reqs'[h].pinned = reqs[h].pinned /\ reqs'[h].alloc = reqs[h].alloc
  BY <1>1, <1>3 DEF ReqFields
<1>5. \A x \in Requests \ {h} : reqs'[x] = reqs[x]
  BY <1>1, <1>3
<1> QED
  BY <1>1, <1>2, <1>4, <1>5

LEMMA DecodedFields ==
  ASSUME TypeOK, LocalsOK, Decoded, NEW h, h = Head(todo)
  PROVE  /\ h \in Requests /\ reqs'[h].generated = reqs[h].generated /\ reqs'[h].ttft = reqs[h].ttft
         /\ reqs'[h].finish = (reqs[h].finish \/ Complete(h))
         /\ reqs'[h].pinned = reqs[h].pinned /\ reqs'[h].alloc = reqs[h].alloc
         /\ \A y \in Requests \ {h} : reqs'[y] = reqs[y]
<1>1. h \in Requests /\ reqs \in [Requests -> ReqFields]
  BY TailDistinct, Zenon DEF TypeOK, LocalsOK, Decoded
<1>2. PICK y : y = (reqs[h].finish \/ Complete(h))
  OBVIOUS
<1>3. PICK g : reqs' = [reqs EXCEPT ![h].finish = y, ![h].genInserted = g]
  BY <1>1, <1>2, Zenon DEF Decoded
<1>4. /\ reqs'[h].generated = reqs[h].generated /\ reqs'[h].ttft = reqs[h].ttft /\ reqs'[h].finish = y
      /\ reqs'[h].pinned = reqs[h].pinned /\ reqs'[h].alloc = reqs[h].alloc
  BY <1>1, <1>3 DEF ReqFields
<1>5. \A x \in Requests \ {h} : reqs'[x] = reqs[x]
  BY <1>1, <1>3
<1> QED
  BY <1>1, <1>2, <1>4, <1>5

LEMMA TokensStep ==
  ASSUME IInv, InLine, Accounted, Accounted', TokensOK, TurnsOK, [Next]_vars
  PROVE  TokensOK'
<1>1. TypeOK /\ LocalsOK
  BY DEF IInv
<1>2. UNCHANGED trace /\ Requests' = Requests /\ \A r : OutputLen(r)' = OutputLen(r)
  BY <1>1, OthersSame, SameTrace
<1>3. \A r \in Requests : OutputLen(r) \in Nat \ {0} /\ reqs[r].generated \in Nat
  BY <1>1, TraceFacts, ReqFacts
<1>4. CASE ~(Requeue \/ FirstToken \/ DecodeToken \/ Decoded)
  <2>1. ServeSame
    BY <1>1, <1>4, ServeFields
  <2>2. pc = "publish gen" => UNCHANGED <<pc, todo>>
    <3>1. CASE PublishGen \/ UNCHANGED vars
      BY <3>1, Zenon DEF PublishGen, vars, step
    <3>2. CASE pc # "publish gen"
      BY <3>2, Zenon
    <3> QED
      BY <1>4, <3>1, <3>2, Zenon
         DEF Next, Over, NextRound, Return, Arrive, NoneDue, IdleJump, Stuck, AdmitMatch, Admit, AdmitFails,
             Unmatch, Refuse, NoCandidate, BeginStep, PlanDecode, BeginAlloc, AllocNone, Alloc, Preempt,
             ReleaseBlock, SelfPreempted, Stall, BeginPrefill, Rematch, PrefillTurn, PrefillChunk, PublishBlock,
             PublishDisabled, Published, Elapse, BeginDecode, BeginFinish, Finish, Retired, EndStep, Skip
  <2> QED
    BY <1>2, <2>1, <2>2, Zenon DEF TokensOK, ServeSame, Complete
<1>5. CASE Requeue
  <2> PICK v : v = victim
    OBVIOUS
  <2>1. /\ v \in Requests /\ reqs'[v].generated = 0
        /\ reqs'[v].finish = reqs[v].finish
        /\ \A y \in Requests \ {v} : reqs'[y] = reqs[y]
        /\ pc = "preempt" /\ waiting' = <<v>> \o waiting
    BY <1>1, <1>5, RequeueFields DEF Requeue
  <2>2. v \in Range(waiting')
    <3>1. waiting \in Seq(Requests)
      BY <1>1 DEF TypeOK
    <3>2. waiting' \in Seq(Requests) /\ Len(waiting') = 1 + Len(waiting) /\ waiting'[1] = v
      BY <2>1, <3>1
    <3> QED
      BY <3>1, <3>2, LenProperties, RangeIs
  <2>3. ~reqs'[v].finish
    BY <1>2, <2>1, <2>2 DEF Accounted, DoneOK
  <2>4. \A r \in Requests \ {v} : Complete(r)' <=> Complete(r)
    BY <1>2, <2>1 DEF Complete
  <2>5. ~Complete(v)' /\ reqs'[v].generated <= OutputLen(v)
    BY <1>2, <1>3, <2>1 DEF Complete
  <2>6. ~(reqs'[v].generated > 0)
    BY <2>1
  <2> QED
    BY <1>2, <2>1, <2>3, <2>4, <2>5, <2>6, Zenon DEF TokensOK
<1>6. CASE FirstToken
  <2> PICK h : h = Head(todo)
    OBVIOUS
  <2>1. /\ h \in Requests /\ reqs'[h].generated = 1 /\ reqs'[h].ttft
        /\ reqs'[h].finish = (reqs[h].finish \/ OutputLen(h) <= 1)
        /\ \A y \in Requests \ {h} : reqs'[y] = reqs[y]
    BY <1>1, <1>6, FirstTokenFields
  <2>2. pc = "first" /\ Loop = "first" /\ h \in Range(running)
    BY <1>1, <1>6, HeadTaken, Zenon DEF FirstToken, Loop, Left, Accounted, ListsOK
  <2>3. ~reqs[h].finish
    BY <2>1, <2>2 DEF Accounted, DoneOK
  <2>4. \A r \in Requests \ {h} : Complete(r)' <=> Complete(r)
    BY <1>2, <2>1 DEF Complete
  <2>5. (Complete(h)' <=> reqs'[h].finish) /\ reqs'[h].generated <= OutputLen(h)
    <3>1. reqs'[h].finish <=> OutputLen(h) <= 1
      BY <2>1, <2>3
    <3>2. reqs'[h].generated = 1 /\ OutputLen(h) \in Nat \ {0}
      BY <1>3, <2>1
    <3> QED
      BY <1>2, <3>1, <3>2 DEF Complete
  <2> QED
    BY <1>2, <2>1, <2>2, <2>4, <2>5, Zenon DEF TokensOK
<1>7. CASE DecodeToken
  <2> PICK h : h = Head(todo)
    OBVIOUS
  <2>1. /\ h \in Requests /\ reqs'[h].generated = reqs[h].generated + 1
        /\ reqs'[h].ttft = (reqs[h].ttft \/ reqs[h].generated = 0)
        /\ reqs'[h].finish = reqs[h].finish
        /\ \A y \in Requests \ {h} : reqs'[y] = reqs[y]
    BY <1>1, <1>7, DecodeTokenFields
  <2>2. pc = "decode" /\ Loop = "decode" /\ pc' = "publish gen" /\ todo' = todo /\ h \in Range(todo)
    BY <1>1, <1>7, HeadTaken, Zenon DEF DecodeToken, Loop, Accounted, step
  <2>3. ~reqs[h].finish /\ ~Complete(h)
    BY <2>1, <2>2, Zenon DEF TurnsOK, TokensOK
  <2>4. \A r \in Requests \ {h} : Complete(r)' <=> Complete(r)
    BY <1>2, <2>1 DEF Complete
  <2>5. reqs'[h].generated <= OutputLen(h) /\ reqs'[h].ttft
    <3>1. reqs'[h].generated = reqs[h].generated + 1 /\ OutputLen(h) \in Nat /\ reqs[h].generated \in Nat
      BY <1>3, <2>1
    <3>2. reqs[h].generated = 0 \/ reqs[h].generated > 0
      BY <3>1
    <3>3. h \in Requests /\ (reqs[h].generated > 0 => reqs[h].ttft)
      BY <2>1, Zenon DEF TokensOK
    <3>4. reqs'[h].ttft
      BY <2>1, <3>2, <3>3
    <3>5. reqs'[h].generated <= OutputLen(h)
      BY <2>3, <3>1 DEF Complete
    <3> QED
      BY <3>4, <3>5
  <2> QED
    BY <1>2, <2>1, <2>2, <2>3, <2>4, <2>5, Zenon DEF TokensOK
<1>8. CASE Decoded
  <2> PICK h : h = Head(todo)
    OBVIOUS
  <2>1. /\ h \in Requests /\ reqs'[h].generated = reqs[h].generated /\ reqs'[h].ttft = reqs[h].ttft
        /\ reqs'[h].finish = (reqs[h].finish \/ Complete(h))
        /\ \A y \in Requests \ {h} : reqs'[y] = reqs[y]
    BY <1>1, <1>8, DecodedFields
  <2>2. \A r \in Requests : Complete(r)' <=> Complete(r)
    BY <1>2, <2>1 DEF Complete
  <2> QED
    BY <1>2, <2>1, <2>2, Zenon DEF TokensOK
<1> QED
  BY <1>4, <1>5, <1>6, <1>7, <1>8

\* A loop goes on with no more requests than it had.
LEMMA TurnsKept ==
  ASSUME TurnsOK, Loop' = Loop, Range(todo') \subseteq Range(todo),
         Loop = "prefill" => Range(running) \subseteq Range(running'),
         Range(batch') \subseteq Range(batch) \cup Range(todo),
         Loop \in {"plan", "alloc"} \/ Range(batch') \subseteq Range(batch),
         \A r \in Range(todo) \cup Range(batch) : reqs'[r].finish = reqs[r].finish
  PROVE  TurnsOK'
  BY DEF TurnsOK

LEMMA TurnsStep ==
  ASSUME IInv, InLine, Accounted, TurnsOK, [Next]_vars
  PROVE  TurnsOK'
<1> USE DEF queues, step, call
<1>1. TypeOK /\ LocalsOK
  BY DEF IInv
<1>2. /\ Range(todo) \subseteq Requests /\ Range(batch) \subseteq Requests
      /\ Range(running) \subseteq Requests /\ Range(<<>>) = {}
  BY <1>1, RangeFacts
<1>3. todo # <<>> => /\ Range(Tail(todo)) \subseteq Range(todo)
                     /\ Range(Append(batch, Head(todo))) \subseteq Range(batch) \cup Range(todo)
  BY <1>1, HeadTaken DEF Accounted
<1>4. CASE \/ NextRound \/ Return \/ Arrive \/ NoneDue \/ IdleJump \/ Stuck
           \/ AdmitMatch \/ Admit \/ AdmitFails \/ Unmatch \/ Refuse \/ NoCandidate \/ EndStep
  <2>1. pc' \in Outer
    BY <1>4, Zenon DEF NextRound, Return, Arrive, NoneDue, IdleJump, Stuck, AdmitMatch, Admit, AdmitFails, Unmatch,
                Refuse, NoCandidate, EndStep, Accounted, ListsOK, Outer
  <2> QED
    BY <2>1, Zenon DEF Outer, Loop, TurnsOK
<1>5. CASE UNCHANGED vars \/ Over
  BY <1>5, TurnsKept, Zenon DEF vars, Over, Loop
<1>6. CASE BeginStep
  <2>1. /\ pc' = "plan" /\ todo' = running /\ batch' = <<>> /\ reqs' = reqs /\ Loop = "idle" /\ Loop' = "plan"
    BY <1>6 DEF BeginStep, Loop
  <2> QED
    BY <1>2, <2>1 DEF TurnsOK, Accounted, DoneOK
<1>7. CASE BeginAlloc \/ BeginPrefill \/ Elapse \/ BeginDecode \/ BeginFinish \/ Finish
  BY <1>2, <1>7, Zenon DEF BeginAlloc, BeginPrefill, Elapse, BeginDecode, BeginFinish, Finish, Loop, TurnsOK
<1>8. CASE \/ PlanDecode \/ AllocNone \/ Alloc \/ SelfPreempted \/ Stall \/ Preempt \/ Published
           \/ PrefillChunk \/ PublishBlock \/ PublishDisabled \/ Rematch \/ PublishGen
           \/ ReleaseBlock \/ Retired \/ Skip
  <2>1. ServeSame
    <3>1. ~(Requeue \/ FirstToken \/ DecodeToken \/ Decoded)
      BY <1>8, <1>1, ZenonT(30) DEF PlanDecode, AllocNone, Alloc, SelfPreempted, Stall, Preempt, Published, PrefillChunk,
                  PrefillTurn, PublishBlock, PublishDisabled, Rematch, PublishGen, ReleaseBlock, Retired, Skip,
                  Requeue, FirstToken, DecodeToken, Decoded, LocalsOK
    <3> QED
      BY <1>1, <3>1, ServeFields, SMTT(30)
  <2>2. todo # <<>>
    BY <1>1, <1>8, Zenon DEF PlanDecode, AllocNone, Alloc, SelfPreempted, Stall, Preempt, Published, PrefillChunk,
                PrefillTurn, PublishBlock, PublishDisabled, Rematch, PublishGen, ReleaseBlock, Retired, Skip, LocalsOK
  <2>3. CASE PlanDecode \/ AllocNone \/ Alloc \/ SelfPreempted \/ Stall \/ Preempt
    <3>1. Loop' = Loop /\ Loop \in {"plan", "alloc"} /\ todo' \in {todo, Tail(todo)}
          /\ batch' \in {batch, Append(batch, Head(todo))}
      BY <2>3, Zenon DEF PlanDecode, AllocNone, Alloc, SelfPreempted, Stall, Preempt, Loop
    <3> QED
      BY <1>2, <1>3, <2>1, <2>2, <3>1, TurnsKept DEF ServeSame
  <2>4. CASE \/ Published \/ PrefillChunk \/ PublishBlock \/ PublishDisabled \/ Rematch \/ PublishGen
             \/ ReleaseBlock \/ Retired \/ Skip
    <3>1. Loop' = Loop /\ todo' \in {todo, Tail(todo)} /\ batch' = batch /\ running' = running
      BY <2>4, Zenon DEF Published, PrefillChunk, PrefillTurn, PublishBlock, PublishDisabled, Rematch, PublishGen,
                  ReleaseBlock, Retired, Skip, Loop, Accounted, ListsOK
    <3> QED
      BY <1>2, <1>3, <2>1, <2>2, <3>1, TurnsKept, Zenon DEF ServeSame
  <2> QED
    BY <1>8, <2>3, <2>4
<1>9. CASE Requeue
  <2>1. Loop = "alloc" /\ Loop' = "alloc" /\ todo' = todo /\ batch' = batch
    BY <1>9 DEF Requeue, Loop
  <2>2. \A r \in Requests : reqs'[r].finish = reqs[r].finish
    BY <1>1, <1>9, RequeueFields
  <2> QED
    BY <1>2, <2>1, <2>2, TurnsKept
<1>10. CASE FirstToken
  <2> PICK h : h = Head(todo)
    OBVIOUS
  <2>1. \A y \in Requests \ {h} : reqs'[y] = reqs[y]
    BY <1>1, <1>10, FirstTokenFields
  <2>2. Loop = "first" /\ Loop' = "first" /\ batch' = batch /\ h \notin Range(batch)
    BY <1>10, Zenon DEF FirstToken, Loop, IsFirstToken
  <2> QED
    BY <1>2, <2>1, <2>2 DEF TurnsOK
<1>11. CASE DecodeToken
  <2>1. \A r \in Requests : reqs'[r].finish = reqs[r].finish
    BY <1>1, <1>11, DecodeTokenFields
  <2>2. Loop = "decode" /\ Loop' = "decode" /\ batch' = batch /\ todo' = todo
    BY <1>11, Zenon DEF DecodeToken, Loop
  <2> QED
    BY <1>2, <2>1, <2>2, TurnsKept
<1>12. CASE Decoded
  <2> PICK h : h = Head(todo)
    OBVIOUS
  <2>1. \A y \in Requests \ {h} : reqs'[y] = reqs[y]
    BY <1>1, <1>12, DecodedFields
  <2>2. Loop = "decode" /\ Loop' = "decode" /\ todo' = Tail(todo) /\ todo # <<>>
    BY <1>1, <1>12, Zenon DEF Decoded, Loop, LocalsOK
  <2>3. Range(todo') = Range(todo) \ {h}
    BY <1>1, <2>2, HeadTaken DEF Accounted
  <2> QED
    BY <1>2, <2>1, <2>2, <2>3 DEF TurnsOK
<1> QED
  BY <1>4, <1>5, <1>6, <1>7, <1>8, <1>9, <1>10, <1>11, <1>12 DEF Next

\* A request that is out of running, and not being released, was so before the step,
\* unless the step is the one that put it there.
LEMMA LeftBefore ==
  ASSUME TypeOK, LocalsOK, InLine, [Next]_vars, NEW r \in Requests,
         r \notin Range(running'), ~(pc' = "retire" /\ r = victim'),
         (Requeue \/ Retired) => r # victim
  PROVE  r \notin Range(running) /\ ~(pc = "retire" /\ r = victim)
<1> USE DEF fixed, queues, step, call
<1>1. running \in Seq(Requests) /\ waiting \in Seq(Requests)
  BY DEF TypeOK
<1>2. ASSUME pc = "retire" PROVE r # victim
  <2>1. ReleaseBlock \/ Retired \/ UNCHANGED vars
    BY <1>2 DEF Next, Over, NextRound, Return, Arrive, NoneDue, IdleJump, Stuck, AdmitMatch, Admit, AdmitFails,
           Unmatch, Refuse, NoCandidate, BeginStep, PlanDecode, BeginAlloc, AllocNone, Alloc, Preempt, Requeue,
           SelfPreempted, Stall, BeginPrefill, Rematch, PrefillTurn, PrefillChunk, PublishBlock, PublishDisabled,
           Published, Elapse, FirstToken, BeginDecode, DecodeToken, PublishGen, Decoded, BeginFinish, Finish,
           EndStep, Skip
  <2>2. Retired \/ (pc' = pc /\ victim' = victim)
    BY <2>1 DEF ReleaseBlock, vars
  <2> QED
    BY <1>2, <2>2
<1>3. r \notin Range(running)
  <2>1. CASE ~(Arrive \/ Admit \/ Requeue \/ FirstToken \/ Finish)
    BY <2>1, QueuesStay DEF InLine
  <2>2. CASE Arrive
    BY <2>2 DEF Arrive
  <2>3. CASE Admit
    <3>1. running' = Append(running, Head(waiting)) /\ Head(waiting) \in Requests
      BY <1>1, <2>3, TailDistinct DEF Admit, Candidate
    <3> QED
      BY <1>1, <3>1, AppendDistinct
  <2>4. CASE Requeue
    <3>1. running' = RemoveFirst(running, victim) /\ r # victim
      BY <2>4 DEF Requeue
    <3>2. victim \in Range(running)
      BY <2>4 DEF Requeue, InLine, VictimLatest
    <3>3. Range(running') = Range(running) \ {victim}
      BY <1>1, <3>1, <3>2, RemoveFirstDistinct DEF InLine
    <3> QED
      BY <3>1, <3>3
  <2>5. CASE FirstToken \/ Finish
    <3> PICK h : h = Head(todo)
      OBVIOUS
    <3>1. \/ running' = running
          \/ running' = RemoveFirst(running, h) /\ pc' = "retire" /\ victim' = h
      BY <2>5 DEF FirstToken, Finish
    <3>2. CASE h \in Range(running)
      <4>1. Range(RemoveFirst(running, h)) = Range(running) \ {h}
        BY <1>1, <3>2, RemoveFirstDistinct DEF InLine
      <4> QED
        BY <3>1, <4>1
    <3>3. CASE h \notin Range(running)
      <4>1. RemoveFirst(running, h) = running
        BY <1>1, <3>3 DEF RemoveFirst, Range
      <4> QED
        BY <3>1, <4>1
    <3> QED
      BY <3>2, <3>3
  <2> QED
    BY <2>1, <2>2, <2>3, <2>4, <2>5
<1> QED
  BY <1>2, <1>3

LEMMA GivenBackStep ==
  ASSUME IInv, InLine, Accounted, Accounted', TurnsOK, GivenBack, [Next]_vars
  PROVE  GivenBack'
<1> USE DEF fixed, queues, step, call
<1>1. TypeOK /\ LocalsOK /\ reqs \in [Requests -> ReqFields]
  BY DEF IInv, TypeOK
<1>2. UNCHANGED trace /\ Requests' = Requests
  BY <1>1, OthersSame, SameTrace
<1> SUFFICES ASSUME NEW r \in Requests, reqs'[r].finish, r \notin Range(running'),
                    ~(pc' = "retire" /\ r = victim')
             PROVE  reqs'[r].pinned = <<>> /\ reqs'[r].alloc = 0
  BY <1>2 DEF GivenBack
<1>3. ASSUME reqs'[r].finish = reqs[r].finish, reqs'[r].pinned = reqs[r].pinned,
             reqs'[r].alloc = reqs[r].alloc, (Requeue \/ Retired) => r # victim
      PROVE  reqs'[r].pinned = <<>> /\ reqs'[r].alloc = 0
  <2>1. r \notin Range(running) /\ ~(pc = "retire" /\ r = victim)
    BY <1>1, <1>3, LeftBefore
  <2> QED
    BY <1>3, <2>1 DEF GivenBack
<1>4. CASE Requeue
  <2> PICK v : v = victim
    OBVIOUS
  <2>1. /\ \A y \in Requests \ {v} : reqs'[y] = reqs[y]
        /\ waiting' = <<v>> \o waiting /\ v \in Requests
    BY <1>1, <1>4, RequeueFields DEF Requeue
  <2>2. v \in Range(waiting')
    <3>1. waiting \in Seq(Requests)
      BY <1>1 DEF TypeOK
    <3>2. waiting' \in Seq(Requests) /\ Len(waiting') = 1 + Len(waiting) /\ waiting'[1] = v
      BY <2>1, <3>1
    <3> QED
      BY <3>1, <3>2, LenProperties, RangeIs
  <2>3. ~reqs'[v].finish
    BY <1>2, <2>1, <2>2 DEF Accounted, DoneOK
  <2> QED
    BY <1>3, <2>1, <2>3
<1>5. CASE Retired
  <2>1. /\ victim \in Requests /\ reqs[victim].pinned = <<>>
        /\ reqs' = [reqs EXCEPT ![victim].alloc = 0]
    BY <1>1, <1>5 DEF Retired, LocalsOK
  <2>2. r = victim => reqs'[r].pinned = <<>> /\ reqs'[r].alloc = 0
    BY <1>1, <2>1 DEF ReqFields
  <2>3. r # victim => reqs'[r] = reqs[r]
    BY <1>1, <2>1
  <2> QED
    BY <1>3, <2>2, <2>3
<1>6. CASE r # Touched /\ ~Requeue /\ ~Retired
  <2>1. reqs'[r] = reqs[r]
    BY <1>1, <1>6, OthersSame
  <2> QED
    BY <1>3, <1>6, <2>1
<1>7. CASE \/ UNCHANGED vars \/ Over \/ NextRound \/ Return \/ Arrive \/ NoneDue \/ IdleJump \/ Stuck
           \/ AdmitMatch \/ AdmitFails \/ Unmatch \/ Refuse \/ NoCandidate
           \/ BeginStep \/ PlanDecode \/ BeginAlloc \/ AllocNone
           \/ Preempt \/ SelfPreempted \/ Stall \/ BeginPrefill \/ Published \/ Elapse
           \/ BeginDecode \/ BeginFinish \/ Finish \/ EndStep \/ Skip
  <2>1. UNCHANGED reqs
    BY <1>7, Zenon DEF vars, Over, NextRound, Return, Arrive, NoneDue, IdleJump, Stuck, AdmitMatch, AdmitFails,
                Unmatch, Refuse, NoCandidate, BeginStep, PlanDecode, BeginAlloc, AllocNone,
                Preempt, SelfPreempted, Stall, BeginPrefill, Published, Elapse, BeginDecode,
                BeginFinish, Finish, EndStep, Skip
  <2> QED
    BY <1>3, <1>4, <1>5, <2>1
<1> SUFFICES ASSUME r = Touched, ~Requeue, ~Retired
             PROVE  reqs'[r].pinned = <<>> /\ reqs'[r].alloc = 0
  BY <1>4, <1>5, <1>6
<1>8. CASE Admit
  <2>1. r = Head(waiting) /\ running' = Append(running, r) /\ running \in Seq(Requests)
    BY <1>1, <1>8 DEF Admit, Touched, TypeOK
  <2> QED
    BY <2>1, AppendDistinct
<1>9. CASE Alloc \/ PublishGen
  <2>1. r = Head(todo) /\ todo # <<>> /\ Loop \in {"alloc", "decode"}
    BY <1>1, <1>9, Zenon DEF Alloc, PublishGen, Touched, LocalsOK, Loop
  <2>2. ~reqs[r].finish
    BY <1>1, <2>1, HeadTaken DEF TurnsOK, Accounted
  <2>3. ServeSame
    <3>1. ~(Requeue \/ FirstToken \/ DecodeToken \/ Decoded)
      BY <1>9, <2>1, Zenon DEF Alloc, PublishGen, Requeue, FirstToken, DecodeToken, Decoded
    <3> QED
      BY <1>1, <3>1, ServeFields, SMTT(30)
  <2> QED
    BY <2>2, <2>3 DEF ServeSame
<1>10. CASE ReleaseBlock
  <2>1. r = victim /\ pc' = pc /\ victim' = victim /\ running' = running /\ pc \in {"preempt", "retire"}
    BY <1>10 DEF ReleaseBlock, Touched
  <2> QED
    BY <2>1 DEF InLine, VictimLatest
<1>11. CASE Rematch \/ PublishBlock \/ PublishDisabled \/ PrefillChunk
  <2>1. r = Head(todo) /\ todo # <<>> /\ Loop = "prefill" /\ running' = running
    BY <1>1, <1>11, Zenon DEF Rematch, PrefillTurn, PublishBlock, PublishDisabled, PrefillChunk, Touched, LocalsOK, Loop
  <2> QED
    BY <1>1, <2>1, HeadTaken, SMTT(30) DEF TurnsOK, Accounted
<1>12. CASE FirstToken
  <2>1. r = Head(todo) /\ todo # <<>> /\ pc = "first" /\ Loop = "first"
    BY <1>12 DEF FirstToken, Touched, Loop
  <2>2. r \in Range(running)
    BY <1>1, <2>1, HeadTaken, Zenon DEF Accounted, ListsOK, Left
  <2>3. ~reqs[r].finish
    BY <2>1, <2>2 DEF Accounted, DoneOK
  <2>4. OutputLen(r) <= 1 => pc' = "retire" /\ victim' = r
    BY <1>12, <2>1 DEF FirstToken
  <2>5. ~(OutputLen(r) <= 1)
    BY <2>4
  <2> QED
    BY <1>1, <1>12, <2>1, <2>3, <2>5, FirstTokenFields
<1>13. CASE DecodeToken
  <2>1. r = Head(todo)
    BY <1>13, Zenon DEF DecodeToken, Touched
  <2> QED
    BY <1>1, <1>3, <1>13, <2>1, DecodeTokenFields
<1>14. CASE Decoded
  <2>1. r = Head(todo) /\ todo # <<>> /\ Loop = "decode" /\ UNCHANGED <<pending, waiting, running>>
    BY <1>1, <1>14, Zenon DEF Decoded, Touched, LocalsOK, Loop
  <2>2. ~reqs[r].finish
    BY <1>1, <2>1, HeadTaken DEF TurnsOK, Accounted
  <2>3. r \in Range(running) \cup Range(waiting) \cup Range(pending)
    BY <2>2 DEF Accounted, DoneOK
  <2>4. r \notin Range(waiting') \cup Range(pending')
    BY <1>2 DEF Accounted, DoneOK
  <2> QED
    BY <2>1, <2>3, <2>4
<1> QED
  BY <1>7, <1>8, <1>9, <1>10, <1>11, <1>12, <1>13, <1>14 DEF Next

LEMMA AtDoneStep ==
  ASSUME TypeOK, AtDone, [Next]_vars
  PROVE  AtDone'
<1>1. CASE Return \/ UNCHANGED vars \/ Over
  BY <1>1, Zenon DEF Return, vars, queues, Over, AtDone, AllServed
<1>2. CASE ~(Return \/ UNCHANGED vars \/ Over)
  <2>1. pc' # "done"
    BY <1>2, Zenon DEF Next, NextRound, Arrive, NoneDue, IdleJump, Stuck, AdmitMatch, Admit, AdmitFails,
           Unmatch, Refuse, NoCandidate, BeginStep, PlanDecode, BeginAlloc, AllocNone, Alloc, Preempt,
           ReleaseBlock, Requeue, SelfPreempted, Stall, BeginPrefill, Rematch, PrefillTurn, PrefillChunk,
           PublishBlock, PublishDisabled, Published, Elapse, FirstToken, BeginDecode, DecodeToken, PublishGen,
           Decoded, BeginFinish, Finish, Retired, EndStep, Skip, TypeOK
  <2> QED
    BY <2>1, SMTT(30) DEF AtDone
<1> QED
  BY <1>1, <1>2

LEMMA InitServed == Init => Served
<1> SUFFICES ASSUME Init PROVE Served
  OBVIOUS
<1>1. TypeOK /\ pc = "loop" /\ \A r \in Requests : reqs[r] = NewReq
  BY InitIInv DEF IInv, Init
<1>2. \A r \in Requests : OutputLen(r) \in Nat \ {0} /\ reqs[r].generated = 0 /\ ~reqs[r].finish
  BY <1>1, TraceFacts DEF NewReq
<1> QED
  BY <1>1, <1>2 DEF Served, TokensOK, TurnsOK, GivenBack, AtDone, Complete, Loop

\* Empty queues leave nobody who has not finished.
LEMMA ServedInTheEnd == TypeOK /\ Accounted /\ Served => ServedInFull
<1> SUFFICES ASSUME TypeOK, Accounted, Served, pc = "done", NEW r \in Requests
             PROVE  /\ reqs[r].finish /\ reqs[r].ttft /\ reqs[r].generated = OutputLen(r)
                    /\ reqs[r].pinned = <<>> /\ reqs[r].alloc = 0
  BY DEF ServedInFull
<1>1. Range(running) = {} /\ Range(waiting) = {} /\ Range(pending) = {}
  BY RangeFacts DEF Served, AtDone, AllServed
<1>2. reqs[r].finish
  BY <1>1 DEF Accounted, DoneOK
<1>3. reqs[r].generated <= OutputLen(r) /\ Complete(r) /\ (reqs[r].generated > 0 => reqs[r].ttft)
  BY <1>2 DEF Served, TokensOK
<1>4. OutputLen(r) \in Nat \ {0} /\ reqs[r].generated \in Nat
  BY TraceFacts, ReqFacts
<1>5. reqs[r].generated = OutputLen(r) /\ reqs[r].generated > 0
  BY <1>3, <1>4 DEF Complete
<1>6. reqs[r].pinned = <<>> /\ reqs[r].alloc = 0
  BY <1>1, <1>2 DEF Served, GivenBack
<1> QED
  BY <1>2, <1>3, <1>5, <1>6

\* When simulate() returns, every request has been given exactly its output, has a
\* first-token time and holds no block, for every trace, pool and timing, whatever was
\* preempted on the way.
THEOREM AllServedInFull == Spec => []ServedInFull
<1>1. Init => IInv /\ InLine /\ Accounted /\ Served
  BY InitIInv, InitInLine, InitAccounted, InitServed
<1>2. IInv /\ InLine /\ Accounted /\ Served /\ [Next]_vars => InLine' /\ Accounted' /\ Served'
  <2> SUFFICES ASSUME IInv, InLine, Accounted, Served, [Next]_vars PROVE InLine' /\ Accounted' /\ Served'
    OBVIOUS
  <2>1. TypeOK
    BY DEF IInv
  <2>2. InLine' /\ Accounted'
    BY <2>1, NextInLine, NextAccounted
  <2>3. Served'
    BY <2>1, <2>2, TokensStep, TurnsStep, GivenBackStep, AtDoneStep DEF Served
  <2> QED
    BY <2>2, <2>3
<1>3. IInv => TypeOK
  BY DEF IInv
<1> QED
  BY <1>1, <1>2, <1>3, Invariance, ServedInTheEnd, PTL DEF Spec
=============================================================================
