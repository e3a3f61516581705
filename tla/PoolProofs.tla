---------------------------- MODULE PoolProofs ----------------------------
(***************************************************************************)
(* Proofs about the block pool of simulate(): a block has one pin for      *)
(* every request, or match in progress, that holds it; what is cached and  *)
(* what is owned never exceeds the pool; and a running request has blocks  *)
(* for the tokens it has computed.  The first sections assume that whoever *)
(* waits holds nothing, and that no prompt ends where a block ends; then   *)
(* comes the one way in which a request that waits gets to hold something, *)
(* the prompts for which it never does, and what follows for an engine     *)
(* where nobody runs: it admits whoever fits the pool.                     *)
(***************************************************************************)
EXTENDS SchedulerProofs

\* What the requests in Q own: the sum in Free.
AllocSum(f, Q) == MapThenSumSet(LAMBDA r : f[r].alloc, Q)

\* The sum is a number, and any of the requests may be taken out first.
LEMMA AllocAdds ==
  ASSUME NEW Q, IsFiniteSet(Q), NEW f, \A r \in Q : f[r].alloc \in Nat
  PROVE  \E g : AllocSum(f, Q) = g[Q] /\ Adds(g, [r \in Q |-> f[r].alloc], Q)
<1> DEFINE c == [s \in SUBSET Q |-> CHOOSE x \in s : TRUE]
           w == [r \in Q |-> f[r].alloc]
           Rec(g) == g = [s \in SUBSET Q |->
                            IF s = {} THEN 0
                            ELSE f[CHOOSE x \in s : TRUE].alloc
                                   + g[s \ {CHOOSE x \in s : TRUE}]]
           sum == CHOOSE g : Rec(g)
<1>1. \A s \in SUBSET Q : s # {} => (CHOOSE x \in s : TRUE) \in s
  OBVIOUS
<1>2. /\ \A s \in SUBSET Q : s # {} => c[s] \in s
      /\ \A s \in SUBSET Q : c[s] = CHOOSE x \in s : TRUE
      /\ \A s \in SUBSET Q : s # {} => w[c[s]] = f[CHOOSE x \in s : TRUE].alloc
      /\ \A x \in Q : w[x] \in Nat
  BY <1>1
<1> HIDE DEF c, w
<1>3. ASSUME NEW g
      PROVE  Rec(g) <=> TakesFirst(g, w, c, Q)
  <2>1. ASSUME NEW s \in SUBSET Q
        PROVE  (IF s = {} THEN 0 ELSE f[CHOOSE x \in s : TRUE].alloc + g[s \ {CHOOSE x \in s : TRUE}])
                 = (IF s = {} THEN 0 ELSE w[c[s]] + g[s \ {c[s]}])
    <3>1. CASE s = {}
      BY <3>1
    <3>2. CASE s # {}
      <4> DEFINE y == CHOOSE x \in s : TRUE
      <4>1. c[s] = y /\ w[c[s]] = f[y].alloc
        BY <1>2, <3>2
      <4> HIDE DEF y
      <4>2. f[y].alloc + g[s \ {y}] = w[c[s]] + g[s \ {c[s]}]
        BY <4>1
      <4> QED
        BY <3>2, <4>2 DEF y
    <3> QED
      BY <3>1, <3>2
  <2> QED
    BY <2>1 DEF TakesFirst
<1>4. PICK g : TakesFirst(g, w, c, Q)
  <2>1. \A s \in SUBSET Q : s # {} => c[s] \in s
    BY <1>2
  <2> HIDE DEF Rec, sum
  <2> QED
    BY <2>1, FoldDefined
<1>5. \E h : Rec(h)
  <2> HIDE DEF Rec
  <2> QED
    BY <1>3, <1>4
<1>6. Rec(sum)
  <2> HIDE DEF Rec
  <2> QED
    BY <1>5 DEF sum
<1>7. TakesFirst(sum, w, c, Q)
  <2> HIDE DEF Rec, sum
  <2> QED
    BY <1>3, <1>6
<1>8. Adds(sum, w, Q)
  <2> HIDE DEF sum
  <2> QED
    BY <1>2, <1>7, AnyOrder
<1>9. AllocSum(f, Q) = sum[Q]
  BY DEF AllocSum, MapThenSumSet, MapThenFoldSet
<1> HIDE DEF sum
<1> QED
  BY <1>8, <1>9 DEF w

\* What a set of requests owns is a natural number.
LEMMA AllocSumNat ==
  ASSUME NEW Q, IsFiniteSet(Q), NEW f, \A r \in Q : f[r].alloc \in Nat
  PROVE  AllocSum(f, Q) \in Nat
<1>1. PICK g : AllocSum(f, Q) = g[Q] /\ Adds(g, [r \in Q |-> f[r].alloc], Q)
  BY AllocAdds
<1> QED
  BY <1>1 DEF Adds

\* Only what they own matters.
LEMMA AllocSumSame ==
  ASSUME NEW Q, IsFiniteSet(Q), NEW f, NEW e,
         \A r \in Q : f[r].alloc \in Nat /\ e[r].alloc = f[r].alloc
  PROVE  AllocSum(e, Q) = AllocSum(f, Q)
<1>1. \A r \in Q : e[r].alloc \in Nat
  OBVIOUS
<1> DEFINE w == [r \in Q |-> f[r].alloc]
           v == [r \in Q |-> e[r].alloc]
<1>2. PICK g : AllocSum(f, Q) = g[Q] /\ Adds(g, w, Q)
  BY AllocAdds
<1>3. PICK h : AllocSum(e, Q) = h[Q] /\ Adds(h, v, Q)
  BY <1>1, AllocAdds
<1>4. \A x \in Q : w[x] = v[x]
  OBVIOUS
<1> HIDE DEF w, v
<1>5. g[Q] = h[Q]
  BY <1>2, <1>3, <1>4, SumsAgree
<1> QED
  BY <1>2, <1>3, <1>5

\* One request taken out.
LEMMA AllocSumOne ==
  ASSUME NEW Q, IsFiniteSet(Q), NEW f, \A r \in Q : f[r].alloc \in Nat, NEW x \in Q
  PROVE  AllocSum(f, Q) = f[x].alloc + AllocSum(f, Q \ {x})
<1> DEFINE T == Q \ {x}
           w == [r \in Q |-> f[r].alloc]
           v == [r \in T |-> f[r].alloc]
<1>1. IsFiniteSet(T) /\ T \subseteq Q /\ \A r \in T : f[r].alloc \in Nat
  BY FS_Subset
<1>2. PICK g : AllocSum(f, Q) = g[Q] /\ Adds(g, w, Q)
  BY AllocAdds
<1>4. (\A y \in T : v[y] = w[y]) /\ w[x] = f[x].alloc
  OBVIOUS
<1>5. Q \in SUBSET Q /\ Q \ {x} = T
  OBVIOUS
<1> HIDE DEF T
<1>3. PICK h : AllocSum(f, T) = h[T] /\ Adds(h, v, T)
  BY <1>1, AllocAdds
<1> HIDE DEF w, v
<1>6. h[T] = g[T]
  BY <1>1, <1>2, <1>3, <1>4, SumsAgree
<1>7. g[Q] = w[x] + g[T]
  BY <1>2, <1>5 DEF Adds
<1> QED
  BY <1>2, <1>3, <1>4, <1>5, <1>6, <1>7

\* One request's count changes.
LEMMA AllocSumSet ==
  ASSUME NEW Q, IsFiniteSet(Q), NEW f, \A r \in Q : f[r].alloc \in Nat, NEW x, NEW e,
         e[x].alloc \in Nat, \A r \in Q \ {x} : e[r].alloc = f[r].alloc
  PROVE  /\ AllocSum(f, Q) \in Nat /\ AllocSum(e, Q) \in Nat
         /\ x \notin Q => AllocSum(e, Q) = AllocSum(f, Q)
         /\ x \in Q => AllocSum(e, Q) = AllocSum(f, Q) - f[x].alloc + e[x].alloc
<1>1. \A r \in Q : e[r].alloc \in Nat
  OBVIOUS
<1>2. AllocSum(f, Q) \in Nat /\ AllocSum(e, Q) \in Nat
  BY <1>1, AllocSumNat
<1>3. ASSUME x \notin Q
      PROVE  AllocSum(e, Q) = AllocSum(f, Q)
  <2>1. \A r \in Q : f[r].alloc \in Nat /\ e[r].alloc = f[r].alloc
    BY <1>3
  <2> QED
    BY <2>1, AllocSumSame
<1>4. ASSUME x \in Q
      PROVE  AllocSum(e, Q) = AllocSum(f, Q) - f[x].alloc + e[x].alloc
  <2> DEFINE T == Q \ {x}
  <2>1. /\ IsFiniteSet(T)
        /\ \A r \in T : f[r].alloc \in Nat /\ e[r].alloc = f[r].alloc
    BY FS_Subset
  <2> HIDE DEF T
  <2>2. AllocSum(e, T) = AllocSum(f, T) /\ AllocSum(f, T) \in Nat
    BY <2>1, AllocSumSame, AllocSumNat
  <2>3. AllocSum(f, Q) = f[x].alloc + AllocSum(f, T)
    BY <1>4, AllocSumOne DEF T
  <2>4. AllocSum(e, Q) = e[x].alloc + AllocSum(e, T)
    BY <1>1, <1>4, AllocSumOne DEF T
  <2> DEFINE a == f[x].alloc  b == e[x].alloc
  <2>5. a \in Nat /\ b \in Nat
    BY <1>1, <1>4
  <2> HIDE DEF a, b
  <2>6. \A t \in Nat : b + t = (a + t) - a + b
    BY <2>5
  <2> QED
    BY <2>2, <2>3, <2>4, <2>6 DEF a, b
<1> QED
  BY <1>2, <1>3, <1>4

-----------------------------------------------------------------------------
(* What each action does to the counts of a request.                       *)

\* The fields that say what a request owns and holds.
CountsSame(r) ==
  /\ reqs'[r].generated = reqs[r].generated /\ reqs'[r].alloc = reqs[r].alloc
  /\ reqs'[r].inserted = reqs[r].inserted /\ reqs'[r].genInserted = reqs[r].genInserted
  /\ reqs'[r].pinned = reqs[r].pinned

\* The other actions touch no count of any request.
LEMMA CountsKept ==
  ASSUME TypeOK, LocalsOK, [Next]_vars,
         ~(Admit \/ Alloc \/ ReleaseBlock \/ Requeue \/ Rematch \/ PublishBlock \/ PublishDisabled
             \/ FirstToken \/ DecodeToken \/ PublishGen \/ Decoded \/ Retired)
  PROVE  \A r \in Requests : CountsSame(r)
<1>1. reqs \in [Requests -> ReqFields]
  BY DEF TypeOK
<1>2. CASE ~PrefillChunk
  <2>1. UNCHANGED reqs
    BY <1>2, Zenon DEF Next, vars, Over, NextRound, Return, Arrive, NoneDue, IdleJump, Stuck, AdmitMatch, AdmitFails,
                Unmatch, Refuse, NoCandidate, BeginStep, PlanDecode, BeginAlloc, AllocNone,
                Preempt, SelfPreempted, Stall, BeginPrefill, Published, Elapse, BeginDecode,
                BeginFinish, Finish, EndStep, Skip
  <2> QED
    BY <2>1 DEF CountsSame
<1>3. CASE PrefillChunk
  <2> PICK x : x = Head(todo)
    OBVIOUS
  <2>1. PICK a : reqs' = [reqs EXCEPT ![x].prefilled = a]
    BY <1>3 DEF PrefillChunk, PrefillTurn
  <2> QED
    BY <1>1, <2>1, SMTT(30) DEF CountsSame, ReqFields
<1> QED
  BY <1>2, <1>3

\* Nobody else's counts change either.
LEMMA CountsOfOthers ==
  ASSUME TypeOK, LocalsOK, [Next]_vars, NEW r \in Requests, r # Touched
  PROVE  CountsSame(r)
BY OthersSame DEF CountsSame

\* What admission sets: the blocks it takes, and the match as what is held and published.
LEMMA AdmitCounts ==
  ASSUME IInv, Admit, NEW r, r = Head(waiting)
  PROVE  /\ r \in Requests /\ r \in Range(waiting) /\ Touched = r
         /\ reqs'[r].generated = reqs[r].generated /\ reqs'[r].genInserted = reqs[r].genInserted
         /\ reqs'[r].alloc = Need(r) /\ reqs'[r].inserted = Len(matched) /\ reqs'[r].pinned = matched
         /\ Len(matched) \in Nat /\ Len(matched) <= NumHashes(r)
         /\ matched' = <<>> /\ running' = Append(running, r)
         /\ cache' = Reclaimed(Need(r)) /\ Reclaims(Need(r)) /\ pc = "admit" /\ pc' = "admit"
         /\ UNCHANGED <<trace, victim>>
<1>1. /\ TypeOK /\ LocalsOK /\ waiting \in Seq(Requests) /\ waiting # <<>> /\ pc = "admit"
      /\ matched \in Seq(Block)
  BY DEF IInv, Admit, Candidate, TypeOK
<1>2. r \in Requests /\ r \in Range(waiting) /\ Touched = r
  BY <1>1, TailDistinct DEF Touched
<1>3. Len(matched) \in Nat /\ Len(matched) <= NumHashes(r)
  <2>1. NumHashes(r) \in Nat /\ Len(matched) \in Nat
    BY <1>1, <1>2, TraceFacts, LenProperties
  <2>2. CASE matched = <<>>
    BY <2>1, <2>2
  <2>3. CASE matched # <<>>
    BY <1>1, <2>1, <2>3 DEF LocalsOK
  <2> QED
    BY <2>1, <2>2, <2>3
<1> PICK need, re, len, m : need = Need(r) /\ re = Smaller(Len(matched) * BlockSize, PromptLen(r) - 1)
                       /\ len = Len(matched) /\ m = matched
  OBVIOUS
<1> PICK f : f = [reqs[r] EXCEPT !.pinned = m, !.alloc = need, !.cached = re,
                              !.prefilled = re, !.inserted = len]
  OBVIOUS
<1>4. reqs'[r] = f
  <2>1. reqs' = [reqs EXCEPT ![r] = f]
    BY DEF Admit
  <2> QED
    BY <1>1, <1>2, <2>1 DEF TypeOK
<1>7. reqs[r] \in ReqFields
  BY <1>1, <1>2, ReqFacts
<1>5. /\ reqs'[r].generated = reqs[r].generated /\ reqs'[r].genInserted = reqs[r].genInserted
      /\ reqs'[r].alloc = need /\ reqs'[r].inserted = len /\ reqs'[r].pinned = m
  BY <1>4, <1>7 DEF ReqFields
<1>6. /\ matched' = <<>> /\ running' = Append(running, r)
      /\ cache' = Reclaimed(Need(r)) /\ Reclaims(Need(r)) /\ pc' = "admit" /\ UNCHANGED <<trace, victim>>
  BY DEF Admit, fixed
<1> QED
  BY <1>1, <1>2, <1>3, <1>5, <1>6

\* What a block for the next token changes: one more owned, reclaimed from the cache if need be.
LEMMA AllocCounts ==
  ASSUME TypeOK, LocalsOK, Alloc, NEW r, r = Head(todo)
  PROVE  /\ r \in Requests /\ Touched = r
         /\ reqs'[r].generated = reqs[r].generated /\ reqs'[r].genInserted = reqs[r].genInserted
         /\ reqs'[r].alloc = reqs[r].alloc + 1 /\ reqs'[r].inserted = reqs[r].inserted
         /\ reqs'[r].pinned = reqs[r].pinned
         /\ cache' = Reclaimed(1) /\ Reclaims(1) /\ UNCHANGED <<trace, waiting, running, matched>>
<1>1. reqs \in [Requests -> ReqFields] /\ todo # <<>> /\ todo \in Seq(Requests)
  BY DEF TypeOK, Alloc
<1>2. r \in Requests /\ Touched = r
  BY <1>1, TailDistinct DEF Touched, Alloc
<1>3. reqs' = [reqs EXCEPT ![r].alloc = @ + 1]
  BY DEF Alloc
<1>4. /\ reqs'[r].generated = reqs[r].generated /\ reqs'[r].genInserted = reqs[r].genInserted
      /\ reqs'[r].alloc = reqs[r].alloc + 1 /\ reqs'[r].inserted = reqs[r].inserted
      /\ reqs'[r].pinned = reqs[r].pinned
  BY <1>1, <1>2, <1>3 DEF ReqFields
<1> QED
  BY <1>2, <1>4 DEF Alloc, fixed, queues

\* What a step of release() changes: one block less held.
LEMMA ReleaseBlockCounts ==
  ASSUME TypeOK, LocalsOK, ReleaseBlock
  PROVE  /\ victim \in Requests /\ Touched = victim
         /\ reqs'[victim].generated = reqs[victim].generated
         /\ reqs'[victim].genInserted = reqs[victim].genInserted
         /\ reqs'[victim].alloc = reqs[victim].alloc /\ reqs'[victim].inserted = reqs[victim].inserted
         /\ reqs'[victim].pinned = Front(reqs[victim].pinned)
<1>1. victim \in Requests /\ Touched = victim /\ reqs \in [Requests -> ReqFields]
  BY Zenon DEF TypeOK, LocalsOK, ReleaseBlock, Touched
<1> PICK p : p = Front(reqs[victim].pinned)
  OBVIOUS
<1>2. reqs' = [reqs EXCEPT ![victim].pinned = p]
  BY DEF ReleaseBlock
<1> QED
  BY <1>1, <1>2 DEF ReqFields

\* What the end of a preemption leaves of the victim: no tokens and no blocks.
LEMMA RequeueCounts ==
  ASSUME TypeOK, LocalsOK, Requeue
  PROVE  /\ victim \in Requests /\ Touched = victim
         /\ reqs'[victim].generated = 0 /\ reqs'[victim].genInserted = 0
         /\ reqs'[victim].alloc = 0 /\ reqs'[victim].inserted = 0
         /\ reqs'[victim].pinned = reqs[victim].pinned
<1>1. victim \in Requests /\ Touched = victim /\ reqs \in [Requests -> ReqFields]
  BY DEF TypeOK, LocalsOK, Requeue, Touched
<1> QED
  BY <1>1 DEF Requeue, ReqFields

\* What the end of retirement changes: the blocks owned go back.
LEMMA RetiredCounts ==
  ASSUME TypeOK, LocalsOK, Retired
  PROVE  /\ victim \in Requests /\ Touched = victim
         /\ reqs'[victim].generated = reqs[victim].generated
         /\ reqs'[victim].genInserted = reqs[victim].genInserted
         /\ reqs'[victim].alloc = 0 /\ reqs'[victim].inserted = reqs[victim].inserted
         /\ reqs'[victim].pinned = reqs[victim].pinned
<1>1. victim \in Requests /\ Touched = victim /\ reqs \in [Requests -> ReqFields]
  BY DEF TypeOK, LocalsOK, Retired, Touched
<1> QED
  BY <1>1 DEF Retired, ReqFields

\* Where the head of todo has its turn in the prefill.
LEMMA TurnFacts ==
  ASSUME TypeOK, LocalsOK, Rematch \/ PublishBlock \/ PublishDisabled \/ FirstToken \/ DecodeToken \/ PublishGen \/ Decoded,
         NEW r, r = Head(todo)
  PROVE  r \in Requests /\ r \in Range(todo) /\ Touched = r /\ reqs \in [Requests -> ReqFields] /\ todo # <<>>
<1>1. todo # <<>> /\ todo \in Seq(Requests) /\ reqs \in [Requests -> ReqFields]
      /\ pc \notin {"preempt", "retire", "admit"}
  BY ZenonT(30) DEF Rematch, PrefillTurn, PublishBlock, PublishDisabled, FirstToken, DecodeToken, PublishGen, Decoded,
         TypeOK, LocalsOK
<1> QED
  BY <1>1, TailDistinct, SMTT(30) DEF Touched

\* What a hit in mid-prefill changes: one block shared in place of one owned.
LEMMA RematchCounts ==
  ASSUME TypeOK, LocalsOK, Rematch, NEW r, r = Head(todo),
         NEW i, i = reqs[r].prefilled \div BlockSize + 1
  PROVE  /\ reqs'[r].generated = reqs[r].generated /\ reqs'[r].genInserted = reqs[r].genInserted
         /\ reqs'[r].alloc = Returned(reqs[r].alloc) /\ reqs'[r].inserted = Larger(reqs[r].inserted, i)
         /\ reqs'[r].pinned = Append(reqs[r].pinned, Hash(r, i))
         /\ cache' = Pin(cache, Hash(r, i))
         /\ pc = "prefill" /\ UNCHANGED <<trace, waiting, running, matched>>
<1>1. r \in Requests /\ reqs \in [Requests -> ReqFields]
  BY TurnFacts
<1> PICK a, p, n, q, h : /\ a = Returned(reqs[r].alloc) /\ p = Append(reqs[r].pinned, Hash(r, i))
                         /\ n = Larger(reqs[r].inserted, i)
                         /\ q = reqs[r].prefilled + BlockSize /\ h = reqs[r].cached + BlockSize
  OBVIOUS
<1> PICK f : f = [reqs[r] EXCEPT !.pinned = p, !.prefilled = q, !.cached = h, !.alloc = a, !.inserted = n]
  OBVIOUS
<1>2. reqs'[r] = f /\ reqs[r] \in ReqFields
  <2>1. reqs' = [reqs EXCEPT ![r] = f]
    BY ZenonT(30) DEF Rematch
  <2> QED
    BY <1>1, <2>1, Zenon
<1>3. /\ reqs'[r].generated = reqs[r].generated /\ reqs'[r].genInserted = reqs[r].genInserted
      /\ reqs'[r].alloc = a /\ reqs'[r].inserted = n /\ reqs'[r].pinned = p
  BY <1>2, SMTT(30) DEF ReqFields
<1> QED
  BY <1>3, Zenon DEF Rematch, PrefillTurn, fixed, queues, call

\* What publishing a prompt block changes: one block shared in place of one owned.
LEMMA PublishBlockCounts ==
  ASSUME TypeOK, LocalsOK, PublishBlock, NEW r, r = Head(todo),
         NEW h, h = Hash(r, reqs[r].inserted + 1)
  PROVE  /\ reqs'[r].generated = reqs[r].generated /\ reqs'[r].genInserted = reqs[r].genInserted
         /\ reqs'[r].alloc = Returned(reqs[r].alloc) /\ reqs'[r].inserted = reqs[r].inserted + 1
         /\ reqs'[r].pinned = Append(reqs[r].pinned, h)
         /\ cache' = IF h \in Cached(cache) THEN Pin(cache, h) ELSE Publish(cache, h)
         /\ pc = "publish" /\ ToPublish(r) /\ UNCHANGED <<trace, waiting, running, matched>>
<1>1. r \in Requests /\ reqs \in [Requests -> ReqFields]
  BY TurnFacts
<1> PICK a, p, n : /\ a = Returned(reqs[r].alloc) /\ p = Append(reqs[r].pinned, h)
                   /\ n = reqs[r].inserted + 1
  OBVIOUS
<1>2. reqs' = [reqs EXCEPT ![r].alloc = a, ![r].pinned = p, ![r].inserted = n]
  BY SMTT(30) DEF PublishBlock
<1>3. /\ reqs'[r].generated = reqs[r].generated /\ reqs'[r].genInserted = reqs[r].genInserted
      /\ reqs'[r].alloc = a /\ reqs'[r].inserted = n /\ reqs'[r].pinned = p
  BY <1>1, <1>2 DEF ReqFields
<1> QED
  BY <1>3, Zenon DEF PublishBlock, fixed, queues, call

\* Without a cache a prompt block is only counted.
LEMMA PublishDisabledCounts ==
  ASSUME TypeOK, LocalsOK, PublishDisabled, NEW r, r = Head(todo)
  PROVE  /\ reqs'[r].generated = reqs[r].generated /\ reqs'[r].genInserted = reqs[r].genInserted
         /\ reqs'[r].alloc = reqs[r].alloc /\ reqs'[r].inserted = reqs[r].inserted + 1
         /\ reqs'[r].pinned = reqs[r].pinned /\ ToPublish(r) /\ UNCHANGED <<trace, cache, running>>
<1>1. r \in Requests /\ reqs \in [Requests -> ReqFields]
  BY TurnFacts
<1>2. reqs' = [reqs EXCEPT ![r].inserted = @ + 1]
  BY DEF PublishDisabled
<1>3. /\ reqs'[r].generated = reqs[r].generated /\ reqs'[r].genInserted = reqs[r].genInserted
      /\ reqs'[r].alloc = reqs[r].alloc /\ reqs'[r].inserted = reqs[r].inserted + 1
      /\ reqs'[r].pinned = reqs[r].pinned
  BY <1>1, <1>2 DEF ReqFields
<1> QED
  BY <1>3 DEF PublishDisabled, fixed, queues

\* What the end of prefill changes: the request has its first token.
LEMMA FirstTokenCounts ==
  ASSUME TypeOK, LocalsOK, FirstToken, NEW r, r = Head(todo)
  PROVE  /\ reqs'[r].generated = 1 /\ reqs[r].generated = 0 /\ reqs'[r].genInserted = reqs[r].genInserted
         /\ reqs'[r].alloc = reqs[r].alloc /\ reqs'[r].inserted = reqs[r].inserted
         /\ reqs'[r].pinned = reqs[r].pinned /\ r \notin Range(batch)
<1>1. r \in Requests /\ reqs \in [Requests -> ReqFields]
  BY TurnFacts
<1> PICK y : y = (reqs[r].finish \/ OutputLen(r) <= 1)
  OBVIOUS
<1>2. reqs' = [reqs EXCEPT ![r].ttft = TRUE, ![r].generated = 1, ![r].finish = y]
  BY DEF FirstToken
<1>3. /\ reqs'[r].generated = 1 /\ reqs'[r].genInserted = reqs[r].genInserted
      /\ reqs'[r].alloc = reqs[r].alloc /\ reqs'[r].inserted = reqs[r].inserted
      /\ reqs'[r].pinned = reqs[r].pinned
  BY <1>1, <1>2 DEF ReqFields
<1> QED
  BY <1>3 DEF FirstToken, IsFirstToken

\* What a decode token changes, before the blocks it fills are published.
LEMMA DecodeTokenCounts ==
  ASSUME TypeOK, LocalsOK, DecodeToken, NEW r, r = Head(todo)
  PROVE  /\ reqs'[r].generated = reqs[r].generated + 1
         /\ reqs'[r].genInserted = IF PrefixCaching THEN Larger(reqs[r].genInserted, NumHashes(r))
                                   ELSE reqs[r].genInserted
         /\ reqs'[r].alloc = reqs[r].alloc /\ reqs'[r].inserted = reqs[r].inserted
         /\ reqs'[r].pinned = reqs[r].pinned
<1>1. r \in Requests /\ reqs \in [Requests -> ReqFields]
  BY TurnFacts
<1> PICK y, n, g : /\ y = (reqs[r].ttft \/ reqs[r].generated = 0) /\ n = reqs[r].generated + 1
                   /\ g = IF PrefixCaching THEN Larger(reqs[r].genInserted, NumHashes(r))
                          ELSE reqs[r].genInserted
  OBVIOUS
<1>2. reqs' = [reqs EXCEPT ![r].ttft = y, ![r].generated = n, ![r].genInserted = g]
  BY Zenon DEF DecodeToken
<1>3. /\ reqs'[r].generated = n /\ reqs'[r].genInserted = g
      /\ reqs'[r].alloc = reqs[r].alloc /\ reqs'[r].inserted = reqs[r].inserted
      /\ reqs'[r].pinned = reqs[r].pinned
  BY <1>1, <1>2, SMTT(30) DEF ReqFields
<1> QED
  BY <1>3

\* What publishing a generated block changes: nothing is given back for one that is cached.
LEMMA PublishGenCounts ==
  ASSUME TypeOK, LocalsOK, PublishGen, NEW r, r = Head(todo),
         NEW h, h = GenHash(r, reqs[r].genInserted)
  PROVE  /\ reqs'[r].generated = reqs[r].generated /\ reqs'[r].genInserted = reqs[r].genInserted + 1
         /\ reqs'[r].inserted = reqs[r].inserted
         /\ IF h \in Cached(cache)
            THEN /\ reqs'[r].alloc = reqs[r].alloc /\ reqs'[r].pinned = reqs[r].pinned
                 /\ cache' = cache
            ELSE /\ reqs'[r].alloc = Returned(reqs[r].alloc)
                 /\ reqs'[r].pinned = Append(reqs[r].pinned, h)
                 /\ cache' = Publish(cache, h)
         /\ pc = "publish gen" /\ GenBlockLeft(r) /\ UNCHANGED <<trace, waiting, running, matched>>
<1>1. r \in Requests /\ reqs \in [Requests -> ReqFields]
  BY TurnFacts
<1> PICK a, p, n : /\ a = Returned(reqs[r].alloc) /\ p = Append(reqs[r].pinned, h)
                   /\ n = reqs[r].genInserted + 1
  OBVIOUS
<1>2. CASE h \in Cached(cache)
  <2>1. reqs' = [reqs EXCEPT ![r].genInserted = n] /\ cache' = cache
    BY <1>2, Zenon DEF PublishGen
  <2>2. /\ reqs'[r].generated = reqs[r].generated /\ reqs'[r].genInserted = n
        /\ reqs'[r].inserted = reqs[r].inserted
        /\ reqs'[r].alloc = reqs[r].alloc /\ reqs'[r].pinned = reqs[r].pinned
    BY <1>1, <2>1, SMTT(30) DEF ReqFields
  <2> QED
    BY <1>2, <2>1, <2>2, Zenon DEF PublishGen, fixed, queues, call
<1>3. CASE h \notin Cached(cache)
  <2>1. reqs' = [reqs EXCEPT ![r].alloc = a, ![r].pinned = p, ![r].genInserted = n]
        /\ cache' = Publish(cache, h)
    BY <1>3, ZenonT(30) DEF PublishGen
  <2>2. /\ reqs'[r].generated = reqs[r].generated /\ reqs'[r].genInserted = n
        /\ reqs'[r].inserted = reqs[r].inserted
        /\ reqs'[r].alloc = a /\ reqs'[r].pinned = p
    BY <1>1, <2>1 DEF ReqFields
  <2> QED
    BY <1>3, <2>1, <2>2, Zenon DEF PublishGen, fixed, queues, call
<1> QED
  BY <1>2, <1>3, Zenon

\* What the end of a decode turn changes: every full block is counted as published.
LEMMA DecodedCounts ==
  ASSUME TypeOK, LocalsOK, Decoded, NEW r, r = Head(todo)
  PROVE  /\ reqs'[r].generated = reqs[r].generated
         /\ reqs'[r].genInserted = IF PrefixCaching THEN TotalFull(r) ELSE reqs[r].genInserted
         /\ reqs'[r].alloc = reqs[r].alloc /\ reqs'[r].inserted = reqs[r].inserted
         /\ reqs'[r].pinned = reqs[r].pinned
<1>1. r \in Requests /\ reqs \in [Requests -> ReqFields]
  BY TurnFacts
<1> PICK y, g : /\ y = (reqs[r].finish \/ Complete(r))
                /\ g = IF PrefixCaching THEN TotalFull(r) ELSE reqs[r].genInserted
  OBVIOUS
<1>2. reqs' = [reqs EXCEPT ![r].finish = y, ![r].genInserted = g]
  BY Zenon DEF Decoded
<1>3. /\ reqs'[r].generated = reqs[r].generated /\ reqs'[r].genInserted = g
      /\ reqs'[r].alloc = reqs[r].alloc /\ reqs'[r].inserted = reqs[r].inserted
      /\ reqs'[r].pinned = reqs[r].pinned
  BY <1>1, <1>2 DEF ReqFields
<1> QED
  BY <1>3

-----------------------------------------------------------------------------
(* One pin for every holder.                                               *)

\* The holders of every block, when the holdings of x are all that changes.
LEMMA HoldersFollow ==
  ASSUME UNCHANGED trace, NEW x \in 0..Len(trace), NEW h,
         \A y \in 0..Len(trace) \ {x} : Pinned(y)' = Pinned(y)
  PROVE  /\ Range(Pinned(x)') = Range(Pinned(x)) \cup {h} =>
              /\ Holders(h)' = Holders(h) \cup {x}
              /\ \A b : b # h => Holders(b)' = Holders(b)
         /\ Range(Pinned(x)') = Range(Pinned(x)) \ {h} =>
              /\ Holders(h)' = Holders(h) \ {x}
              /\ \A b : b # h => Holders(b)' = Holders(b)
<1>1. \A b : \A y : y \in Holders(b)' <=> y \in 0..Len(trace) /\ b \in Range(Pinned(y)')
  BY DEF Holders
<1>2. \A b : \A y : y \in Holders(b) <=> y \in 0..Len(trace) /\ b \in Range(Pinned(y))
  BY DEF Holders
<1>3. \A b : \A y : y # x => (y \in Holders(b)' <=> y \in Holders(b))
  BY <1>1, <1>2
<1>4. ASSUME Range(Pinned(x)') = Range(Pinned(x)) \cup {h}
      PROVE  Holders(h)' = Holders(h) \cup {x} /\ \A b : b # h => Holders(b)' = Holders(b)
  <2>1. x \in Holders(h)' /\ \A b : b # h => (x \in Holders(b)' <=> x \in Holders(b))
    BY <1>1, <1>2, <1>4
  <2>2. \A y : y \in Holders(h)' <=> y \in Holders(h) \cup {x}
    BY <1>3, <2>1
  <2>3. \A b : b # h => \A y : y \in Holders(b)' <=> y \in Holders(b)
    BY <1>3, <2>1
  <2>4. ASSUME NEW b, b # h PROVE Holders(b)' = Holders(b)
    <3>1. Holders(b)' \subseteq Holders(b) /\ Holders(b) \subseteq Holders(b)'
      BY <2>3, <2>4
    <3> QED
      BY <3>1
  <2> QED
    BY <2>2, <2>4
<1>5. ASSUME Range(Pinned(x)') = Range(Pinned(x)) \ {h}
      PROVE  Holders(h)' = Holders(h) \ {x} /\ \A b : b # h => Holders(b)' = Holders(b)
  <2>1. x \notin Holders(h)' /\ \A b : b # h => (x \in Holders(b)' <=> x \in Holders(b))
    BY <1>1, <1>2, <1>5
  <2>2. \A y : y \in Holders(h)' <=> y \in Holders(h) \ {x}
    BY <1>3, <2>1
  <2>3. \A b : b # h => \A y : y \in Holders(b)' <=> y \in Holders(b)
    BY <1>3, <2>1
  <2>4. ASSUME NEW b, b # h PROVE Holders(b)' = Holders(b)
    <3>1. Holders(b)' \subseteq Holders(b) /\ Holders(b) \subseteq Holders(b)'
      BY <2>3, <2>4
    <3> QED
      BY <3>1
  <2> QED
    BY <2>2, <2>4
<1> QED
  BY <1>4, <1>5

\* The pins of every block are as many as its holders.
LEMMA PinsQuiet ==
  ASSUME IInv, PinsAreHolders, UNCHANGED trace,
         \A b : Cardinality(Holders(b)') = Cardinality(Holders(b)),
         cache' = cache \/ \E n : cache' = Reclaimed(n)
  PROVE  PinsAreHolders'
<1>1. /\ Cached(cache') \subseteq Cached(cache)
      /\ \A b \in Cached(cache') : cache'.pins[b] = cache.pins[b]
  <2>1. CASE cache' = cache
    BY <2>1
  <2>2. CASE \E n : cache' = Reclaimed(n)
    BY <2>2, ReclaimedOK DEF IInv
  <2> QED
    BY <2>1, <2>2
<1> QED
  BY <1>1 DEF PinsAreHolders, Holds

\* A block pinned for one more holder, in the cache already or new, keeps one pin for each.
LEMMA PinsGained ==
  ASSUME IInv, PinsAreHolders, UNCHANGED trace, NEW x \in 0..Len(trace), NEW h \in Block,
         h \notin Range(Pinned(x)), Range(Pinned(x)') = Range(Pinned(x)) \cup {h},
         \A y \in 0..Len(trace) \ {x} : Pinned(y)' = Pinned(y),
         \/ h \in Cached(cache) /\ cache' = Pin(cache, h)
         \/ h \notin Cached(cache) /\ cache' = Publish(cache, h)
  PROVE  PinsAreHolders'
<1>1. /\ CacheOK(cache, Block)
      /\ \A b : IsFiniteSet(Holders(b)) /\ Cardinality(Holders(b)) \in Nat
                /\ (Holders(b) # {} => b \in Cached(cache))
  BY HoldersFacts
<1>2. Holders(h)' = Holders(h) \cup {x} /\ \A b : b # h => Holders(b)' = Holders(b)
  BY HoldersFollow
<1>3. x \notin Holders(h)
  BY DEF Holders
<1>4. Cardinality(Holders(h)') = Cardinality(Holders(h)) + 1
  BY <1>1, <1>2, <1>3, FS_AddElement
<1>5. CASE h \in Cached(cache) /\ cache' = Pin(cache, h)
  <2>1. /\ Cached(cache') = Cached(cache)
        /\ \A b \in Cached(cache) : cache'.pins[b] = IF b = h THEN cache.pins[b] + 1 ELSE cache.pins[b]
    BY <1>1, <1>5, PinOK
  <2> QED
    BY <1>2, <1>4, <1>5, <2>1 DEF PinsAreHolders, Holds
<1>6. CASE h \notin Cached(cache) /\ cache' = Publish(cache, h)
  <2>1. /\ Cached(cache') = Cached(cache) \cup {h} /\ cache'.pins[h] = 1
        /\ \A b \in Cached(cache) : cache'.pins[b] = cache.pins[b]
    BY <1>1, <1>6, PublishOK
  <2>2. Holders(h) = {}
    BY <1>1, <1>6
  <2>3. Cardinality(Holders(h)) = 0
    BY <2>2, FS_EmptySet
  <2>4. Cardinality(Holders(h)') = 1
    BY <1>4, <2>3
  <2>5. \A b \in Cached(cache) : cache'.pins[b] = Cardinality(Holders(b)')
    BY <1>2, <1>6, <2>1 DEF PinsAreHolders, Holds
  <2> QED
    BY <2>1, <2>4, <2>5 DEF PinsAreHolders, Holds
<1> QED
  BY <1>5, <1>6

\* A block given back by one of its holders keeps one pin for each of the others.
LEMMA PinsLost ==
  ASSUME IInv, PinsAreHolders, UNCHANGED trace, NEW x \in 0..Len(trace), NEW h \in Range(Pinned(x)),
         Range(Pinned(x)') = Range(Pinned(x)) \ {h},
         \A y \in 0..Len(trace) \ {x} : Pinned(y)' = Pinned(y),
         cache' = Unpin(cache, h)
  PROVE  PinsAreHolders'
<1>1. x \in Holders(h)
  BY DEF Holders
<1>2. /\ CacheOK(cache, Block) /\ h \in Cached(cache) /\ cache.pins[h] > 0
      /\ IsFiniteSet(Holders(h)) /\ Cardinality(Holders(h)) \in Nat
  BY <1>1, HoldersFacts
<1>3. Holders(h)' = Holders(h) \ {x} /\ \A b : b # h => Holders(b)' = Holders(b)
  BY HoldersFollow, SMTT(30)
<1>4. Cardinality(Holders(h)') = Cardinality(Holders(h)) - 1
  BY <1>1, <1>2, <1>3, FS_RemoveElement, ZenonT(30)
<1>5. /\ Cached(cache') = Cached(cache)
      /\ \A b \in Cached(cache) : cache'.pins[b] = IF b = h THEN cache.pins[b] - 1 ELSE cache.pins[b]
  BY <1>2, UnpinOK
<1> QED
  BY <1>2, <1>3, <1>4, <1>5 DEF PinsAreHolders, Holds

\* Admission hands the match over to the request, which held nothing before.
LEMMA PinsMoved ==
  ASSUME IInv, PinsAreHolders, UNCHANGED trace, NEW r \in 1..Len(trace),
         Pinned(r) = <<>>, Pinned(r)' = Pinned(0), Pinned(0)' = <<>>,
         \A y \in 0..Len(trace) \ {0, r} : Pinned(y)' = Pinned(y),
         NEW n, cache' = Reclaimed(n)
  PROVE  PinsAreHolders'
<1>1. \A b : IsFiniteSet(Holders(b)) /\ Cardinality(Holders(b)) \in Nat
  BY HoldersFacts
<1>2. Len(trace) \in Nat /\ r # 0 /\ 0 \in 0..Len(trace) /\ r \in 0..Len(trace)
  BY TraceFacts DEF IInv
<1>3. Range(<<>>) = {}
  BY DEF Range
<1>4. ASSUME NEW b
      PROVE  Cardinality(Holders(b)') = Cardinality(Holders(b))
  <2>1. \A y : y \in Holders(b)' <=> y \in 0..Len(trace) /\ b \in Range(Pinned(y)')
    BY DEF Holders
  <2>2. \A y : y \in Holders(b) <=> y \in 0..Len(trace) /\ b \in Range(Pinned(y))
    BY DEF Holders
  <2>3. /\ r \notin Holders(b) /\ 0 \notin Holders(b)'
        /\ r \in Holders(b)' <=> 0 \in Holders(b)
        /\ \A y : y \notin {0, r} => (y \in Holders(b)' <=> y \in Holders(b))
    BY <1>2, <1>3, <2>1, <2>2
  <2>4. CASE 0 \notin Holders(b)
    <3>1. Holders(b)' = Holders(b)
      BY <2>3, <2>4
    <3> QED
      BY <3>1
  <2>5. CASE 0 \in Holders(b)
    <3> DEFINE H == Holders(b)
    <3>1. Holders(b)' = (H \ {0}) \cup {r} /\ r \notin H \ {0}
      BY <2>3, <2>5
    <3>2. IsFiniteSet(H) /\ Cardinality(H) \in Nat /\ 0 \in H
      BY <1>1, <2>5
    <3> HIDE DEF H
    <3>3. IsFiniteSet(H \ {0}) /\ Cardinality(H \ {0}) = Cardinality(H) - 1
      BY <3>2, FS_RemoveElement
    <3>4. Cardinality((H \ {0}) \cup {r}) = Cardinality(H \ {0}) + 1
      BY <3>1, <3>3, FS_AddElement
    <3> QED
      BY <3>1, <3>2, <3>3, <3>4 DEF H
  <2> QED
    BY <2>4, <2>5
<1> QED
  BY <1>4, PinsQuiet

\* What happens to the cache otherwise is an eviction.
LEMMA CacheMoves ==
  ASSUME [Next]_vars,
         ~(AdmitMatch \/ Unmatch \/ ReleaseBlock \/ Rematch \/ PublishBlock \/ PublishGen)
  PROVE  /\ cache' = cache \/ \E n : cache' = Reclaimed(n)
         /\ ~Admit => UNCHANGED matched
<1>1. CASE \/ UNCHANGED vars \/ Over \/ NextRound \/ Return \/ Arrive \/ NoneDue \/ IdleJump \/ Stuck
           \/ AdmitFails \/ Refuse \/ NoCandidate \/ BeginStep \/ PlanDecode \/ BeginAlloc \/ AllocNone
           \/ Alloc \/ Preempt \/ Requeue \/ SelfPreempted \/ Stall
  BY <1>1, Zenon DEF vars, call, Over, NextRound, Return, Arrive, NoneDue, IdleJump, Stuck, AdmitFails, Refuse,
              NoCandidate, BeginStep, PlanDecode, BeginAlloc, AllocNone, Alloc, Preempt, Requeue,
              SelfPreempted, Stall
<1>2. CASE \/ BeginPrefill \/ PrefillChunk \/ PublishDisabled \/ Published \/ Elapse
           \/ FirstToken \/ BeginDecode \/ DecodeToken \/ Decoded
           \/ BeginFinish \/ Finish \/ Retired \/ EndStep \/ Skip
  BY <1>2, Zenon DEF call, BeginPrefill, PrefillChunk, PublishDisabled, Published, Elapse, FirstToken, BeginDecode,
              DecodeToken, Decoded, BeginFinish, Finish, Retired, EndStep, Skip
<1>3. CASE Admit
  BY <1>3 DEF Admit
<1> QED
  BY <1>1, <1>2, <1>3 DEF Next

\* The actions that neither pin nor unpin.
LEMMA PinsKept ==
  ASSUME IInv, PinsAreHolders, [Next]_vars,
         ~(Admit \/ AdmitMatch \/ Unmatch \/ ReleaseBlock \/ Rematch \/ PublishBlock),
         PublishGen => GenHash(Head(todo), reqs[Head(todo)].genInserted) \in Cached(cache)
  PROVE  PinsAreHolders'
<1>1. TypeOK /\ LocalsOK /\ Requests = 1..Len(trace) /\ Len(trace) \in Nat
  BY TraceFacts DEF IInv
<1>2. UNCHANGED trace
  BY <1>1, OthersSame
<1>3. UNCHANGED matched /\ (cache' = cache \/ \E n : cache' = Reclaimed(n))
  <2>1. CASE PublishGen
    BY <2>1, Zenon DEF PublishGen, call
  <2> QED
    BY <2>1, CacheMoves
<1>4. ASSUME NEW r \in Requests
      PROVE  reqs'[r].pinned = reqs[r].pinned
  <2>1. CASE r # Touched
    BY <1>1, <2>1, CountsOfOthers DEF CountsSame
  <2>2. CASE r = Touched
    <3>1. CASE Alloc
      BY <1>1, <2>2, <3>1, AllocCounts
    <3>2. CASE Requeue
      BY <1>1, <2>2, <3>2, RequeueCounts
    <3>3. CASE Retired
      BY <1>1, <2>2, <3>3, RetiredCounts
    <3>4. CASE PublishDisabled
      BY <1>1, <2>2, <3>4, PublishDisabledCounts, TurnFacts
    <3>5. CASE FirstToken
      BY <1>1, <2>2, <3>5, FirstTokenCounts, TurnFacts
    <3>6. CASE DecodeToken
      BY <1>1, <2>2, <3>6, DecodeTokenCounts, TurnFacts
    <3>7. CASE Decoded
      BY <1>1, <2>2, <3>7, DecodedCounts, TurnFacts
    <3>8. CASE PublishGen
      BY <1>1, <2>2, <3>8, PublishGenCounts, TurnFacts, Zenon
    <3>9. CASE ~(Alloc \/ Requeue \/ PublishDisabled \/ FirstToken \/ DecodeToken \/ PublishGen \/ Decoded \/ Retired)
      BY <1>1, <3>9, CountsKept DEF CountsSame
    <3> QED
      BY <3>1, <3>2, <3>3, <3>4, <3>5, <3>6, <3>7, <3>8, <3>9
  <2> QED
    BY <2>1, <2>2
<1>5. \A y \in 0..Len(trace) : Pinned(y)' = Pinned(y)
  BY <1>1, <1>2, <1>3, <1>4 DEF Pinned
<1>6. \A b : Holders(b)' = Holders(b)
  BY <1>2, <1>5 DEF Holders
<1> QED
  BY <1>2, <1>3, <1>6, PinsQuiet

\* A request that runs a turn gets one more block.
LEMMA PinsTaken ==
  ASSUME IInv, PinsAreHolders, [Next]_vars, UNCHANGED <<trace, matched>>,
         NEW r \in Requests, Touched = r, NEW h \in Block, h \notin Range(reqs[r].pinned),
         reqs'[r].pinned = Append(reqs[r].pinned, h),
         \/ h \in Cached(cache) /\ cache' = Pin(cache, h)
         \/ h \notin Cached(cache) /\ cache' = Publish(cache, h)
  PROVE  PinsAreHolders'
<1>1. /\ TypeOK /\ LocalsOK /\ Requests = 1..Len(trace) /\ Len(trace) \in Nat
      /\ reqs[r].pinned \in Seq(Block)
  BY TraceFacts, ReqFacts DEF IInv
<1>2. r \in 0..Len(trace) /\ Pinned(r) = reqs[r].pinned /\ Pinned(r)' = reqs'[r].pinned
  BY <1>1 DEF Pinned
<1>3. \A y \in 0..Len(trace) \ {r} : Pinned(y)' = Pinned(y)
  <2>1. \A y \in Requests \ {r} : reqs'[y].pinned = reqs[y].pinned
    BY <1>1, CountsOfOthers DEF CountsSame
  <2> QED
    BY <1>1, <2>1 DEF Pinned
<1>4. Range(Append(reqs[r].pinned, h)) = Range(reqs[r].pinned) \cup {h}
  BY <1>1, AppendDistinct
<1> QED
  BY <1>2, <1>3, <1>4, PinsGained

\* Who waits has no block, and of tokens no more than the one it decoded meanwhile.
HoldNothing ==
  \A r \in Range(waiting) :
    reqs[r].generated <= 1 /\ reqs[r].alloc = 0 /\ reqs[r].pinned = <<>>

\* No step breaks the count of pins, as long as who waits holds nothing.
LEMMA PinsStep ==
  ASSUME IInv, PinsAreHolders, HoldNothing, [Next]_vars
  PROVE  PinsAreHolders'
<1>1. TypeOK /\ LocalsOK /\ HeldOnce /\ PrefillBounded /\ Requests = 1..Len(trace) /\ Len(trace) \in Nat
  BY TraceFacts DEF IInv
<1>0. Requests' = Requests
  BY <1>1, OthersSame DEF Requests
<1>2. CASE AdmitMatch
  <2> PICK r, n : r = Head(waiting) /\ n = Len(matched)
    OBVIOUS
  <2> PICK h : h = Hash(r, n + 1)
    OBVIOUS
  <2>1. /\ waiting \in Seq(Requests) /\ waiting # <<>> /\ matched \in Seq(Block) /\ pc = "admit"
        /\ h \in Cached(cache) /\ cache' = Pin(cache, h) /\ matched' = Append(matched, h)
        /\ n + 1 <= NumHashes(r) \/ n < NumHashes(r)
        /\ UNCHANGED <<trace, reqs>>
    BY <1>1, <1>2 DEF AdmitMatch, Candidate, MatchGoesOn, TypeOK, fixed
  <2>2. r \in Requests /\ n \in Nat
    BY <2>1, TailDistinct, LenProperties
  <2>3. NumHashes(r) \in Nat /\ n + 1 \in 1..NumHashes(r) /\ \A i \in 1..n : i \in 1..NumHashes(r)
    <3>1. NumHashes(r) \in Nat
      BY <1>1, <2>2, TraceFacts
    <3> QED
      BY <2>1, <2>2, <3>1
  <2>4. h \in Block
    BY <1>1, <2>2, <2>3, HashFacts
  <2>5. \A i \in 1..n : matched[i] = Hash(r, i)
    BY <1>1, <2>1, <2>2, EmptySeq DEF LocalsOK
  <2>6. h \notin Range(matched)
    <3>1. \A i \in 1..n : matched[i] # h
      <4>1. \A i \in 1..n : i # n + 1
        BY <2>2
      <4> QED
        BY <1>1, <2>2, <2>3, <2>5, <4>1, HashFacts
    <3> QED
      BY <2>1, <3>1, RangeIs
  <2>7. Range(matched') = Range(matched) \cup {h}
    BY <2>1, <2>4, AppendDistinct
  <2>8. /\ 0 \in 0..Len(trace) /\ Pinned(0) = matched /\ Pinned(0)' = matched'
        /\ \A y \in 0..Len(trace) \ {0} : Pinned(y)' = Pinned(y)
    BY <1>1, <2>1 DEF Pinned
  <2> QED
    BY <2>1, <2>4, <2>6, <2>7, <2>8, PinsGained
<1>3. CASE Admit
  <2> PICK r : r = Head(waiting)
    OBVIOUS
  <2>1. /\ r \in Requests /\ r \in Range(waiting) /\ Touched = r /\ reqs'[r].pinned = matched
        /\ matched' = <<>> /\ cache' = Reclaimed(Need(r)) /\ UNCHANGED trace
    BY <1>3, AdmitCounts
  <2>2. reqs[r].pinned = <<>>
    BY <2>1 DEF HoldNothing
  <2>3. \A y \in Requests \ {r} : reqs'[y].pinned = reqs[y].pinned
    BY <1>1, <2>1, CountsOfOthers DEF CountsSame
  <2>4. /\ r \in 1..Len(trace) /\ Pinned(r) = <<>> /\ Pinned(r)' = Pinned(0) /\ Pinned(0)' = <<>>
        /\ \A y \in 0..Len(trace) \ {0, r} : Pinned(y)' = Pinned(y)
    BY <1>1, <2>1, <2>2, <2>3 DEF Pinned
  <2> QED
    BY <2>1, <2>4, PinsMoved
<1>4. CASE Unmatch
  <2> PICK h : h = Head(matched)
    OBVIOUS
  <2>1. /\ matched \in Seq(Block) /\ matched # <<>> /\ cache' = Unpin(cache, h)
        /\ matched' = Tail(matched) /\ UNCHANGED <<trace, reqs>>
    BY <1>1, <1>4 DEF Unmatch, TypeOK, fixed
  <2>2. /\ 0 \in 0..Len(trace) /\ Pinned(0) = matched /\ Pinned(0)' = matched'
        /\ \A y \in 0..Len(trace) \ {0} : Pinned(y)' = Pinned(y)
    BY <1>1, <2>1 DEF Pinned
  <2>3. IsInjective(matched)
    BY <1>1, <2>2 DEF HeldOnce
  <2>4. h \in Range(matched) /\ Range(matched') = Range(matched) \ {h}
    BY <2>1, <2>3, TailDistinct
  <2> QED
    BY <2>1, <2>2, <2>4, PinsLost
<1>5. CASE ReleaseBlock
  <2> PICK r, h : r = victim /\ h = Last(reqs[r].pinned)
    OBVIOUS
  <2>1. /\ r \in Requests /\ Touched = r /\ reqs'[r].pinned = Front(reqs[r].pinned)
        /\ reqs[r].pinned \in Seq(Block)
    BY <1>1, <1>5, ReleaseBlockCounts, ReqFacts
  <2>2. reqs[r].pinned # <<>> /\ cache' = Unpin(cache, h) /\ UNCHANGED <<trace, matched>>
    BY <1>5 DEF ReleaseBlock, fixed, call
  <2>3. \A y \in Requests \ {r} : reqs'[y].pinned = reqs[y].pinned
    BY <1>1, <2>1, CountsOfOthers DEF CountsSame
  <2>4. /\ r \in 0..Len(trace) /\ Pinned(r) = reqs[r].pinned /\ Pinned(r)' = reqs'[r].pinned
        /\ \A y \in 0..Len(trace) \ {r} : Pinned(y)' = Pinned(y)
    BY <1>1, <2>1, <2>2, <2>3 DEF Pinned
  <2>5. IsInjective(reqs[r].pinned)
    BY <1>1, <2>4 DEF HeldOnce
  <2>6. h \in Range(reqs[r].pinned) /\ Range(reqs'[r].pinned) = Range(reqs[r].pinned) \ {h}
    BY <2>1, <2>2, <2>5, FrontDistinct, SMTT(30)
  <2> QED
    BY <2>2, <2>4, <2>6, PinsLost
<1>6. CASE Rematch
  <2> PICK r : r = Head(todo)
    OBVIOUS
  <2> PICK i : i = reqs[r].prefilled \div BlockSize + 1
    OBVIOUS
  <2> PICK h : h = Hash(r, i)
    OBVIOUS
  <2>1. r \in Requests /\ Touched = r
    BY <1>1, <1>6, TurnFacts
  <2>2. /\ reqs'[r].pinned = Append(reqs[r].pinned, h) /\ cache' = Pin(cache, h)
        /\ UNCHANGED <<trace, matched>>
    BY <1>1, <1>6, RematchCounts, SMTT(30)
  <2>3. h \in Cached(cache) /\ h \notin Range(reqs[r].pinned) /\ h \in Block
    <3>1. h \in Cached(cache) /\ h \notin Range(reqs[r].pinned)
      BY <1>6, Zenon DEF Rematch, CanRematch
    <3>2. Cached(cache) \subseteq Block
      BY <1>1 DEF TypeOK
    <3> QED
      BY <3>1, <3>2
  <2> QED
    BY <2>1, <2>2, <2>3, PinsTaken
<1>7. CASE PublishBlock
  <2> PICK r : r = Head(todo)
    OBVIOUS
  <2> PICK h : h = Hash(r, reqs[r].inserted + 1)
    OBVIOUS
  <2>1. r \in Requests /\ Touched = r
    BY <1>1, <1>7, TurnFacts
  <2>2. /\ reqs'[r].pinned = Append(reqs[r].pinned, h) /\ UNCHANGED <<trace, matched>> /\ ToPublish(r)
        /\ cache' = IF h \in Cached(cache) THEN Pin(cache, h) ELSE Publish(cache, h)
    BY <1>1, <1>7, PublishBlockCounts
  <2>3. /\ reqs[r].inserted \in Nat /\ NumHashes(r) \in Nat /\ PromptLen(r) \in Nat
        /\ reqs[r].prefilled \in Nat /\ reqs[r].prefilled <= PromptLen(r)
    BY <1>1, <2>1, ReqFacts, TraceFacts DEF PrefillBounded
  <2>4. reqs[r].prefilled \div BlockSize <= NumHashes(r) /\ reqs[r].prefilled \div BlockSize \in Nat
    BY <2>3, BlocksMonotonic, BlockArithmetic DEF NumHashes
  <2>5. reqs[r].inserted + 1 \in 1..NumHashes(r)
    BY <2>2, <2>3, <2>4 DEF ToPublish
  <2>6. h \in Block
    BY <1>1, <2>1, <2>5, HashFacts
  <2>7. h \notin Range(reqs[r].pinned)
    <3>1. h \in Range(reqs[r].pinned) => reqs[r].inserted + 1 <= reqs[r].inserted
      BY <1>1, <2>1, <2>5 DEF HeldOnce
    <3> QED
      BY <2>3, <3>1
  <2> QED
    BY <2>1, <2>2, <2>6, <2>7, PinsTaken
<1>8. CASE PublishGen /\ GenHash(Head(todo), reqs[Head(todo)].genInserted) \notin Cached(cache)
  <2> PICK r : r = Head(todo)
    OBVIOUS
  <2> PICK h : h = GenHash(r, reqs[r].genInserted)
    OBVIOUS
  <2>1. r \in Requests /\ Touched = r
    BY <1>1, <1>8, TurnFacts
  <2>2. /\ reqs'[r].pinned = Append(reqs[r].pinned, h) /\ UNCHANGED <<trace, matched>>
        /\ cache' = Publish(cache, h)
    BY <1>1, <1>8, PublishGenCounts, Zenon
  <2>3. h \in Block
    BY <1>1, <2>1, ReqFacts, HashFacts
  <2>4. h \notin Range(reqs[r].pinned)
    <3>1. h \in Range(reqs[r].pinned) => h \in Held
      BY <1>1, <2>1 DEF Held, Pinned
    <3> QED
      BY <1>8, <3>1 DEF IInv, PinsCoverHolders
  <2> QED
    BY <1>8, <2>1, <2>2, <2>3, <2>4, PinsTaken
<1>9. CASE ~(Admit \/ AdmitMatch \/ Unmatch \/ ReleaseBlock \/ Rematch \/ PublishBlock)
           /\ (PublishGen => GenHash(Head(todo), reqs[Head(todo)].genInserted) \in Cached(cache))
  BY <1>9, PinsKept
<1> QED
  BY <1>2, <1>3, <1>4, <1>5, <1>6, <1>7, <1>8, <1>9

\* Nothing is cached, held or pinned at the start.
LEMMA InitPins == Init => PinsAreHolders
BY DEF Init, PinsAreHolders, Cached, EmptyCache

\* Pins leak only through the request that decodes while it waits: as long as whoever
\* waits holds nothing, every cached block has a pin for each of its holders and no
\* other, so that it goes cold when the last of them lets it go.
THEOREM PinsExact == Spec /\ []WaitingIsReset => []PinsAreHolders
<1>1. Init => PinsAreHolders
  BY InitPins
<1>2. IInv /\ PinsAreHolders /\ WaitingIsReset /\ [Next]_vars => PinsAreHolders'
  <2>1. WaitingIsReset => HoldNothing
    BY DEF WaitingIsReset, HoldNothing
  <2> QED
    BY <2>1, PinsStep
<1> QED
  BY <1>1, <1>2, Invariance, PTL DEF Spec

-----------------------------------------------------------------------------
(* Blocks for tokens.                                                      *)

\* A quotient is known by what it leaves.
LEMMA QuotientIs ==
  ASSUME NEW n \in Nat, NEW q \in Nat, BlockSize * q <= n, n < BlockSize * q + BlockSize
  PROVE  n \div BlockSize = q
<1>0. BlockSize \in Nat \ {0}
  BY CfgAssumption
<1> DEFINE p == n \div BlockSize
<1>1. p \in Int /\ BlockSize * p <= n /\ n < BlockSize * p + BlockSize
  BY <1>0
<1> HIDE DEF p
<1>2. BlockSize * p + BlockSize = BlockSize * (p + 1) /\ BlockSize * q + BlockSize = BlockSize * (q + 1)
  BY <1>0, <1>1
<1>3. ASSUME NEW a \in Int, NEW b \in Int, a + 1 <= b
      PROVE  BlockSize * (a + 1) <= BlockSize * b
  BY <1>0, <1>3
<1>4. ~(p + 1 <= q)
  BY <1>0, <1>1, <1>2, <1>3
<1>5. ~(q + 1 <= p)
  BY <1>0, <1>1, <1>2, <1>3
<1> QED
  BY <1>1, <1>4, <1>5 DEF p

\* One more token needs one more block only where the blocks before it are full.
LEMMA NextToken ==
  ASSUME NEW n \in Nat
  PROVE  /\ Blocks(n) \in Nat /\ Blocks(n + 1) \in Nat /\ n \div BlockSize \in Nat
         /\ n \div BlockSize <= Blocks(n)
         /\ Blocks(n + 1) <= Blocks(n) + 1
         /\ n % BlockSize # 0 => Blocks(n + 1) <= Blocks(n)
         /\ (n + 1) \div BlockSize \in Nat /\ n \div BlockSize <= (n + 1) \div BlockSize
<1>0. BlockSize \in Nat \ {0}
  BY CfgAssumption
<1> DEFINE q == n \div BlockSize
           s == n % BlockSize
<1>1. q \in Nat /\ s \in Nat /\ s < BlockSize /\ n = BlockSize * q + s
  BY <1>0
<1> HIDE DEF q, s
<1> PICK t : t = BlockSize * q
  OBVIOUS
<1>2. t \in Nat /\ n = t + s /\ BlockSize * (q + 1) = t + BlockSize
  BY <1>0, <1>1
<1>3. Blocks(n + 1) = q + 1
  <2>1. n + 1 + BlockSize - 1 = t + BlockSize + s /\ n + 1 + BlockSize - 1 \in Nat
    BY <1>0, <1>1, <1>2
  <2>2. (n + 1 + BlockSize - 1) \div BlockSize = q + 1
    BY <1>0, <1>1, <1>2, <2>1, QuotientIs
  <2> QED
    BY <2>2 DEF Blocks
<1>4. s # 0 => Blocks(n) = q + 1
  <2>1. SUFFICES ASSUME s # 0 PROVE Blocks(n) = q + 1
    OBVIOUS
  <2>2. n + BlockSize - 1 = t + BlockSize + (s - 1) /\ s - 1 \in Nat /\ n + BlockSize - 1 \in Nat
    BY <1>0, <1>1, <1>2, <2>1
  <2>3. (n + BlockSize - 1) \div BlockSize = q + 1
    BY <1>0, <1>1, <1>2, <2>2, QuotientIs
  <2> QED
    BY <2>3 DEF Blocks
<1>5. s = 0 => Blocks(n) = q
  <2>1. SUFFICES ASSUME s = 0 PROVE Blocks(n) = q
    OBVIOUS
  <2>2. n + BlockSize - 1 = t + (BlockSize - 1) /\ n + BlockSize - 1 \in Nat
    BY <1>0, <1>1, <1>2, <2>1
  <2>3. (n + BlockSize - 1) \div BlockSize = q
    BY <1>0, <1>1, <1>2, <2>2, QuotientIs
  <2> QED
    BY <2>3 DEF Blocks
<1>6. q <= (n + 1) \div BlockSize /\ (n + 1) \div BlockSize \in Nat
  BY <1>1, BlocksMonotonic, BlockArithmetic DEF q
<1> QED
  BY <1>1, <1>3, <1>4, <1>5, <1>6 DEF q, s

\* Fewer tokens take no more blocks.
LEMMA BlocksForFewer ==
  ASSUME NEW m \in Nat, NEW n \in Nat, m <= n
  PROVE  Blocks(m) <= Blocks(n)
<1>1. /\ BlockSize \in Nat \ {0} /\ m + BlockSize - 1 \in Nat /\ n + BlockSize - 1 \in Nat
      /\ m + BlockSize - 1 <= n + BlockSize - 1
  BY CfgAssumption
<1> QED
  BY <1>1, BlocksMonotonic DEF Blocks

-----------------------------------------------------------------------------
(* The counts of a request stay within its blocks.                         *)

\* The cache is finite, no more blocks count as inserted than there are, and those of
\* the prompt are passed over before blocks of output are published.
Counted ==
  /\ IsFiniteSet(Cached(cache))
  /\ \A r \in Requests : reqs[r].inserted <= NumHashes(r) /\ reqs[r].genInserted <= TotalFull(r)
  /\ pc = "publish gen" /\ PrefixCaching => NumHashes(Head(todo)) <= reqs[Head(todo)].genInserted

\* Only publishing puts a block into the cache.
LEMMA CachedAfter ==
  ASSUME IInv, [Next]_vars
  PROVE  /\ ~(PublishBlock \/ PublishGen) => Cached(cache') \subseteq Cached(cache)
         /\ \E h : Cached(cache') \subseteq Cached(cache) \cup {h}
<1>1. CASE AdmitMatch \/ Unmatch \/ ReleaseBlock \/ Rematch
  <2>1. \E h : cache' = Pin(cache, h) \/ cache' = Unpin(cache, h)
    BY <1>1 DEF AdmitMatch, Unmatch, ReleaseBlock, Rematch
  <2>2. Cached(cache') = Cached(cache)
    BY <2>1 DEF Pin, Unpin, Cached, IInv, TypeOK
  <2> QED
    BY <2>2, SMTT(30)
<1>2. CASE PublishBlock \/ PublishGen
  <2>1. \E h : cache' = cache \/ cache' = Pin(cache, h) \/ cache' = Publish(cache, h)
    BY <1>2, Zenon DEF PublishBlock, PublishGen
  <2>2. PICK h : cache' = cache \/ cache' = Pin(cache, h) \/ cache' = Publish(cache, h)
    BY <2>1
  <2>3. Cached(Pin(cache, h)) = Cached(cache)
    BY DEF Pin, Cached, IInv, TypeOK
  <2>4. Cached(Publish(cache, h)) \subseteq Cached(cache) \cup {h}
    BY DEF Publish, Cached, IInv, TypeOK
  <2>5. Cached(cache') \subseteq Cached(cache) \cup {h}
    <3> HIDE DEF Cached, Pin, Publish
    <3> QED
      BY <2>2, <2>3, <2>4
  <2> QED
    BY <1>2, <2>5
<1>3. CASE ~(AdmitMatch \/ Unmatch \/ ReleaseBlock \/ Rematch \/ PublishBlock \/ PublishGen)
  <2>1. cache' = cache \/ \E n : cache' = Reclaimed(n)
    BY <1>3, CacheMoves
  <2>2. Cached(cache') \subseteq Cached(cache)
    BY <2>1, ReclaimedOK DEF IInv
  <2> QED
    BY <2>2
<1> QED
  BY <1>1, <1>2, <1>3

\* The numbers of a request.
LEMMA CountFacts ==
  ASSUME TypeOK, NEW r \in Requests
  PROVE  /\ NumHashes(r) \in Nat /\ TotalFull(r) \in Nat /\ NumHashes(r) <= TotalFull(r)
         /\ PromptLen(r) + reqs[r].generated \in Nat
         /\ TotalFull(r) <= Blocks(PromptLen(r) + reqs[r].generated)
         /\ Len(reqs[r].pinned) \in Nat
         /\ reqs[r].inserted \in Nat /\ reqs[r].genInserted \in Nat /\ reqs[r].alloc \in Nat
<1>1. /\ PromptLen(r) \in Nat /\ reqs[r].generated \in Nat /\ NumHashes(r) \in Nat
      /\ reqs[r].inserted \in Nat /\ reqs[r].genInserted \in Nat /\ reqs[r].alloc \in Nat
      /\ reqs[r].pinned \in Seq(Block)
  BY TraceFacts, ReqFacts
<1> PICK p, t : p = PromptLen(r) /\ t = PromptLen(r) + reqs[r].generated
  OBVIOUS
<1>2. p \in Nat /\ t \in Nat /\ p <= t
  BY <1>1
<1>3. t \div BlockSize \in Nat /\ p \div BlockSize <= t \div BlockSize /\ t \div BlockSize <= Blocks(t)
  BY <1>2, BlocksMonotonic, BlockArithmetic
<1> QED
  BY <1>1, <1>2, <1>3, LenProperties DEF NumHashes, TotalFull

\* No step counts more blocks as published than the prompt, or the tokens so far, fill.
LEMMA CountsBounded ==
  ASSUME IInv, Counted, [Next]_vars, IInv', NEW r \in Requests
  PROVE  reqs'[r].inserted <= NumHashes(r) /\ reqs'[r].genInserted <= TotalFull(r)'
<1>1. TypeOK /\ LocalsOK /\ UNCHANGED trace /\ TypeOK' /\ r \in Requests'
  <2>1. TypeOK /\ LocalsOK /\ TypeOK'
    BY DEF IInv
  <2> QED
    BY <2>1, OthersSame DEF Requests
<1> PICK n, p, g, h, i, j, k, l, f, e :
      /\ n = NumHashes(r) /\ p = PromptLen(r)
      /\ g = reqs[r].generated /\ h = reqs'[r].generated
      /\ i = reqs[r].inserted /\ j = reqs'[r].inserted
      /\ k = reqs[r].genInserted /\ l = reqs'[r].genInserted
      /\ f = TotalFull(r) /\ e = TotalFull(r)'
  OBVIOUS
<1>2. /\ n \in Nat /\ i \in Nat /\ k \in Nat /\ f \in Nat
      /\ n <= f /\ i <= n /\ k <= f /\ f = (p + g) \div BlockSize
  BY <1>1, CountFacts, Zenon DEF Counted, TotalFull
<1>3. g \in Nat /\ h \in Nat /\ p \in Nat
  <2>1. g \in Nat /\ p \in Nat
    BY <1>1, ReqFacts, TraceFacts
  <2>2. reqs' \in [Requests -> ReqFields]
    BY <1>1 DEF TypeOK, Requests
  <2> QED
    BY <2>1, <2>2 DEF ReqFields
<1>4. e \in Nat /\ (g <= h => f <= e)
  <2>1. e = (p + h) \div BlockSize
    BY <1>1 DEF TotalFull, PromptLen
  <2>2. p + g \in Nat /\ p + h \in Nat /\ (g <= h => p + g <= p + h)
    BY <1>3
  <2>3. e \in Nat
    BY <2>1, <2>2, BlockArithmetic
  <2>4. ASSUME g <= h
        PROVE  f <= e
    BY <1>2, <2>1, <2>2, <2>4, BlocksMonotonic
  <2> QED
    BY <2>3, <2>4
<1>5. SUFFICES j <= n /\ l <= e
  OBVIOUS
<1>6. ASSUME j = i, l = k, h = g
      PROVE  j <= n /\ l <= e
  BY <1>2, <1>3, <1>4, <1>6
<1>7. CASE CountsSame(r)
  BY <1>6, <1>7 DEF CountsSame
<1>8. CASE ~CountsSame(r)
  <2>1. r = Touched
    BY <1>1, <1>8, CountsOfOthers
  <2>2. CASE Admit
    <3>1. r = Head(waiting)
      BY <2>1, <2>2 DEF Admit, Touched
    <3>2. l = k /\ h = g /\ j = Len(matched) /\ Len(matched) <= n
      BY <2>2, <3>1, AdmitCounts
    <3> QED
      BY <1>2, <1>3, <1>4, <3>2, SMTT(30)
  <2>3. CASE Alloc
    <3>1. r = Head(todo)
      BY <2>1, <2>3 DEF Alloc, Touched
    <3>2. j = i /\ l = k /\ h = g
      BY <1>1, <2>3, <3>1, AllocCounts
    <3> QED
      BY <1>6, <3>2
  <2>4. CASE ReleaseBlock
    BY <1>1, <1>6, <2>1, <2>4, ReleaseBlockCounts
  <2>5. CASE Retired
    BY <1>1, <1>6, <2>1, <2>5, RetiredCounts
  <2>6. CASE Requeue
    <3>1. j = 0 /\ l = 0
      BY <1>1, <2>1, <2>6, RequeueCounts
    <3> QED
      BY <1>2, <1>4, <3>1
  <2>7. CASE Rematch
    <3> PICK m : m = reqs[r].prefilled \div BlockSize + 1
      OBVIOUS
    <3>1. r = Head(todo)
      BY <1>1, <2>1, <2>7, TurnFacts
    <3>2. h = g /\ l = k /\ j = Larger(i, m)
      BY <1>1, <2>7, <3>1, RematchCounts, SMTT(30)
    <3>3. m <= n
      BY <2>7, <3>1, Zenon DEF Rematch, CanRematch
    <3> QED
      BY <1>2, <1>3, <1>4, <3>2, <3>3 DEF Larger
  <2>8. CASE PublishBlock \/ PublishDisabled
    <3> PICK q : q = reqs[r].prefilled \div BlockSize
      OBVIOUS
    <3>1. r = Head(todo)
      BY <1>1, <2>1, <2>8, TurnFacts
    <3>2. h = g /\ l = k /\ j = i + 1 /\ ToPublish(r)
      BY <1>1, <2>8, <3>1, PublishBlockCounts, PublishDisabledCounts
    <3>3. reqs[r].prefilled \in Nat /\ reqs[r].prefilled <= p
      BY <1>1, ReqFacts DEF IInv, PrefillBounded
    <3>4. q \in Nat /\ q <= n
      BY <1>3, <3>3, BlocksMonotonic, BlockArithmetic DEF NumHashes
    <3>5. i < q
      BY <3>2 DEF ToPublish
    <3> QED
      BY <1>2, <1>3, <1>4, <3>2, <3>4, <3>5
  <2>9. CASE FirstToken
    <3>1. r = Head(todo)
      BY <1>1, <2>1, <2>9, TurnFacts
    <3>2. h = 1 /\ g = 0 /\ l = k /\ j = i
      BY <1>1, <2>9, <3>1, FirstTokenCounts
    <3> QED
      BY <1>2, <1>4, <3>2
  <2>10. CASE DecodeToken
    <3>1. r = Head(todo)
      BY <1>1, <2>1, <2>10, TurnFacts
    <3>2. h = g + 1 /\ j = i /\ (l = k \/ l = Larger(k, n))
      BY <1>1, <2>10, <3>1, DecodeTokenCounts
    <3> QED
      BY <1>2, <1>3, <1>4, <3>2 DEF Larger
  <2>11. CASE PublishGen
    <3>1. r = Head(todo)
      BY <1>1, <2>1, <2>11, TurnFacts
    <3>2. h = g /\ l = k + 1 /\ j = i /\ k < f
      BY <1>1, <2>11, <3>1, PublishGenCounts, Zenon DEF GenBlockLeft
    <3> QED
      BY <1>2, <1>3, <1>4, <3>2
  <2>12. CASE Decoded
    <3>1. r = Head(todo)
      BY <1>1, <2>1, <2>12, TurnFacts
    <3>2. h = g /\ j = i /\ (l = f \/ l = k)
      BY <1>1, <2>12, <3>1, DecodedCounts
    <3> QED
      BY <1>2, <1>3, <1>4, <3>2
  <2> QED
    BY <1>1, <1>8, <2>2, <2>3, <2>4, <2>5, <2>6, <2>7, <2>8, <2>9, <2>10, <2>11, <2>12, CountsKept
<1> QED
  BY <1>7, <1>8

\* No step breaks Counted.
LEMMA CountedStep ==
  ASSUME IInv, Counted, [Next]_vars, IInv'
  PROVE  Counted'
<1>1. TypeOK /\ LocalsOK /\ UNCHANGED trace /\ Requests' = Requests
  <2>1. TypeOK /\ LocalsOK
    BY DEF IInv
  <2> QED
    BY <2>1, OthersSame DEF Requests
<1>2. IsFiniteSet(Cached(cache'))
  <2>1. PICK h : Cached(cache') \subseteq Cached(cache) \cup {h}
    BY CachedAfter
  <2>2. IsFiniteSet(Cached(cache) \cup {h})
    BY FS_AddElement, Zenon DEF Counted
  <2> QED
    BY <2>1, <2>2, FS_Subset
<1>3. \A r \in Requests : reqs'[r].inserted <= NumHashes(r)' /\ reqs'[r].genInserted <= TotalFull(r)'
  <2>1. \A r : NumHashes(r)' = NumHashes(r)
    BY <1>1 DEF NumHashes, PromptLen
  <2> QED
    BY <2>1, CountsBounded
<1>4. ASSUME pc' = "publish gen", PrefixCaching
      PROVE  NumHashes(Head(todo))' <= reqs'[Head(todo')].genInserted
  <2> PICK r : r = Head(todo)
    OBVIOUS
  <2>1. NumHashes(r)' = NumHashes(r)
    BY <1>1 DEF NumHashes, PromptLen
  <2>2. CASE DecodeToken
    <3>1. /\ r \in Requests /\ todo' = todo
          /\ reqs'[r].genInserted = Larger(reqs[r].genInserted, NumHashes(r))
      BY <1>1, <1>4, <2>2, TurnFacts, DecodeTokenCounts, Zenon DEF DecodeToken, step
    <3>2. NumHashes(r) \in Nat /\ reqs[r].genInserted \in Nat
      BY <1>1, <3>1, CountFacts
    <3>3. NumHashes(r) <= reqs'[r].genInserted
      BY <3>1, <3>2 DEF Larger
    <3> QED
      BY <2>1, <3>1, <3>3, SMTT(30)
  <2>3. CASE PublishGen
    <3>1. /\ r \in Requests /\ todo' = todo /\ pc = "publish gen"
          /\ reqs'[r].genInserted = reqs[r].genInserted + 1
      BY <1>1, <2>3, TurnFacts, PublishGenCounts, Zenon DEF PublishGen, step
    <3>2. NumHashes(r) \in Nat /\ reqs[r].genInserted \in Nat /\ NumHashes(r) <= reqs[r].genInserted
      BY <1>1, <1>4, <3>1, CountFacts, Zenon DEF Counted
    <3> PICK n, k : n = NumHashes(r) /\ k = reqs[r].genInserted
      OBVIOUS
    <3>3. n <= k + 1
      BY <3>2
    <3> QED
      BY <2>1, <3>1, <3>3, Zenon
  <2>4. CASE UNCHANGED vars \/ Over
    <3>1. pc' = pc /\ todo' = todo /\ reqs' = reqs
      BY <2>4, Zenon DEF vars, Over, step
    <3> QED
      BY <1>4, <2>1, <3>1, Zenon DEF Counted
  <2>5. CASE ~(DecodeToken \/ PublishGen \/ Over \/ UNCHANGED vars)
    <3>1. pc' # "publish gen"
      BY <1>1, <2>5, Zenon
         DEF Next, NextRound, Return, Arrive, NoneDue, IdleJump, Stuck, AdmitMatch, Admit, AdmitFails, Unmatch,
             Refuse, NoCandidate, BeginStep, PlanDecode, BeginAlloc, AllocNone, Alloc, Preempt, ReleaseBlock,
             Requeue, SelfPreempted, Stall, BeginPrefill, Rematch, PrefillTurn, PrefillChunk, PublishBlock,
             PublishDisabled, Published, Elapse, FirstToken, BeginDecode, Decoded, BeginFinish, Finish, Retired,
             EndStep, Skip, TypeOK
    <3> QED
      BY <1>4, <3>1, ZenonT(30)
  <2> QED
    BY <2>2, <2>3, <2>4, <2>5
<1> QED
  BY <1>1, <1>2, <1>3, <1>4, Zenon DEF Counted

\* Counted holds at the start.
LEMMA InitCounted == Init => Counted
<1> SUFFICES ASSUME Init PROVE Counted
  OBVIOUS
<1>1. TypeOK
  BY InitIInv DEF IInv
<1>2. pc = "loop" /\ \A r \in Requests : reqs[r] = NewReq
  BY DEF Init
<1>3. Cached(cache) = {}
  BY DEF Init, Cached, EmptyCache
<1>4. ASSUME NEW r \in Requests
      PROVE  reqs[r].inserted <= NumHashes(r) /\ reqs[r].genInserted <= TotalFull(r)
  <2>1. reqs[r].inserted = 0 /\ reqs[r].genInserted = 0
    BY <1>2 DEF NewReq
  <2> QED
    BY <1>1, <2>1, CountFacts
<1> QED
  BY <1>2, <1>3, <1>4, FS_EmptySet DEF Counted

-----------------------------------------------------------------------------
(* A request that runs has a block for every token, and for the next one.  *)

\* The step has given the request room for its next token, which is still to come.
Ahead(r) == IF Loop = "decode" THEN r \in Left
            ELSE Loop \in {"alloc", "prefill", "first"} /\ r \in Range(batch)

\* The tokens a request has blocks for.
Covered(r) == PromptLen(r) + reqs[r].generated + IF Ahead(r) THEN 1 ELSE 0

\* The blocks are there, and those that are pinned are prompt blocks that count as
\* inserted or blocks of output that count as published.
RoomFor(r) ==
  /\ Blocks(Covered(r)) <= reqs[r].alloc + Len(reqs[r].pinned)
  /\ Len(reqs[r].pinned) + NumHashes(r) <= reqs[r].inserted + Larger(reqs[r].genInserted, NumHashes(r))

\* Every running request has room, except the one being preempted.
RoomOK == \A r \in Range(running) \ {victim} : RoomFor(r)

\* Only the loop that gives out blocks puts a request ahead.
LEMMA AheadBefore ==
  ASSUME TypeOK, LocalsOK, Accounted, [Next]_vars, NEW r, Ahead(r)'
  PROVE  Ahead(r) \/ (r = Head(todo) /\ (AllocNone \/ Alloc))
<1> USE DEF queues, step, call
<1>1. Range(<<>>) = {}
  BY RangeFacts
<1>2. todo # <<>> => /\ Range(Tail(todo)) \subseteq Range(todo)
                     /\ Range(Append(batch, Head(todo))) = Range(batch) \cup {Head(todo)}
  BY HeadTaken DEF Accounted
<1>3. CASE \/ NextRound \/ Return \/ Arrive \/ NoneDue \/ IdleJump \/ Stuck
           \/ AdmitMatch \/ Admit \/ AdmitFails \/ Unmatch \/ Refuse \/ NoCandidate \/ EndStep
  <2>1. pc' \in Outer
    BY <1>3, Zenon DEF NextRound, Return, Arrive, NoneDue, IdleJump, Stuck, AdmitMatch, Admit, AdmitFails, Unmatch,
                Refuse, NoCandidate, EndStep, Accounted, ListsOK, Outer
  <2> QED
    BY <2>1, Zenon DEF Outer, Loop, Ahead
<1>4. CASE UNCHANGED vars \/ Over
  BY <1>4, Zenon DEF vars, Over, Loop, Left, Ahead
<1>5. CASE BeginStep \/ PlanDecode \/ BeginAlloc
  BY <1>1, <1>5, Zenon DEF BeginStep, PlanDecode, BeginAlloc, Loop, Ahead
<1>6. CASE AllocNone \/ Alloc
  BY <1>2, <1>6, Zenon DEF AllocNone, Alloc, Loop, Ahead
<1>7. CASE SelfPreempted \/ Stall \/ Preempt \/ Requeue \/ BeginPrefill
           \/ PrefillChunk \/ Rematch \/ PublishBlock \/ PublishDisabled \/ Published \/ Elapse
  <2>1. /\ Loop \in {"alloc", "prefill"} /\ Loop' \in {"alloc", "prefill", "first"} /\ batch' = batch
    BY <1>7, Zenon DEF SelfPreempted, Stall, Preempt, Requeue, BeginPrefill, PrefillChunk, PrefillTurn,
                Rematch, PublishBlock, PublishDisabled, Published, Elapse, Loop
  <2> QED
    BY <2>1, SMTT(30) DEF Ahead
<1>8. CASE FirstToken
  <2>1. Loop = "first" /\ Loop' = "first" /\ batch' = batch
    BY <1>8, Zenon DEF FirstToken, Loop
  <2> QED
    BY <2>1 DEF Ahead
<1>9. CASE BeginDecode
  <2>1. Loop = "first" /\ Loop' = "decode" /\ todo' = batch /\ Left' = Range(batch)
    BY <1>9 DEF BeginDecode, Loop, Left
  <2> QED
    BY <2>1 DEF Ahead
<1>10. CASE DecodeToken \/ PublishGen \/ Decoded
  <2>1. Loop = "decode" /\ Loop' = "decode" /\ Left' \subseteq Left
    BY <1>2, <1>10, Zenon DEF DecodeToken, PublishGen, Decoded, Loop, Left
  <2> QED
    BY <2>1 DEF Ahead
<1>11. CASE BeginFinish \/ Finish
  BY <1>11, Zenon DEF BeginFinish, Finish, Loop, Ahead
<1>12. CASE ReleaseBlock \/ Retired
  <2>1. /\ Loop' = Loop /\ batch' = batch
        /\ Loop # "decode"
    BY <1>12, Zenon DEF ReleaseBlock, Retired, Loop, Accounted, ListsOK
  <2> QED
    BY <2>1 DEF Ahead
<1>13. CASE Skip
  <2>1. Loop' = Loop /\ batch' = batch /\ Loop # "decode"
    BY <1>13, Zenon DEF Skip, Loop
  <2> QED
    BY <2>1 DEF Ahead
<1> QED
  BY <1>3, <1>4, <1>5, <1>6, <1>7, <1>8, <1>9, <1>10, <1>11, <1>12, <1>13 DEF Next

\* What Covered is, ahead and not.
LEMMA CoveredFacts ==
  ASSUME TypeOK, NEW r \in Requests
  PROVE  /\ Covered(r) \in Nat /\ PromptLen(r) + reqs[r].generated \in Nat
         /\ Ahead(r) => Covered(r) = PromptLen(r) + reqs[r].generated + 1
         /\ ~Ahead(r) => Covered(r) = PromptLen(r) + reqs[r].generated
         /\ PromptLen(r) + reqs[r].generated <= Covered(r)
<1> PICK p, g : p = PromptLen(r) /\ g = reqs[r].generated
  OBVIOUS
<1>1. p \in Nat /\ g \in Nat
  BY TraceFacts, ReqFacts
<1>2. /\ Ahead(r) => Covered(r) = p + g + 1
      /\ ~Ahead(r) => Covered(r) = p + g + 0
  BY DEF Covered
<1>3. p + g + 0 = p + g /\ p + g \in Nat /\ p + g + 1 \in Nat /\ p + g <= p + g + 1 /\ p + g <= p + g
  BY <1>1
<1> QED
  BY <1>2, <1>3

\* A token that comes uses the room that was made for it.
LEMMA CoveredStep ==
  ASSUME IInv, Accounted, [Next]_vars, IInv', NEW r \in Requests,
         ~(r = Head(todo) /\ (AllocNone \/ Alloc \/ FirstToken))
  PROVE  Covered(r)' <= Covered(r)
<1>1. TypeOK /\ LocalsOK /\ TypeOK' /\ UNCHANGED trace /\ r \in Requests'
  <2>1. TypeOK /\ LocalsOK /\ TypeOK'
    BY DEF IInv
  <2> QED
    BY <2>1, OthersSame DEF Requests
<1> PICK p, g, h, c, d :
      /\ p = PromptLen(r) /\ g = reqs[r].generated /\ h = reqs'[r].generated
      /\ c = Covered(r) /\ d = Covered(r)'
  OBVIOUS
<1>2. p \in Nat /\ g \in Nat /\ h \in Nat
  <2>1. p \in Nat /\ g \in Nat
    BY <1>1, ReqFacts, TraceFacts
  <2>2. reqs' \in [Requests -> ReqFields]
    BY <1>1 DEF TypeOK, Requests
  <2> QED
    BY <2>1, <2>2 DEF ReqFields
<1>3. /\ Ahead(r) => c = p + g + 1
      /\ ~Ahead(r) => c = p + g + 0
  BY DEF Covered
<1>4. /\ Ahead(r)' => d = p + h + 1
      /\ ~Ahead(r)' => d = p + h + 0
  BY <1>1 DEF Covered, PromptLen
<1>5. SUFFICES d <= c
  OBVIOUS
<1>6. ASSUME h <= g, Ahead(r)' => Ahead(r)
      PROVE  d <= c
  <2>1. p + h + 1 <= p + g + 1 /\ p + h + 0 <= p + g + 1 /\ p + h + 0 <= p + g + 0
    BY <1>2, <1>6
  <2> QED
    BY <1>3, <1>4, <1>6, <2>1
<1>7. CASE DecodeToken /\ r = Head(todo)
  <2>1. h = g + 1
    BY <1>1, <1>7, DecodeTokenCounts
  <2>2. Ahead(r) /\ ~Ahead(r)'
    <3>1. /\ Loop = "decode" /\ Loop' = "decode" /\ Left = Range(todo) /\ Left' = Range(Tail(todo))
          /\ todo # <<>>
      BY <1>7, Zenon DEF DecodeToken, Loop, Left, step
    <3>2. r \in Range(todo) /\ r \notin Range(Tail(todo))
      BY <1>1, <1>7, <3>1, HeadTaken DEF Accounted
    <3> QED
      BY <3>1, <3>2 DEF Ahead
  <2>3. p + (g + 1) + 0 <= p + g + 1
    BY <1>2
  <2> QED
    BY <1>3, <1>4, <2>1, <2>2, <2>3
<1>8. CASE ~(DecodeToken /\ r = Head(todo))
  <2>1. Ahead(r)' => Ahead(r)
    BY <1>1, AheadBefore
  <2>2. CASE CountsSame(r)
    BY <1>2, <1>6, <2>1, <2>2 DEF CountsSame
  <2>3. CASE ~CountsSame(r)
    <3>1. r = Touched
      BY <1>1, <2>3, CountsOfOthers
    <3>2. CASE Requeue
      <4>1. h = 0
        BY <1>1, <3>1, <3>2, RequeueCounts
      <4> QED
        BY <1>2, <1>6, <2>1, <4>1
    <3>3. CASE Admit \/ Alloc \/ ReleaseBlock \/ Retired
      <4>1. Admit => r = Head(waiting)
        BY <3>1 DEF Admit, Touched
      <4>2. Alloc => r = Head(todo)
        BY <3>1 DEF Alloc, Touched
      <4>3. h = g
        BY <1>1, <3>1, <3>3, <4>1, <4>2, AdmitCounts, AllocCounts, ReleaseBlockCounts, RetiredCounts
      <4> QED
        BY <1>2, <1>6, <2>1, <4>3
    <3>4. CASE Rematch \/ PublishBlock \/ PublishDisabled \/ FirstToken \/ DecodeToken \/ PublishGen \/ Decoded
      <4>1. r = Head(todo)
        BY <1>1, <3>1, <3>4, TurnFacts
      <4>2. h = g
        BY Zenon, <1>1, <1>8, <3>4, <4>1, RematchCounts, PublishBlockCounts, PublishDisabledCounts,
           PublishGenCounts, DecodedCounts
      <4> QED
        BY <1>2, <1>6, <2>1, <4>2
    <3> QED
      BY <1>1, <2>3, <3>2, <3>3, <3>4, CountsKept
  <2> QED
    BY <2>2, <2>3
<1> QED
  BY <1>7, <1>8

\* The prompts of a trace fill no whole number of blocks.
NoWholePrompts == \A tr \in Traces : \A r \in DOMAIN tr : Len(tr[r].words) % BlockSize # 0

\* Whoever publishes a block owns one.
LEMMA OwnsOne ==
  ASSUME IInv, Counted, NEW r \in Requests, RoomFor(r),
         \/ reqs[r].inserted < NumHashes(r)
         \/ NumHashes(r) <= reqs[r].genInserted /\ reqs[r].genInserted < TotalFull(r)
  PROVE  reqs[r].alloc \in Nat /\ reqs[r].alloc >= 1
<1>1. TypeOK
  BY DEF IInv
<1>0. PICK n, a, k, i, f, e, t, c, b :
      /\ n = NumHashes(r) /\ a = reqs[r].alloc /\ k = Len(reqs[r].pinned)
      /\ i = reqs[r].inserted /\ f = reqs[r].genInserted /\ e = TotalFull(r)
      /\ t = PromptLen(r) + reqs[r].generated /\ c = Covered(r) /\ b = Blocks(c)
  OBVIOUS
<1>2. /\ n \in Nat /\ a \in Nat /\ k \in Nat /\ i \in Nat /\ f \in Nat /\ e \in Nat
      /\ n <= e /\ t \in Nat /\ e <= Blocks(t) /\ i <= n /\ f <= e
  BY <1>0, <1>1, CountFacts, Zenon DEF Counted
<1>3. c \in Nat /\ t <= c
  BY <1>0, <1>1, CoveredFacts
<1>4. Blocks(t) \in Nat /\ b \in Nat /\ Blocks(t) <= b
  BY <1>0, <1>2, <1>3, BlocksForFewer, BlockArithmetic
<1>5. e <= b
  <2> PICK d : d = Blocks(t)
    OBVIOUS
  <2>1. d \in Nat /\ e <= d /\ d <= b
    BY <1>2, <1>4
  <2> QED
    BY <1>2, <1>4, <2>1
<1>6. b <= a + k /\ k + n <= i + Larger(f, n)
  BY <1>0 DEF RoomFor
<1>7. i < n \/ (n <= f /\ f < e)
  BY <1>0
<1>8. a >= 1
  BY <1>2, <1>4, <1>5, <1>6, <1>7 DEF Larger
<1> QED
  BY <1>0, <1>2, <1>8

\* The blocks of a request that is admitted.
LEMMA RoomAdmitted ==
  ASSUME NoWholePrompts, IInv, IInv', HoldNothing, Admit, NEW r, r = Head(waiting)
  PROVE  RoomFor(r)'
<1>1. TypeOK /\ TypeOK'
  BY DEF IInv
<1>2. /\ r \in Requests /\ r \in Range(waiting) /\ reqs'[r].generated = reqs[r].generated
      /\ reqs'[r].genInserted = reqs[r].genInserted /\ reqs'[r].alloc = Need(r)
      /\ reqs'[r].inserted = Len(matched) /\ reqs'[r].pinned = matched
      /\ Len(matched) \in Nat /\ Len(matched) <= NumHashes(r)
      /\ pc' = "admit" /\ trace' = trace
  BY AdmitCounts
<1> PICK p, n, m, f, b, g :
      /\ p = PromptLen(r) /\ n = NumHashes(r) /\ m = Len(matched) /\ f = reqs[r].genInserted
      /\ b = Blocks(p) /\ g = reqs[r].generated
  OBVIOUS
<1>3. /\ p \in Nat /\ n \in Nat /\ m \in Nat /\ f \in Nat /\ m <= n
      /\ g \in {0, 1}
  <2>1. g \in Nat /\ g <= 1
    BY <1>1, <1>2, ReqFacts DEF HoldNothing
  <2>2. g \in {0, 1}
    BY <2>1
  <2>3. p \in Nat /\ n \in Nat /\ m \in Nat /\ f \in Nat /\ m <= n
    BY <1>1, <1>2, TraceFacts, ReqFacts
  <2> QED
    BY <2>2, <2>3
<1>4. b \in Nat /\ n <= b
  BY <1>3, BlockArithmetic DEF NumHashes
<1>5. PromptLen(r)' = p /\ NumHashes(r)' = n /\ r \in Requests'
  BY <1>2 DEF PromptLen, NumHashes, Requests
<1>6. ~Ahead(r)'
  BY <1>2 DEF Ahead, Loop
<1>7. Covered(r)' = p + g
  <2>1. Covered(r)' = p + g + 0
    BY <1>2, <1>3, <1>5, <1>6 DEF Covered
  <2>2. p + g + 0 = p + g
    BY <1>3
  <2> QED
    BY <2>1, <2>2
<1>11. Blocks(p + g) <= b
  <2>1. p % BlockSize # 0
    <3>1. trace \in Traces /\ r \in DOMAIN trace
      BY <1>1, <1>2 DEF TypeOK, Requests
    <3> QED
      BY <3>1 DEF NoWholePrompts, PromptLen
  <2>2. Blocks(p + 1) <= b
    BY <1>3, <2>1, NextToken
  <2>3. p + 0 = p
    BY <1>3
  <2> QED
    BY <1>3, <1>4, <2>2, <2>3
<1>8. /\ Blocks(Covered(r)') <= b /\ Blocks(Covered(r)') \in Nat
      /\ reqs'[r].alloc = b - m /\ Len(reqs'[r].pinned) = m
      /\ reqs'[r].inserted = m /\ reqs'[r].genInserted = f
  <2>1. p + g \in Nat
    BY <1>3
  <2>2. Blocks(p + g) \in Nat
    BY <2>1, BlockArithmetic
  <2> QED
    BY <1>2, <1>7, <1>11, <2>2 DEF Need
<1>9. b = (b - m) + m /\ m + n <= m + Larger(f, n)
  BY <1>3, <1>4 DEF Larger
<1>10. Blocks(Covered(r))' = Blocks(Covered(r)')
  BY DEF Blocks
<1> QED
  BY <1>5, <1>8, <1>9, <1>10 DEF RoomFor

\* No step takes the room of a running request, nor admits one without.
LEMMA RoomStep ==
  ASSUME NoWholePrompts, IInv, InLine, VictimAway, PrefixHeld, Accounted, Counted, HoldNothing, RoomOK,
         [Next]_vars, IInv', Counted', NEW r \in Range(running') \ {victim'}
  PROVE  RoomFor(r)'
<1>1. TypeOK /\ LocalsOK /\ TypeOK' /\ UNCHANGED trace
  <2>1. TypeOK /\ LocalsOK /\ TypeOK'
    BY DEF IInv
  <2> QED
    BY <2>1, OthersSame
<1>2. CASE Admit /\ r \notin Range(running) \ {victim}
  <2>1. /\ running' = Append(running, Head(waiting)) /\ victim' = victim
        /\ Range(Append(running, Head(waiting))) = Range(running) \cup {Head(waiting)}
    <3>1. /\ running' = Append(running, Head(waiting)) /\ victim' = victim /\ Head(waiting) \in Requests
      BY <1>2, AdmitCounts
    <3>2. running \in Seq(Requests)
      BY <1>1 DEF TypeOK
    <3> QED
      BY <3>1, <3>2, AppendDistinct
  <2>2. r = Head(waiting)
    BY <1>2, <2>1
  <2> QED
    BY <1>2, <2>2, RoomAdmitted
<1>3. CASE r \in Range(running) \ {victim}
  <2>1. r \in Requests /\ RoomFor(r) /\ r \in Requests'
    BY <1>1, <1>3, RangeFacts DEF RoomOK, Requests
  <2>0. PICK n, a, k, i, f, u, v, w, x, c, d, b, e :
        /\ n = NumHashes(r) /\ c = Covered(r) /\ d = Covered(r)' /\ b = Blocks(c) /\ e = Blocks(d)
        /\ a = reqs[r].alloc /\ k = Len(reqs[r].pinned) /\ i = reqs[r].inserted /\ f = reqs[r].genInserted
        /\ u = reqs'[r].alloc /\ v = Len(reqs'[r].pinned) /\ w = reqs'[r].inserted /\ x = reqs'[r].genInserted
    OBVIOUS
  <2>2. /\ n \in Nat /\ a \in Nat /\ k \in Nat /\ i \in Nat /\ f \in Nat /\ i <= n
        /\ c \in Nat /\ d \in Nat /\ b \in Nat /\ e \in Nat /\ (d <= c => e <= b)
        /\ f <= TotalFull(r) /\ TotalFull(r) \in Nat
        /\ reqs[r].pinned \in Seq(Block)
    <3>1. n \in Nat /\ a \in Nat /\ k \in Nat /\ i \in Nat /\ f \in Nat /\ TotalFull(r) \in Nat
      BY <2>0, <1>1, <2>1, CountFacts
    <3>2. c \in Nat
      BY <2>0, <1>1, <2>1, CoveredFacts
    <3>3. d \in Nat
      <4> PICK P, g : P = PromptLen(r)' /\ g = reqs'[r].generated
        OBVIOUS
      <4>1. PromptLen(r)' = PromptLen(r) /\ P \in Nat
        BY <2>0, <1>1, <2>1, TraceFacts DEF PromptLen
      <4>2. reqs' \in [Requests -> ReqFields]
        BY <2>0, <1>1 DEF TypeOK, Requests
      <4>3. g \in Nat
        BY <2>0, <2>1, <4>2 DEF ReqFields
      <4>4. d = P + g + 1 \/ d = P + g + 0
        BY <2>0 DEF Covered
      <4> QED
        BY <2>0, <4>1, <4>3, <4>4
    <3>4. b \in Nat /\ e \in Nat /\ (d <= c => e <= b)
      BY <2>0, <3>2, <3>3, BlockArithmetic, BlocksForFewer
    <3>5. i <= n /\ f <= TotalFull(r) /\ reqs[r].pinned \in Seq(Block)
      BY <2>0, <1>1, <2>1, ReqFacts, Zenon DEF Counted
    <3> QED
      BY <2>0, <3>1, <3>2, <3>3, <3>4, <3>5
  <2>3. b <= a + k /\ k + n <= i + Larger(f, n)
    BY <2>0, <2>1 DEF RoomFor
  <2>4. SUFFICES e <= u + v /\ v + n <= w + Larger(x, n)
    <3>1. NumHashes(r)' = n /\ Blocks(Covered(r))' = e
      BY <2>0, <1>1 DEF NumHashes, PromptLen, Blocks
    <3> QED
      BY <2>0, <3>1 DEF RoomFor
  <2>5. ~(r = Head(todo) /\ (AllocNone \/ Alloc \/ FirstToken)) => e <= b
    BY <2>0, <1>1, <2>1, <2>2, CoveredStep
  <2>6. ASSUME u = a, v = k, w = i, x = f, e <= b
        PROVE  e <= u + v /\ v + n <= w + Larger(x, n)
    BY <2>2, <2>3, <2>6
  <2>7. CASE AllocNone /\ r = Head(todo)
    <3>1. CountsSame(r)
      <4>1. ~(Admit \/ Alloc \/ ReleaseBlock \/ Requeue \/ Rematch \/ PublishBlock \/ PublishDisabled
                \/ FirstToken \/ DecodeToken \/ PublishGen \/ Decoded \/ Retired)
        BY <2>0, <2>7 DEF AllocNone, Admit, Alloc, ReleaseBlock, Requeue, Rematch, PrefillTurn, PublishBlock,
                    PublishDisabled, FirstToken, DecodeToken, PublishGen, Decoded, Retired
      <4> QED
        BY <2>0, <1>1, <2>1, <4>1, CountsKept
    <3>2. e <= b
      <4> PICK t, s : t = PromptLen(r) + reqs[r].generated /\ s = PromptLen(r)' + reqs'[r].generated
        OBVIOUS
      <4>1. t \in Nat /\ (c = t \/ c = t + 1) /\ t <= c
        BY <2>0, <1>1, <2>1, CoveredFacts
      <4>2. s = t
        BY <2>0, <1>1, <3>1 DEF CountsSame, PromptLen
      <4>3. d = t + 1 \/ d = t + 0
        BY <2>0, <4>2 DEF Covered
      <4>4. Blocks(t + 1) <= Blocks(t)
        <5>1. Blocks(t) \in Nat /\ Blocks(t + 1) \in Nat /\ ~(Blocks(t + 1) > Blocks(t))
          BY <2>0, <2>7, <4>1, NextToken DEF AllocNone, NeedsBlock
        <5> QED
          BY <2>0, <5>1
      <4>5. Blocks(t) <= b /\ Blocks(t) \in Nat /\ Blocks(t + 1) \in Nat
        BY <2>0, <2>2, <4>1, NextToken, BlocksForFewer
      <4>6. e = Blocks(t + 1) \/ e = Blocks(t)
        <5>1. t + 0 = t
          BY <2>0, <4>1
        <5> QED
          BY <2>0, <4>3, <5>1
      <4> PICK l, m : l = Blocks(t) /\ m = Blocks(t + 1)
        OBVIOUS
      <4>7. l \in Nat /\ m \in Nat /\ m <= l /\ l <= b /\ (e = m \/ e = l)
        BY <2>0, <4>4, <4>5, <4>6
      <4> QED
        BY <2>2, <4>7
    <3> QED
      BY <2>0, <2>6, <3>1, <3>2 DEF CountsSame
  <2>8. CASE Alloc /\ r = Head(todo)
    <3>1. /\ reqs'[r].generated = reqs[r].generated /\ x = f /\ u = a + 1 /\ w = i /\ v = k
      BY <2>0, <1>1, <2>8, AllocCounts
    <3>2. e <= b + 1
      <4> PICK t, s : t = PromptLen(r) + reqs[r].generated /\ s = PromptLen(r)' + reqs'[r].generated
        OBVIOUS
      <4>1. t \in Nat /\ (c = t \/ c = t + 1) /\ t <= c
        BY <2>0, <1>1, <2>1, CoveredFacts
      <4>2. s = t
        BY <2>0, <1>1, <3>1 DEF PromptLen
      <4>3. d = t + 1 \/ d = t + 0
        BY <2>0, <4>2 DEF Covered
      <4>4. Blocks(t + 1) <= Blocks(t) + 1
        BY <2>0, <4>1, NextToken
      <4>5. Blocks(t) <= b /\ Blocks(t) \in Nat /\ Blocks(t + 1) \in Nat
        BY <2>0, <2>2, <4>1, NextToken, BlocksForFewer
      <4>6. e = Blocks(t + 1) \/ e = Blocks(t)
        <5>1. t + 0 = t
          BY <2>0, <4>1
        <5> QED
          BY <2>0, <4>3, <5>1
      <4> PICK l, m : l = Blocks(t) /\ m = Blocks(t + 1)
        OBVIOUS
      <4>7. l \in Nat /\ m \in Nat /\ m <= l + 1 /\ l <= b /\ (e = m \/ e = l)
        BY <2>0, <4>4, <4>5, <4>6
      <4> QED
        BY <2>2, <4>7
    <3> QED
      BY <2>2, <2>3, <3>1, <3>2, SMTT(30)
  <2>9. CASE FirstToken /\ r = Head(todo)
    <3>1. /\ reqs'[r].generated = 1 /\ reqs[r].generated = 0 /\ x = f /\ u = a /\ w = i /\ v = k
          /\ r \notin Range(batch)
      BY <2>0, <1>1, <2>9, FirstTokenCounts
    <3>2. ~Ahead(r) /\ ~Ahead(r)'
      <4>1. Loop = "first" /\ Loop' = "first" /\ batch' = batch
        BY <2>0, <2>9, Zenon DEF FirstToken, Loop
      <4> QED
        BY <2>0, <3>1, <4>1 DEF Ahead
    <3> PICK p : p = PromptLen(r)
      OBVIOUS
    <3>3. p \in Nat /\ p % BlockSize # 0
      <4>1. trace \in Traces /\ r \in DOMAIN trace
        BY <2>0, <1>1, <2>1 DEF TypeOK, Requests
      <4> QED
        BY <2>0, <1>1, <2>1, <4>1, TraceFacts DEF NoWholePrompts, PromptLen
    <3>4. c = p + 0 + 0 /\ d = p + 1 + 0
      BY <2>0, <1>1, <3>1, <3>2 DEF Covered, PromptLen
    <3>5. c = p /\ d = p + 1
      BY <2>0, <3>3, <3>4
    <3>6. e <= b
      BY <2>0, <3>3, <3>5, NextToken
    <3> QED
      BY <2>0, <2>6, <3>1, <3>6
  <2>10. CASE ~(r = Head(todo) /\ (AllocNone \/ Alloc \/ FirstToken))
    <3>0. e <= b
      BY <2>0, <2>5, <2>10
    <3>1. CASE CountsSame(r)
      BY <2>0, <2>6, <3>0, <3>1 DEF CountsSame
    <3>2. CASE ~CountsSame(r)
      <4>1. r = Touched
        BY <2>0, <1>1, <2>1, <3>2, CountsOfOthers
      <4>2. ~(ReleaseBlock \/ Requeue \/ Retired)
        BY <2>0, <1>3, <4>1 DEF ReleaseBlock, Requeue, Retired, Touched
      <4>3. ~Alloc
        BY <2>0, <2>10, <4>1 DEF Alloc, Touched
      <4>4. ~Admit
        <5>1. Admit => r \in Range(waiting)
          BY <2>0, <4>1, AdmitCounts
        <5> QED
          BY <2>0, <1>3, <5>1 DEF InLine
      <4>5. ASSUME a >= 1, u = Returned(a), v = k + 1, (w = i + 1 /\ x = f) \/ (w = i /\ x = f + 1 /\ n <= f)
            PROVE  e <= u + v /\ v + n <= w + Larger(x, n)
        <5>1. u = a - 1
          BY <2>2, <4>5 DEF Returned, Larger
        <5> QED
          BY <2>2, <2>3, <3>0, <4>5, <5>1 DEF Larger
      <4>6. CASE Rematch
        <5> PICK m : m = reqs[r].prefilled \div BlockSize + 1
          OBVIOUS
        <5> PICK h : h = Hash(r, m)
          OBVIOUS
        <5>1. r = Head(todo)
          BY <2>0, <1>1, <4>1, <4>6, TurnFacts
        <5>2. /\ x = f /\ u = Returned(a) /\ w = Larger(i, m)
              /\ reqs'[r].pinned = Append(reqs[r].pinned, h) /\ pc = "prefill"
          BY <2>0, <1>1, <4>6, <5>1, RematchCounts
        <5>3. v = k + 1
          <6>1. h \in Block
            <7>1. h \in Cached(cache) /\ Cached(cache) \subseteq Block
              BY <2>0, <1>1, <4>6, <5>1, ZenonT(30) DEF Rematch, CanRematch, TypeOK
            <7> QED
              BY <2>0, <7>1, SMTT(30)
          <6> QED
            BY <2>0, <2>2, <5>2, <6>1, AppendProperties
        <5>4. PrefixCaching /\ h \notin Range(reqs[r].pinned) /\ m <= n
          BY <2>0, <4>6, <5>1, Zenon DEF Rematch, CanRematch
        <5>5. /\ ~ToPublish(r) /\ \A j \in 1..i : Hash(r, j) \in Range(reqs[r].pinned)
          BY <2>0, <1>3, <5>2, <5>4 DEF PrefixHeld
        <5> PICK q : q = reqs[r].prefilled \div BlockSize
          OBVIOUS
        <5>6. q \in Nat /\ m = q + 1 /\ q <= i
          <6>1. q \in Nat
            BY <2>0, <1>1, <2>1, ReqFacts, BlockArithmetic
          <6> QED
            BY <2>0, <2>2, <5>5, <6>1, SMTT(30) DEF ToPublish
        <5>7. m \notin 1..i
          BY <2>0, <5>4, <5>5
        <5>8. i = q
          BY <2>2, <5>6, <5>7
        <5>9. w = i + 1 /\ i < n
          BY <2>2, <5>2, <5>4, <5>6, <5>8 DEF Larger
        <5>10. a >= 1
          BY <2>0, <2>1, <5>9, OwnsOne
        <5> QED
          BY <4>5, <5>2, <5>3, <5>9, <5>10
      <4>7. CASE PublishBlock
        <5> PICK h : h = Hash(r, reqs[r].inserted + 1)
          OBVIOUS
        <5>1. r = Head(todo)
          BY <2>0, <1>1, <4>1, <4>7, TurnFacts
        <5>2. /\ x = f /\ u = Returned(a) /\ w = i + 1 /\ ToPublish(r)
              /\ reqs'[r].pinned = Append(reqs[r].pinned, h)
          BY <2>0, <1>1, <4>7, <5>1, PublishBlockCounts
        <5>3. i < n
          <6> PICK q : q = reqs[r].prefilled \div BlockSize
            OBVIOUS
          <6>1. /\ PromptLen(r) \in Nat /\ reqs[r].prefilled \in Nat /\ reqs[r].prefilled <= PromptLen(r)
            BY <2>0, <1>1, <2>1, ReqFacts, TraceFacts DEF IInv, PrefillBounded
          <6>2. q \in Nat /\ q <= n
            BY <2>0, <6>1, BlocksMonotonic, BlockArithmetic DEF NumHashes
          <6>3. i < q
            BY <2>0, <5>2 DEF ToPublish
          <6> QED
            BY <2>0, <2>2, <6>2, <6>3
        <5>4. v = k + 1
          <6>1. i + 1 \in 1..n
            BY <2>2, <5>3
          <6>2. h \in Block
            BY <2>0, <1>1, <2>1, <6>1, HashFacts
          <6> QED
            BY <2>0, <2>2, <5>2, <6>2, AppendProperties
        <5>5. a >= 1
          BY <2>0, <2>1, <5>3, OwnsOne
        <5> QED
          BY <4>5, <5>2, <5>4, <5>5
      <4>8. CASE PublishDisabled
        <5>1. r = Head(todo)
          BY <2>0, <1>1, <4>1, <4>8, TurnFacts
        <5>2. x = f /\ u = a /\ w = i + 1 /\ v = k
          BY <2>0, <1>1, <4>8, <5>1, PublishDisabledCounts
        <5> QED
          BY <2>2, <2>3, <3>0, <5>2 DEF Larger
      <4>9. CASE DecodeToken
        <5>1. r = Head(todo)
          BY <2>0, <1>1, <4>1, <4>9, TurnFacts
        <5>2. (x = Larger(f, n) \/ x = f) /\ u = a /\ w = i /\ v = k
          BY <2>0, <1>1, <4>9, <5>1, DecodeTokenCounts
        <5> QED
          BY <2>2, <2>3, <3>0, <5>2 DEF Larger
      <4>10. CASE Decoded
        <5> PICK t : t = TotalFull(r)
          OBVIOUS
        <5>1. r = Head(todo)
          BY <2>0, <1>1, <4>1, <4>10, TurnFacts
        <5>2. (x = t \/ x = f) /\ u = a /\ w = i /\ v = k
          BY <2>0, <1>1, <4>10, <5>1, DecodedCounts
        <5>3. t \in Nat /\ f <= t
          BY <2>0, <2>2
        <5> QED
          BY <2>2, <2>3, <3>0, <5>2, <5>3 DEF Larger
      <4>11. CASE PublishGen
        <5> PICK h : h = GenHash(r, reqs[r].genInserted)
          OBVIOUS
        <5>1. r = Head(todo)
          BY <2>0, <1>1, <4>1, <4>11, TurnFacts
        <5>2. /\ x = f + 1 /\ w = i /\ pc = "publish gen" /\ GenBlockLeft(r)
              /\ IF h \in Cached(cache) THEN u = a /\ v = k
                 ELSE u = Returned(a) /\ reqs'[r].pinned = Append(reqs[r].pinned, h)
          BY <2>0, <1>1, <4>11, <5>1, PublishGenCounts, Zenon
        <5>3. n <= f /\ f < TotalFull(r)
          BY <2>0, <5>1, <5>2, Zenon DEF Counted, GenBlockLeft
        <5>4. a >= 1
          BY <2>0, <2>1, <5>3, OwnsOne
        <5>5. h \in Block
          BY <2>0, <1>1, <2>1, <2>2, HashFacts
        <5>8. x = f + 1 /\ w = i
          BY <5>2, Zenon
        <5>6. CASE h \in Cached(cache)
          <6>1. u = a /\ v = k
            BY <2>0, <5>2, <5>6, Zenon
          <6> QED
            BY <2>2, <2>3, <3>0, <5>3, <5>8, <6>1 DEF Larger
        <5>7. CASE h \notin Cached(cache)
          <6>1. u = Returned(a) /\ v = k + 1
            <7>1. u = Returned(a) /\ reqs'[r].pinned = Append(reqs[r].pinned, h)
              BY <5>2, <5>7, Zenon
            <7>2. Len(Append(reqs[r].pinned, h)) = Len(reqs[r].pinned) + 1
              BY <2>2, <5>5, AppendProperties
            <7> QED
              BY <2>0, <7>1, <7>2
          <6> QED
            BY <4>5, <5>3, <5>4, <5>8, <6>1
        <5> QED
          BY <2>0, <5>6, <5>7
      <4>12. ~FirstToken
        <5>1. FirstToken => r = Head(todo)
          BY <2>0, <1>1, <4>1, TurnFacts
        <5> QED
          BY <2>0, <2>10, <5>1
      <4> QED
        BY <2>0, <1>1, <2>1, <3>2, <4>2, <4>3, <4>4, <4>6, <4>7, <4>8, <4>9, <4>10, <4>11, <4>12, CountsKept
    <3> QED
      BY <2>0, <3>1, <3>2
  <2> QED
    BY <2>0, <2>7, <2>8, <2>9, <2>10
<1>4. CASE ~Admit
  <2>1. r \in Range(running) \ {victim}
    BY <1>1, <1>4, RanBefore
  <2> QED
    BY <1>3, <2>1
<1> QED
  BY <1>2, <1>3, <1>4

-----------------------------------------------------------------------------
(* The pool is never overdrawn.                                            *)

\* A block to publish is one of the prompt that is not inserted yet.
LEMMA BlockToPublish ==
  ASSUME IInv, NEW r \in Requests, ToPublish(r)
  PROVE  reqs[r].inserted < NumHashes(r)
<1> PICK q, i, n : q = reqs[r].prefilled \div BlockSize /\ i = reqs[r].inserted /\ n = NumHashes(r)
  OBVIOUS
<1>1. /\ PromptLen(r) \in Nat /\ reqs[r].prefilled \in Nat /\ reqs[r].prefilled <= PromptLen(r)
      /\ i \in Nat /\ n \in Nat
  BY ReqFacts, TraceFacts DEF IInv, PrefillBounded
<1>2. q \in Nat /\ q <= n
  BY <1>1, BlocksMonotonic, BlockArithmetic DEF NumHashes
<1>3. i < q
  BY DEF ToPublish
<1> QED
  BY <1>1, <1>2, <1>3

\* What is free, in numbers.
LEMMA FreeIs ==
  ASSUME TypeOK, Counted
  PROVE  /\ IsFiniteSet(Range(running)) /\ Range(running) \subseteq Requests
         /\ \A r \in Range(running) : reqs[r].alloc \in Nat
         /\ AllocSum(reqs, Range(running)) \in Nat /\ Cardinality(Cached(cache)) \in Nat /\ NumBlocks \in Nat
         /\ \A c : Free(c) = NumBlocks - Cardinality(Cached(c)) - AllocSum(reqs, Range(running))
<1>1. IsFiniteSet(Requests) /\ Range(running) \subseteq Requests
  BY TraceFacts, RangeFacts
<1>2. IsFiniteSet(Range(running)) /\ \A r \in Range(running) : reqs[r].alloc \in Nat
  BY <1>1, FS_Subset, ReqFacts
<1>3. AllocSum(reqs, Range(running)) \in Nat
  BY <1>2, AllocSumNat
<1>4. Cardinality(Cached(cache)) \in Nat
  BY FS_CardinalityType, Zenon DEF Counted
<1>5. \A c : Free(c) = NumBlocks - Cardinality(Cached(c)) - AllocSum(reqs, Range(running))
  BY DEF Free, AllocSum
<1> QED
  BY <1>1, <1>2, <1>3, <1>4, <1>5, CfgAssumption

\* The free blocks after a step, as a sum.
LEMMA FreeAfter ==
  Free(cache)' = NumBlocks - Cardinality(Cached(cache')) - AllocSum(reqs', Range(running'))
BY DEF Free, AllocSum, Cached, MapThenSumSet, MapThenFoldSet

\* Who has gone owns nothing any more.
LEMMA SumOfRunning ==
  ASSUME TypeOK, InLine, Counted, NEW x, running' = RemoveFirst(running, x),
         \A r \in Range(running') : reqs'[r].alloc = reqs[r].alloc
  PROVE  AllocSum(reqs', Range(running')) \in Nat
         /\ AllocSum(reqs', Range(running')) <= AllocSum(reqs, Range(running))
<1> PICK R, T : R = Range(running) /\ T = Range(running')
  OBVIOUS
<1>1. IsFiniteSet(R) /\ \A r \in R : reqs[r].alloc \in Nat
  BY FreeIs
<1>2. CASE x \in R
  <2>1. T = R \ {x}
    BY <1>2, RemoveFirstDistinct DEF TypeOK, InLine
  <2>2. IsFiniteSet(T) /\ \A r \in T : reqs[r].alloc \in Nat /\ reqs'[r].alloc = reqs[r].alloc
    BY <1>1, <2>1, FS_Subset
  <2>3. AllocSum(reqs', T) = AllocSum(reqs, T) /\ AllocSum(reqs, T) \in Nat
    BY <2>2, AllocSumSame, AllocSumNat
  <2>4. AllocSum(reqs, R) = reqs[x].alloc + AllocSum(reqs, T) /\ reqs[x].alloc \in Nat
    BY <1>1, <1>2, <2>1, AllocSumOne
  <2> QED
    BY <2>3, <2>4
<1>3. CASE x \notin R
  <2>1. T = R
    BY <1>3, RangeIs DEF RemoveFirst, TypeOK
  <2>2. AllocSum(reqs', T) = AllocSum(reqs, R) /\ AllocSum(reqs, R) \in Nat
    BY <1>1, <2>1, AllocSumSame, AllocSumNat
  <2> QED
    BY <2>2
<1> QED
  BY <1>2, <1>3

\* One request's count changes while the same requests run.
LEMMA SumOfOne ==
  ASSUME TypeOK, LocalsOK, Counted, [Next]_vars, running' = running, NEW x, x = Touched,
         reqs'[x].alloc \in Nat
  PROVE  /\ AllocSum(reqs', Range(running')) \in Nat
         /\ x \notin Range(running) => AllocSum(reqs', Range(running')) = AllocSum(reqs, Range(running))
         /\ x \in Range(running) =>
              AllocSum(reqs', Range(running')) = AllocSum(reqs, Range(running)) - reqs[x].alloc + reqs'[x].alloc
<1> PICK R : R = Range(running)
  OBVIOUS
<1>1. IsFiniteSet(R) /\ R \subseteq Requests /\ \A r \in R : reqs[r].alloc \in Nat
  BY FreeIs
<1>2. \A r \in R \ {x} : reqs'[r].alloc = reqs[r].alloc
  BY <1>1, CountsOfOthers DEF CountsSame
<1> QED
  BY <1>1, <1>2, AllocSumSet

\* Whoever publishes a block pays with one that it owns.
PublisherPays ==
  PublishBlock \/ PublishGen =>
    Head(todo) \in Range(running) /\ reqs[Head(todo)].alloc >= 1

\* No step overdraws the pool, as long as who publishes owns the block.
LEMMA FitsStep ==
  ASSUME IInv, InLine, Counted, PoolWithinCapacity, [Next]_vars, PublisherPays, Counted'
  PROVE  PoolWithinCapacity'
<1>1. TypeOK /\ LocalsOK
  BY DEF IInv
<1>0. PICK N, C, D, A, B :
        /\ N = NumBlocks /\ C = Cardinality(Cached(cache)) /\ D = Cardinality(Cached(cache'))
        /\ A = AllocSum(reqs, Range(running)) /\ B = AllocSum(reqs', Range(running'))
  OBVIOUS
<1>2. /\ N \in Nat /\ C \in Nat /\ A \in Nat /\ D \in Nat
      /\ \A c : Free(c) = N - Cardinality(Cached(c)) - A
  <2>1. D \in Nat
    BY <1>0, FS_CardinalityType, Zenon DEF Counted
  <2> QED
    BY <1>0, <1>1, <2>1, FreeIs
<1>3. N - C - A >= 0
  BY <1>2, <1>0 DEF PoolWithinCapacity
<1>4. SUFFICES N - D - B >= 0
  BY <1>0, FreeAfter DEF PoolWithinCapacity
<1>5. ~(PublishBlock \/ PublishGen) => D <= C
  <2>1. ASSUME ~(PublishBlock \/ PublishGen)
        PROVE  D <= C
    <3>1. Cached(cache') \in SUBSET Cached(cache)
      BY <2>1, CachedAfter
    <3> QED
      BY <1>0, <3>1, FS_Subset, Zenon DEF Counted
  <2> QED
    BY <2>1
<1>6. D <= C + 1
  <2>1. PICK h : Cached(cache') \subseteq Cached(cache) \cup {h}
    BY CachedAfter
  <2> PICK R : R = Cached(cache) \cup {h}
    OBVIOUS
  <2>2. IsFiniteSet(R) /\ (Cardinality(R) = C \/ Cardinality(R) = C + 1)
    BY <1>0, FS_AddElement, Zenon DEF Counted
  <2>3. D <= Cardinality(R)
    BY <1>0, <2>1, <2>2, FS_Subset
  <2> QED
    BY <1>2, <2>2, <2>3
<1>7. ASSUME D <= C, B \in Nat, B <= A
      PROVE  N - D - B >= 0
  BY <1>2, <1>3, <1>7
<1>8. CASE Admit
  <2>0. PICK r, n : r = Head(waiting) /\ n = Need(r)
    OBVIOUS
  <2>1. /\ r \in Requests /\ r \in Range(waiting) /\ reqs'[r].alloc = n
        /\ running' = Append(running, r) /\ cache' = Reclaimed(n) /\ Reclaims(n)
    BY <1>8, <2>0, AdmitCounts
  <2>2. N - D - A >= n
    BY <1>0, <1>2, <2>1 DEF Reclaims
  <2>3. n \in Int
    <3>1. PromptLen(r) \in Nat /\ Len(matched) \in Nat
      BY <1>1, <2>1, TraceFacts, LenProperties DEF TypeOK
    <3>2. Blocks(PromptLen(r)) \in Nat
      BY <3>1, BlockArithmetic
    <3> QED
      BY <2>0, <3>1, <3>2 DEF Need
  <2>4. B = n + A
    <3> PICK R : R = Range(running)
      OBVIOUS
    <3>1. IsFiniteSet(R) /\ R \subseteq Requests /\ \A q \in R : reqs[q].alloc \in Nat
      BY <1>1, FreeIs
    <3>2. r \notin R
      BY <2>1 DEF InLine
    <3>3. Range(running') = R \cup {r}
      BY <1>1, <2>1, AppendDistinct DEF TypeOK
    <3>4. \A q \in R : reqs'[q].alloc = reqs[q].alloc
      <4>1. r = Touched
        BY <1>8, <2>0, AdmitCounts
      <4> QED
        BY <1>1, <3>1, <3>2, <4>1, CountsOfOthers DEF CountsSame
    <3>5. AllocSum(reqs', R) = A
      BY <1>0, <3>1, <3>4, AllocSumSame
    <3> PICK U : U = R \cup {r}
      OBVIOUS
    <3>6. /\ IsFiniteSet(U) /\ r \in U /\ U \ {r} = R /\ Range(running') = U
      BY <3>1, <3>2, <3>3, FS_AddElement
    <3>7. \A q \in U : reqs'[q].alloc \in Nat
      <4>1. n \in Nat
        <5>1. Len(matched) <= NumHashes(r) /\ Len(matched) \in Nat
          BY <1>8, <2>0, AdmitCounts
        <5>2. PromptLen(r) \in Nat
          BY <1>1, <2>1, TraceFacts
        <5>3. /\ NumHashes(r) <= Blocks(PromptLen(r)) /\ NumHashes(r) \in Nat
              /\ Blocks(PromptLen(r)) \in Nat
          BY <5>2, BlockArithmetic DEF NumHashes
        <5> QED
          BY <2>0, <5>1, <5>3 DEF Need
      <4> QED
        BY <2>1, <3>1, <3>4, <4>1
    <3>8. AllocSum(reqs', U) = reqs'[r].alloc + AllocSum(reqs', U \ {r})
      BY <3>6, <3>7, AllocSumOne
    <3> QED
      BY <1>0, <2>1, <3>5, <3>6, <3>8
  <2> QED
    BY <1>2, <2>2, <2>3, <2>4
<1>9. CASE Alloc
  <2>0. PICK r, a : r = Head(todo) /\ a = reqs[r].alloc
    OBVIOUS
  <2>1. /\ r \in Requests /\ Touched = r /\ reqs'[r].alloc = a + 1 /\ a \in Nat
        /\ cache' = Reclaimed(1) /\ Reclaims(1) /\ running' = running
    BY <1>1, <1>9, <2>0, AllocCounts, ReqFacts
  <2>2. N - D - A >= 1
    BY <1>0, <1>2, <2>1 DEF Reclaims
  <2>3. B = A \/ B = A - a + (a + 1)
    BY <1>0, <1>1, <2>0, <2>1, SumOfOne
  <2> QED
    BY <1>2, <2>1, <2>2, <2>3
<1>10. CASE PublishBlock \/ PublishGen
  <2>0. PICK r, a, b : r = Head(todo) /\ a = reqs[r].alloc /\ b = reqs'[r].alloc
    OBVIOUS
  <2>1. /\ r \in Requests /\ Touched = r /\ a \in Nat /\ a >= 1 /\ r \in Range(running)
    BY <1>1, <1>10, <2>0, TurnFacts, ReqFacts DEF PublisherPays
  <2>2. running' = running /\ (b = Returned(a) \/ (b = a /\ cache' = cache))
    <3>1. CASE PublishBlock
      BY <1>1, <2>0, <3>1, PublishBlockCounts
    <3>2. CASE PublishGen
      <4> PICK h : h = GenHash(r, reqs[r].genInserted)
        OBVIOUS
      <4> QED
        BY <1>1, <2>0, <3>2, PublishGenCounts, Zenon
    <3> QED
      BY <1>10, <3>1, <3>2
  <2>3. (b = a - 1) \/ (b = a /\ D = C)
    <3>1. Returned(a) = a - 1
      BY <2>1 DEF Returned, Larger
    <3> QED
      BY <1>0, <2>2, <3>1
  <2>4. b \in Nat
    BY <2>1, <2>3
  <2>5. B = A - a + b
    BY <1>0, <1>1, <2>0, <2>1, <2>2, <2>4, SumOfOne
  <2> QED
    BY <1>2, <1>3, <1>6, <2>1, <2>3, <2>4, <2>5
<1>11. CASE Rematch
  <2>0. PICK r, a, b : r = Head(todo) /\ a = reqs[r].alloc /\ b = reqs'[r].alloc
    OBVIOUS
  <2>1. /\ r \in Requests /\ Touched = r /\ a \in Nat
    BY <1>1, <1>11, <2>0, TurnFacts, ReqFacts
  <2>2. running' = running /\ b = Returned(a)
    <3> PICK i : i = reqs[r].prefilled \div BlockSize + 1
      OBVIOUS
    <3> QED
      BY <1>1, <1>11, <2>0, RematchCounts
  <2>3. b \in Nat /\ b <= a
    BY <2>1, <2>2 DEF Returned, Larger
  <2>4. B \in Nat /\ (B = A \/ B = A - a + b)
    BY <1>0, <1>1, <2>0, <2>1, <2>2, <2>3, SumOfOne
  <2>5. B <= A
    BY <1>2, <2>1, <2>3, <2>4, SMTT(30)
  <2>6. D <= C
    BY <1>5, <1>11, Zenon DEF Rematch, PrefillTurn, PublishBlock, PublishGen
  <2> QED
    BY <1>7, <2>4, <2>5, <2>6
<1>12. CASE ~(Admit \/ Alloc \/ PublishBlock \/ PublishGen \/ Rematch)
  <2>1. D <= C
    BY <1>5, <1>12, SMTT(30)
  <2>2. running' = running \/ \E x : running' = RemoveFirst(running, x)
    BY <1>12, Zenon DEF Next, vars, queues, NextRound, Return, Arrive, NoneDue, IdleJump, Stuck, AdmitMatch, AdmitFails,
       Unmatch, Refuse, NoCandidate, BeginStep, PlanDecode, BeginAlloc, AllocNone, Preempt, ReleaseBlock, Requeue,
       SelfPreempted, Stall, BeginPrefill, PrefillChunk, PublishDisabled, Published, Elapse, FirstToken,
       BeginDecode, DecodeToken, Decoded, BeginFinish, Finish, Retired, EndStep, Skip, Over
  <2>3. ASSUME NEW r \in Requests, r \in Range(running'), ~Retired
        PROVE  reqs'[r].alloc = reqs[r].alloc
    <3>1. CASE CountsSame(r)
      BY <3>1 DEF CountsSame
    <3>2. CASE ~CountsSame(r)
      <4>1. r = Touched
        BY <1>1, <3>2, CountsOfOthers
      <4>2. ~Requeue
        <5>1. Requeue => running' = RemoveFirst(running, victim) /\ Touched = victim
          BY DEF Requeue, Touched
        <5> QED
          BY <1>1, <2>3, <4>1, <5>1, RemovedFrom
      <4>3. CASE ReleaseBlock
        BY <1>1, <4>1, <4>3, ReleaseBlockCounts
      <4>4. CASE PublishDisabled \/ FirstToken \/ DecodeToken \/ Decoded
        <5>1. r = Head(todo)
          BY <1>1, <4>1, <4>4, TurnFacts
        <5> QED
          BY <1>1, <4>4, <5>1, PublishDisabledCounts, FirstTokenCounts, DecodeTokenCounts, DecodedCounts
      <4> QED
        BY <1>1, <1>12, <2>3, <3>2, <4>2, <4>3, <4>4, CountsKept
    <3> QED
      BY <3>1, <3>2
  <2>4. Range(running) \subseteq Requests
    BY <1>1, RangeFacts
  <2>5. B \in Nat /\ B <= A
    <3>1. CASE Retired
      <4>1. Touched = victim /\ reqs'[victim].alloc = 0 /\ running' = running
        BY <1>1, <3>1, RetiredCounts DEF Retired, queues
      <4>2. B \in Nat /\ (B = A \/ (victim \in Range(running) /\ B = A - reqs[victim].alloc + 0))
        BY <1>0, <1>1, <4>1, SumOfOne
      <4>3. victim \in Range(running) => reqs[victim].alloc \in Nat
        BY <1>1, FreeIs
      <4> QED
        BY <1>2, <4>2, <4>3
    <3>2. CASE ~Retired /\ running' = running
      <4>1. \A r \in Range(running) : reqs'[r].alloc = reqs[r].alloc
        BY <2>3, <2>4, <3>2
      <4>2. B = A
        BY <1>0, <1>1, <3>2, <4>1, FreeIs, AllocSumSame
      <4> QED
        BY <1>2, <4>2
    <3>3. CASE ~Retired /\ \E x : running' = RemoveFirst(running, x)
      <4>1. PICK x : running' = RemoveFirst(running, x)
        BY <3>3
      <4>2. Range(running') \subseteq Range(running)
        BY <1>1, <4>1, RemovedFrom
      <4>3. \A r \in Range(running') : reqs'[r].alloc = reqs[r].alloc
        BY <2>3, <2>4, <3>3, <4>2
      <4> QED
        BY <1>0, <1>1, <4>1, <4>3, SumOfRunning
    <3> QED
      BY <2>2, <3>1, <3>2, <3>3
  <2> QED
    BY <1>7, <2>1, <2>5
<1> QED
  BY <1>8, <1>9, <1>10, <1>11, <1>12

\* A request that decodes while it waits fills no block.
WaitQuietly == pc = "publish gen" /\ GenBlockLeft(Head(todo)) => Head(todo) \notin Range(waiting)

\* A request that is reset has no token, and one that decodes while it waits has.
LEMMA ResetIsQuiet ==
  ASSUME Accounted, WaitingIsReset
  PROVE  HoldNothing /\ WaitQuietly
<1>1. HoldNothing
  BY DEF WaitingIsReset, HoldNothing
<1>2. pc = "publish gen" => Head(todo) \notin Range(waiting)
  <2> PICK r : r = Head(todo)
    OBVIOUS
  <2>1. ASSUME pc = "publish gen", r \in Range(waiting) PROVE FALSE
    <3>1. reqs[r].generated = 0
      BY <2>1, Zenon DEF WaitingIsReset
    <3>2. reqs[r].generated = 1
      BY <2>1, Zenon DEF Accounted, GhostOK
    <3> QED
      BY <3>1, <3>2
  <2> QED
    BY <2>1, Zenon
<1> QED
  BY <1>1, <1>2, Zenon DEF WaitQuietly

\* What a loop publishes belongs to a request that runs and owns a block.
LEMMA PublishersRun ==
  ASSUME IInv, InLine, Accounted, TurnsOK, VictimAway, Counted, RoomOK, WaitQuietly
  PROVE  PublisherPays
<1>1. TypeOK /\ LocalsOK
  BY DEF IInv
<1> PICK r : r = Head(todo)
  OBVIOUS
<1>2. CASE PublishBlock
  <2>1. r \in Requests /\ r \in Range(todo) /\ pc = "publish" /\ ToPublish(r)
    BY <1>1, <1>2, TurnFacts DEF PublishBlock
  <2>2. r \in Range(running)
    BY <2>1 DEF TurnsOK, Loop
  <2>3. r \in Range(running) \ {victim}
    BY <1>1, <2>1, <2>2, TraceFacts DEF VictimAway
  <2>4. reqs[r].alloc >= 1
    BY <2>1, <2>3, BlockToPublish, OwnsOne DEF RoomOK
  <2> QED
    BY <2>2, <2>4 DEF PublisherPays
<1>3. CASE PublishGen
  <2>1. r \in Requests /\ r \in Range(todo) /\ pc = "publish gen" /\ GenBlockLeft(r) /\ Loop = "decode"
    BY <1>1, <1>3, TurnFacts, Zenon DEF PublishGen, Loop
  <2>2. ~reqs[r].finish
    BY <2>1, Zenon DEF TurnsOK
  <2>3. r \in Range(running) \cup Range(waiting) \cup Range(pending)
    BY <2>1, <2>2, Zenon DEF Accounted, DoneOK
  <2>4. r \notin Range(pending)
    BY <2>1, Zenon DEF Accounted, ListsOK
  <2>5. r \notin Range(waiting)
    BY <2>1, Zenon DEF WaitQuietly
  <2>6. r \in Range(running) \ {victim}
    <3>1. r # victim
      <4>1. victim = 0
        BY <2>1, Zenon DEF VictimAway
      <4>2. Requests = 1..Len(trace) /\ Len(trace) \in Nat
        BY <1>1, TraceFacts
      <4>3. 0 \notin Requests
        BY <4>2
      <4>4. r # 0
        BY <2>1, <4>3, Zenon
      <4> QED
        BY <4>1, <4>4
    <3>2. r \in Range(running)
      BY <2>3, <2>4, <2>5
    <3> QED
      BY <3>1, <3>2
  <2>7. reqs[r].alloc >= 1
    BY <2>1, <2>6, OwnsOne, Zenon DEF RoomOK, Counted, GenBlockLeft
  <2> QED
    BY <2>6, <2>7 DEF PublisherPays
<1> QED
  BY <1>2, <1>3 DEF PublisherPays

\* What holds of the scheduler whatever the requests are.
Settled == InLine /\ Accounted /\ TurnsOK /\ VictimAway /\ PrefixHeld /\ Counted

\* All of it holds at the start.
LEMMA InitSettled == Init => Settled /\ PoolWithinCapacity /\ RoomOK
<1> SUFFICES ASSUME Init PROVE Settled /\ PoolWithinCapacity /\ RoomOK
  OBVIOUS
<1>1. TypeOK /\ Counted
  BY InitIInv, InitCounted DEF IInv
<1>2. running = <<>> /\ Range(running) = {} /\ Cached(cache) = {}
  BY RangeFacts, <1>1 DEF Init, Cached, EmptyCache
<1>3. Settled
  BY <1>1, <1>2, InitInLine, InitAccounted, InitServed DEF Init, Settled, VictimAway, PrefixHeld, Served
<1>4. RoomOK
  BY <1>2 DEF RoomOK
<1>5. PoolWithinCapacity
  <2>1. \A r \in {} : reqs[r].alloc \in Nat
    OBVIOUS
  <2>2. AllocSum(reqs, {}) = 0
    <3>1. IsFiniteSet({})
      BY FS_EmptySet
    <3>2. PICK g : AllocSum(reqs, {}) = g[{}] /\ Adds(g, [r \in {} |-> reqs[r].alloc], {})
      BY <3>1, <2>1, AllocAdds
    <3> QED
      BY <3>2 DEF Adds
  <2>3. Free(cache) = NumBlocks - 0 - 0
    BY <1>1, <1>2, <2>2, FreeIs, FS_EmptySet
  <2> QED
    BY <2>3, CfgAssumption DEF PoolWithinCapacity
<1> QED
  BY <1>3, <1>4, <1>5

\* No step breaks Settled.
LEMMA NextSettled ==
  ASSUME IInv, Settled, [Next]_vars, IInv'
  PROVE  Settled'
<1>1. TypeOK
  BY DEF IInv
<1>2. InLine' /\ Accounted' /\ VictimAway' /\ PrefixHeld'
  BY <1>1, NextInLine, NextAccounted, VictimStep, PrefixStep DEF Settled
<1>3. TurnsOK' /\ Counted'
  BY TurnsStep, CountedStep DEF Settled
<1> QED
  BY <1>2, <1>3 DEF Settled

\* No step overdraws the pool, as long as whoever waits holds and publishes nothing.
LEMMA PoolStep ==
  ASSUME NoWholePrompts, IInv, Settled, RoomOK, HoldNothing, WaitQuietly, [Next]_vars, IInv'
  PROVE  Settled' /\ RoomOK' /\ (PoolWithinCapacity => PoolWithinCapacity')
<1>1. Settled'
  BY NextSettled
<1>2. RoomOK'
  BY <1>1, RoomStep DEF Settled, RoomOK
<1>3. PoolWithinCapacity => PoolWithinCapacity'
  BY <1>1, PublishersRun, FitsStep DEF Settled
<1> QED
  BY <1>1, <1>2, <1>3

\* The pool holds what is cached and what requests own, whatever is preempted and
\* evicted on the way, as long as no prompt ends where a block ends and whoever waits
\* holds nothing: every block that is published is paid for with one the publisher owns.
THEOREM PoolHolds ==
  ASSUME NoWholePrompts
  PROVE  Spec /\ []WaitingIsReset => []PoolWithinCapacity
<1>1. Init => Settled /\ RoomOK /\ PoolWithinCapacity
  BY InitSettled
<1>2. ASSUME IInv, Settled, RoomOK, PoolWithinCapacity, WaitingIsReset, [Next]_vars, IInv'
      PROVE  Settled' /\ RoomOK' /\ PoolWithinCapacity'
  <2>1. HoldNothing /\ WaitQuietly
    BY <1>2, ResetIsQuiet DEF Settled
  <2> QED
    BY <1>2, <2>1, PoolStep
<1> QED
  BY <1>1, <1>2, Invariance, PTL DEF Spec

\* A request that runs owns or shares a block for every token it holds.
LEMMA RoomIsEnough ==
  ASSUME IInv, Counted, RoomOK
  PROVE  TokensHaveBlocks
<1>1. TypeOK
  BY DEF IInv
<1> SUFFICES ASSUME NEW r \in Range(running) \ {victim}
             PROVE  Blocks(reqs[r].prefilled + reqs[r].generated) <= reqs[r].alloc + Len(reqs[r].pinned)
  BY DEF TokensHaveBlocks
<1>2. r \in Requests /\ RoomFor(r)
  BY <1>1, RangeFacts DEF RoomOK
<1>0. PICK p, q, g, c, b, o :
        /\ p = PromptLen(r) /\ q = reqs[r].prefilled /\ g = reqs[r].generated
        /\ c = Covered(r) /\ b = Blocks(c) /\ o = reqs[r].alloc + Len(reqs[r].pinned)
  OBVIOUS
<1>3. q \in Nat /\ g \in Nat /\ p \in Nat /\ q <= p
  BY <1>0, <1>1, <1>2, ReqFacts, TraceFacts DEF IInv, PrefillBounded
<1>4. c \in Nat /\ p + g <= c
  BY <1>0, <1>1, <1>2, CoveredFacts
<1>5. q + g \in Nat /\ q + g <= c
  BY <1>3, <1>4
<1>6. Blocks(q + g) \in Nat /\ b \in Nat /\ Blocks(q + g) <= b
  BY <1>0, <1>4, <1>5, BlocksForFewer, BlockArithmetic
<1>7. o \in Nat /\ b <= o
  <2>1. reqs[r].alloc \in Nat /\ Len(reqs[r].pinned) \in Nat
    BY <1>1, <1>2, CountFacts
  <2> QED
    BY <1>0, <1>2, <2>1 DEF RoomFor
<1>8. Blocks(q + g) <= o
  <2> PICK d : d = Blocks(q + g)
    OBVIOUS
  <2> QED
    BY <1>6, <1>7
<1> QED
  BY <1>0, <1>8

\* Under the same conditions a request that runs has a block, its own or a cached one
\* it holds, for every token of its prompt and of its output.
THEOREM TokensAreHoused ==
  ASSUME NoWholePrompts
  PROVE  Spec /\ []WaitingIsReset => []TokensHaveBlocks
<1>1. Init => Settled /\ RoomOK
  BY InitSettled
<1>2. ASSUME IInv, Settled, RoomOK, WaitingIsReset, [Next]_vars, IInv'
      PROVE  Settled' /\ RoomOK'
  <2>1. HoldNothing /\ WaitQuietly
    BY <1>2, ResetIsQuiet DEF Settled
  <2> QED
    BY <1>2, <2>1, PoolStep
<1>3. IInv /\ Settled /\ RoomOK => TokensHaveBlocks
  BY RoomIsEnough DEF Settled
<1> QED
  BY <1>1, <1>2, <1>3, Invariance, PTL DEF Spec

\* Without prefix caching nothing is published, and the pool holds what requests own
\* whatever the prompts are and whoever decodes while it waits.
THEOREM PoolHoldsUncached ==
  ASSUME ~PrefixCaching
  PROVE  Spec => []PoolWithinCapacity
<1>1. Init => Settled /\ PoolWithinCapacity
  BY InitSettled
<1>2. ASSUME IInv, Settled, PoolWithinCapacity, [Next]_vars, IInv'
      PROVE  Settled' /\ PoolWithinCapacity'
  <2>1. Settled'
    BY <1>2, NextSettled
  <2>2. PublisherPays
    BY Zenon DEF PublisherPays, PublishBlock, PublishGen, GenBlockLeft
  <2> QED
    BY <1>2, <2>1, <2>2, FitsStep DEF Settled
<1> QED
  BY <1>1, <1>2, Invariance, PTL DEF Spec

-----------------------------------------------------------------------------
(* Who waits holds nothing, unless one of the batch preempts another.      *)

\* A preemption takes nobody else of the batch that is being given its blocks.
SparesBatch == Preempt => victim' = Head(todo) \/ victim' \notin Range(todo) \cup Range(batch)

\* Nobody that waits is to decode in this step.
Apart ==
  /\ pc = "preempt" => victim = Head(todo) \/ victim \notin Range(todo) \cup Range(batch)
  /\ \A r \in Range(waiting) :
       /\ Loop \in {"alloc", "prefill", "first", "decode"} => r \notin Range(batch)
       /\ Loop = "alloc" /\ r \in Range(todo) => pc = "retry" /\ r = victim /\ r = Head(todo)

\* WaitingIsReset, and the same of the requests to come.
Fresh ==
  \A r \in Range(waiting) \cup Range(pending) :
    reqs[r].generated = 0 /\ reqs[r].alloc = 0 /\ reqs[r].pinned = <<>>

\* The victim of a preemption is all that Requeue adds to waiting.
LEMMA PushedFirst ==
  ASSUME TypeOK, LocalsOK, Requeue
  PROVE  Range(waiting') = {victim} \cup Range(waiting)
<1>1. victim \in Requests /\ waiting \in Seq(Requests) /\ waiting' = <<victim>> \o waiting
  BY DEF TypeOK, LocalsOK, Requeue
<1>0. PICK s : s = <<victim>>
  OBVIOUS
<1>2. s \in Seq(Requests) /\ Len(s) = 1 /\ s[1] = victim
  BY <1>0, <1>1
<1>3. Range(s) = {victim}
  <2>1. s \in Seq(Requests)
    BY <1>2
  <2>2. \A x : x \in Range(s) <=> \E i \in 1..Len(s) : x = s[i]
    BY <2>1, RangeIs
  <2> QED
    BY <1>2, <2>2
<1>4. Range(s \o waiting) = Range(s) \cup Range(waiting)
  BY <1>1, <1>2, JoinedOnce
<1> QED
  BY <1>0, <1>1, <1>3, <1>4

\* No step puts into the batch a request that waits, nor lets one of the batch wait.
LEMMA ApartStep ==
  ASSUME IInv, InLine, Accounted, Apart, [Next]_vars, SparesBatch
  PROVE  Apart'
<1> USE DEF queues, step, call
<1>1. TypeOK /\ LocalsOK
  BY DEF IInv
<1>2. Range(<<>>) = {} /\ Range(running) \cap Range(waiting) = {}
  BY <1>1, RangeFacts DEF InLine
<1>3. todo # <<>> => /\ Head(todo) \in Range(todo) /\ Range(Tail(todo)) = Range(todo) \ {Head(todo)}
                     /\ Range(Append(batch, Head(todo))) = Range(batch) \cup {Head(todo)}
  BY <1>1, HeadTaken DEF Accounted
<1>4. CASE \/ NextRound \/ Return \/ Arrive \/ NoneDue \/ IdleJump \/ Stuck
           \/ AdmitMatch \/ Admit \/ AdmitFails \/ Unmatch \/ Refuse \/ NoCandidate \/ EndStep
  <2>1. pc' \in Outer
    BY <1>4, Zenon DEF NextRound, Return, Arrive, NoneDue, IdleJump, Stuck, AdmitMatch, Admit, AdmitFails, Unmatch,
                Refuse, NoCandidate, EndStep, Accounted, ListsOK, Outer
  <2> QED
    BY <2>1, Zenon DEF Outer, Loop, Apart
<1>5. CASE UNCHANGED vars \/ Over
  BY <1>5, Zenon DEF vars, Over, Loop, Apart
<1>6. CASE BeginStep \/ PlanDecode \/ BeginFinish \/ Finish
  BY <1>6, Zenon DEF BeginStep, PlanDecode, BeginFinish, Finish, Loop, Apart
<1>7. CASE BeginAlloc
  <2>1. /\ pc' = "alloc" /\ Loop' = "alloc" /\ Loop = "plan" /\ todo' = batch /\ batch' = <<>> /\ waiting' = waiting
    BY <1>7 DEF BeginAlloc, Loop
  <2>2. Range(batch) \subseteq Range(running)
    BY <2>1 DEF Accounted, ListsOK
  <2> QED
    BY <1>2, <2>1, <2>2 DEF Apart
<1>8. CASE AllocNone \/ Alloc \/ SelfPreempted \/ Stall
  <2>1. /\ todo # <<>> /\ todo' = Tail(todo) /\ waiting' = waiting /\ pc' = "alloc" /\ Loop = "alloc" /\ Loop' = "alloc"
        /\ \/ batch' = batch
           \/ batch' = Append(batch, Head(todo)) /\ (pc = "retry" => victim # Head(todo))
    BY <1>8, <1>1, Zenon DEF AllocNone, Alloc, SelfPreempted, Stall, Loop, LocalsOK
  <2> QED
    BY <1>3, <2>1 DEF Apart
<1>9. CASE Preempt
  <2>1. /\ waiting' = waiting /\ todo' = todo /\ batch' = batch /\ pc = "alloc" /\ Loop = "alloc" /\ Loop' = "alloc"
    BY <1>9 DEF Preempt, Loop
  <2> QED
    BY <1>9, <2>1 DEF Apart, SparesBatch
<1>10. CASE Requeue
  <2>1. /\ pc = "preempt" /\ pc' = "retry" /\ todo' = todo /\ batch' = batch /\ victim' = victim
        /\ Loop = "alloc" /\ Loop' = "alloc" /\ waiting' = <<victim>> \o waiting
    BY <1>10 DEF Requeue, Loop
  <2>2. Range(waiting') = {victim} \cup Range(waiting)
    BY <1>1, <1>10, PushedFirst
  <2>3. Range(todo) \cap Range(batch) = {} /\ Head(todo) \in Range(todo)
    BY <1>1, <1>3, <2>1 DEF Accounted, ListsOK, LocalsOK
  <2> QED
    BY <2>1, <2>2, <2>3 DEF Apart
<1>11. CASE ReleaseBlock \/ Rematch \/ PrefillChunk \/ PublishBlock \/ PublishDisabled \/ DecodeToken \/ PublishGen
  <2>1. /\ waiting' = waiting /\ todo' = todo /\ batch' = batch /\ Loop' = Loop /\ victim' = victim
        /\ pc' = pc \/ (pc \notin {"preempt", "retry"} /\ pc' \notin {"preempt", "retry"})
    BY <1>11, Zenon DEF ReleaseBlock, Rematch, PrefillTurn, PrefillChunk, PublishBlock, PublishDisabled, DecodeToken,
                 PublishGen, Loop
  <2> QED
    BY <2>1, SMTT(30) DEF Apart
<1>12. CASE \/ BeginPrefill \/ Published \/ Elapse \/ FirstToken \/ BeginDecode \/ Decoded \/ Retired \/ Skip
  <2>1. /\ waiting' = waiting /\ batch' = batch /\ Loop' # "alloc" /\ pc' # "preempt"
        /\ Loop' \in {"prefill", "first", "decode"} => Loop \in {"alloc", "prefill", "first", "decode"}
    BY <1>12, Zenon DEF BeginPrefill, Published, Elapse, FirstToken, BeginDecode, Decoded, Retired, Skip, Loop,
                 Accounted, ListsOK
  <2> QED
    BY <2>1 DEF Apart
<1> QED
  BY <1>4, <1>5, <1>6, <1>7, <1>8, <1>9, <1>10, <1>11, <1>12 DEF Next

\* Whose fields a loop of the step sets runs.
LEMMA TurnRuns ==
  ASSUME IInv, InLine, Accounted, TurnsOK, Apart,
         Alloc \/ Rematch \/ PrefillChunk \/ PublishBlock \/ PublishDisabled \/ FirstToken
           \/ DecodeToken \/ PublishGen \/ Decoded
  PROVE  Touched = Head(todo) /\ Head(todo) \notin Range(waiting) \cup Range(pending)
<1>1. TypeOK /\ LocalsOK
  BY SMTT(30) DEF IInv
<1>2. /\ todo # <<>> /\ pc \in {"alloc", "retry", "prefill", "publish", "first", "decode", "publish gen"}
      /\ pc \in {"alloc", "retry"} => Alloc
  BY <1>1, Zenon DEF Alloc, Rematch, PrefillTurn, PrefillChunk, PublishBlock, PublishDisabled, FirstToken, DecodeToken,
              PublishGen, Decoded, LocalsOK
<1>3. Head(todo) \in Range(todo)
  BY <1>1, <1>2, HeadTaken, Zenon DEF Accounted
<1>4. Head(todo) \notin Range(waiting)
  <2>1. CASE pc \in {"alloc", "retry"}
    <3>1. Loop = "alloc" /\ (pc = "retry" => victim # Head(todo))
      BY <1>2, <2>1, Zenon DEF Loop, Alloc
    <3> QED
      BY <1>3, <3>1 DEF Apart
  <2>2. CASE pc \in {"prefill", "publish"}
    BY <1>3, <2>2, Zenon DEF Loop, TurnsOK, InLine
  <2>3. CASE pc = "first"
    BY <1>3, <2>3 DEF Loop, Left, Accounted, ListsOK, InLine
  <2>4. CASE pc \in {"decode", "publish gen"}
    <3>1. Range(todo) \subseteq Range(batch) /\ Loop = "decode"
      BY <2>4, Zenon DEF Loop, Accounted, ListsOK
    <3> QED
      BY <1>3, <3>1 DEF Apart
  <2> QED
    BY <1>2, <2>1, <2>2, <2>3, <2>4, Zenon
<1> QED
  BY <1>2, <1>3, <1>4, Zenon DEF Touched, Accounted, ListsOK

\* As long as that is so, who waits, or is still to come, has produced and holds nothing.
LEMMA FreshStep ==
  ASSUME IInv, InLine, Accounted, TurnsOK, Apart, Fresh, [Next]_vars
  PROVE  Fresh'
<1> USE DEF fixed, queues
<1>1. TypeOK /\ LocalsOK /\ reqs \in [Requests -> ReqFields]
  BY DEF IInv, TypeOK
<1>2. Range(waiting) \cup Range(pending) \subseteq Requests
  BY <1>1, RangeFacts
<1>3. \A y \in Requests \ {Touched} : reqs'[y] = reqs[y]
  BY <1>1, OthersSame
<1>4. CASE Arrive
  <2>1. /\ reqs' = reqs /\ pending # <<>> /\ waiting' = Append(waiting, Head(pending)) /\ pending' = Tail(pending)
        /\ pending \in Seq(Requests) /\ waiting \in Seq(Requests)
    BY <1>1, <1>4 DEF Arrive, Due, TypeOK
  <2>2. /\ Head(pending) \in Range(pending) /\ Head(pending) \in Requests
        /\ Range(pending') \subseteq Range(pending)
    BY <2>1, TailDistinct
  <2>3. Range(waiting') = Range(waiting) \cup {Head(pending)}
    BY <2>1, <2>2, AppendDistinct
  <2> QED
    BY <2>1, <2>2, <2>3 DEF Fresh
<1>5. CASE Admit
  <2>1. waiting # <<>> /\ waiting \in Seq(Requests) /\ waiting' = Tail(waiting) /\ pending' = pending /\ pc = "admit"
    BY <1>1, <1>5 DEF Admit, Candidate, TypeOK
  <2>2. /\ Range(waiting') = Range(waiting) \ {Head(waiting)} /\ Head(waiting) \in Range(waiting)
        /\ Touched = Head(waiting)
    BY <2>1, TailDistinct DEF InLine, Touched
  <2> QED
    BY <1>2, <1>3, <2>1, <2>2 DEF Fresh, InLine
<1>6. CASE Requeue
  <2>1. Range(waiting') = {victim} \cup Range(waiting) /\ pending' = pending /\ victim \in Requests /\ Touched = victim
    BY <1>1, <1>6, PushedFirst DEF Requeue, LocalsOK, Touched
  <2>2. reqs'[victim].generated = 0 /\ reqs'[victim].alloc = 0 /\ reqs'[victim].pinned = <<>>
    BY <1>1, <1>6, RequeueCounts DEF Requeue
  <2> QED
    BY <1>2, <1>3, <2>1, <2>2 DEF Fresh
<1>7. ASSUME ~Arrive, ~Admit, ~Requeue PROVE waiting' = waiting /\ Range(pending') \subseteq Range(pending)
  <2>1. CASE ~(FirstToken \/ Finish)
    BY <1>1, <1>7, <2>1, QueuesStay DEF InLine
  <2> QED
    BY <2>1 DEF FirstToken, Finish
<1>8. CASE ReleaseBlock \/ Retired
  <2>1. ~Arrive /\ ~Admit /\ ~Requeue /\ Touched = victim /\ victim \in Requests
    BY <1>8, <1>1, Zenon DEF ReleaseBlock, Retired, Arrive, Admit, Requeue, Touched, LocalsOK
  <2>2. CASE ReleaseBlock
    <3>1. reqs[victim].pinned # <<>>
      BY <2>2 DEF ReleaseBlock
    <3> QED
      BY <1>2, <1>3, <1>7, <2>1, <3>1 DEF Fresh
  <2>3. CASE Retired
    <3>1. /\ reqs'[victim].generated = reqs[victim].generated /\ reqs'[victim].alloc = 0
          /\ reqs'[victim].pinned = reqs[victim].pinned
      BY <1>1, <2>3, RetiredCounts
    <3> QED
      BY <1>2, <1>3, <1>7, <2>1, <3>1 DEF Fresh
  <2> QED
    BY <1>8, <2>2, <2>3
<1>9. CASE \/ Alloc \/ Rematch \/ PrefillChunk \/ PublishBlock \/ PublishDisabled \/ FirstToken
           \/ DecodeToken \/ PublishGen \/ Decoded
  <2>1. Touched = Head(todo) /\ Head(todo) \notin Range(waiting) \cup Range(pending)
    BY <1>9, TurnRuns, SMTT(30)
  <2>2. ~Arrive /\ ~Admit /\ ~Requeue
    BY <1>9, <1>1, Zenon DEF Alloc, Rematch, PrefillTurn, PrefillChunk, PublishBlock, PublishDisabled, FirstToken,
                      DecodeToken, PublishGen, Decoded, Arrive, Admit, Requeue
  <2> QED
    BY <1>2, <1>3, <1>7, <2>1, <2>2 DEF Fresh
<1>10. CASE \/ UNCHANGED vars \/ Over \/ NextRound \/ Return \/ NoneDue \/ IdleJump \/ Stuck \/ AdmitMatch
            \/ AdmitFails \/ Unmatch \/ Refuse \/ NoCandidate \/ BeginStep \/ PlanDecode \/ BeginAlloc
            \/ AllocNone \/ Preempt \/ SelfPreempted \/ Stall \/ BeginPrefill \/ Published \/ Elapse
            \/ BeginDecode \/ BeginFinish \/ Finish \/ EndStep \/ Skip
  <2>1. reqs' = reqs /\ waiting' = waiting /\ pending' = pending
    BY <1>10, Zenon DEF vars, Over, NextRound, Return, NoneDue, IdleJump, Stuck, AdmitMatch, AdmitFails, Unmatch,
                 Refuse, NoCandidate, BeginStep, PlanDecode, BeginAlloc, AllocNone, Preempt, SelfPreempted,
                 Stall, BeginPrefill, Published, Elapse, BeginDecode, BeginFinish, Finish, EndStep, Skip
  <2> QED
    BY <2>1 DEF Fresh
<1> QED
  BY <1>4, <1>5, <1>6, <1>8, <1>9, <1>10 DEF Next

\* What a request that waits is kept apart by holds at the start.
LEMMA InitFresh == Init => Apart /\ Fresh
<1> SUFFICES ASSUME Init PROVE Apart /\ Fresh
  OBVIOUS
<1>1. TypeOK /\ pc = "loop" /\ Loop = "loop" /\ \A r \in Requests : reqs[r] = NewReq
  BY InitIInv DEF IInv, Init, Loop
<1> QED
  BY <1>1, RangeFacts DEF Init, Apart, Fresh, NewReq

\* The one way a request that waits comes to hold something is the preemption of
\* another member of the batch that is being given its blocks, which the loop does not
\* take out of it: without one, preemption is by recompute, from the start.
THEOREM OnlyBatchmatesLinger == Spec /\ [][SparesBatch]_vars => []WaitingIsReset
<1>1. Init => Settled /\ Apart /\ Fresh
  BY InitSettled, InitFresh
<1>2. ASSUME IInv, Settled, Apart, Fresh, [Next]_vars, [SparesBatch]_vars, IInv'
      PROVE  Settled' /\ Apart' /\ Fresh'
  <2>1. SparesBatch
    BY <1>2 DEF vars, SparesBatch, Preempt
  <2> QED
    BY <1>2, <2>1, NextSettled, ApartStep, FreshStep DEF Settled
<1>3. Fresh => WaitingIsReset
  BY DEF Fresh, WaitingIsReset
<1> QED
  BY <1>1, <1>2, <1>3, Invariance, PTL DEF Spec

\* At most one request runs.
Lone == \A x, y \in Range(running) : x = y

\* One that runs alone is the victim of its own preemption.
LEMMA LoneSpares ==
  ASSUME IInv, InLine, Accounted, TurnsOK, Apart, Lone
  PROVE  SparesBatch
<1> SUFFICES ASSUME Preempt PROVE victim' = Head(todo) \/ victim' \notin Range(todo) \cup Range(batch)
  BY DEF SparesBatch
<1>1. TypeOK /\ todo # <<>> /\ pc = "alloc" /\ Loop = "alloc"
  BY DEF IInv, Preempt, Loop
<1>2. Head(todo) \in Range(todo) /\ Head(todo) \in Requests
  BY <1>1, HeadTaken DEF Accounted
<1>3. /\ ~reqs[Head(todo)].finish /\ Head(todo) \notin Range(pending)
      /\ Head(todo) \notin Range(waiting)
  BY <1>1, <1>2 DEF TurnsOK, Accounted, ListsOK, Apart
<1>4. Head(todo) \in Range(running)
  BY <1>2, <1>3 DEF Accounted, DoneOK
<1>5. running # <<>>
  BY <1>1, <1>4, RangeFacts
<1>6. victim' \in Range(running)
  BY <1>5 DEF Preempt, Range
<1> QED
  BY <1>4, <1>6 DEF Lone

\* A batch limit of one admits nobody while somebody runs.
LEMMA LoneStep ==
  ASSUME MaxNumSeqs = 1, TypeOK, InLine, Lone, [Next]_vars
  PROVE  Lone'
<1>1. running \in Seq(Requests) /\ waiting \in Seq(Requests)
  BY DEF TypeOK
<1>2. CASE Admit
  <2>1. /\ waiting # <<>> /\ Len(running) < 1 /\ running' = Append(running, Head(waiting))
    BY <1>2 DEF Admit, Candidate
  <2>2. running = <<>> /\ Head(waiting) \in Requests
    BY <1>1, <2>1, LenProperties, EmptySeq, TailDistinct
  <2>3. Range(running') = Range(running) \cup {Head(waiting)}
    <3> PICK h : h = Head(waiting)
      OBVIOUS
    <3>1. h \in Requests /\ running' = Append(running, h)
      BY <2>1, <2>2
    <3> QED
      BY <1>1, <3>1, AppendDistinct
  <2>4. Range(running) = {}
    BY <2>2, RangeFacts
  <2> QED
    BY <2>3, <2>4 DEF Lone
<1>3. CASE ~Admit
  <2>1. Range(running') \subseteq Range(running)
    <3>1. CASE Requeue \/ FirstToken \/ Finish
      <4>1. running' = running \/ \E x : running' = RemoveFirst(running, x)
        BY <3>1 DEF Requeue, FirstToken, Finish
      <4> QED
        BY <4>1, RemovedFrom
    <3>2. CASE Arrive
      BY <3>2 DEF Arrive
    <3>3. CASE ~(Arrive \/ Requeue \/ FirstToken \/ Finish)
      BY <1>3, <3>3, QueuesStay DEF InLine
    <3> QED
      BY <3>1, <3>2, <3>3
  <2> QED
    BY <2>1 DEF Lone
<1> QED
  BY <1>2, <1>3

\* With a batch limit of one, preemption is always by recompute, from the start, for
\* every trace and pool: a request preempts only itself, and skips the step.
THEOREM AloneIsReset ==
  ASSUME MaxNumSeqs = 1
  PROVE  Spec => []WaitingIsReset
<1>1. Init => Settled /\ Apart /\ Fresh /\ Lone
  <2>1. ASSUME Init PROVE Lone
    <3>1. running = <<>> /\ Range(running) = {}
      BY <2>1, InitIInv, RangeFacts DEF Init, IInv
    <3> QED
      BY <3>1 DEF Lone
  <2> QED
    BY <2>1, InitSettled, InitFresh
<1>2. ASSUME IInv, Settled, Apart, Fresh, Lone, [Next]_vars, IInv'
      PROVE  Settled' /\ Apart' /\ Fresh' /\ Lone'
  <2>1. TypeOK
    BY <1>2 DEF IInv
  <2> QED
    BY <1>2, <2>1, LoneSpares, NextSettled, ApartStep, FreshStep, LoneStep DEF Settled
<1>3. Fresh => WaitingIsReset
  BY DEF Fresh, WaitingIsReset
<1> QED
  BY <1>1, <1>2, <1>3, Invariance, PTL DEF Spec

\* So with a batch limit of one, and prompts that do not end where a block ends, the
\* pool is kept: one pin for every holder, never more blocks than there are, and a
\* block for every token.
THEOREM PoolKeptAlone ==
  ASSUME MaxNumSeqs = 1, NoWholePrompts
  PROVE  Spec => [](PinsAreHolders /\ PoolWithinCapacity /\ TokensHaveBlocks)
<1>1. Spec => []WaitingIsReset
  BY AloneIsReset
<1>2. Spec /\ []WaitingIsReset => []PoolWithinCapacity
  BY PoolHolds
<1>3. Spec /\ []WaitingIsReset => []TokensHaveBlocks
  BY TokensAreHoused
<1> QED
  BY <1>1, <1>2, <1>3, PinsExact, PTL

-----------------------------------------------------------------------------
(* Prompts with room for two tokens in their last block.                   *)

\* A prompt leaves two places or more of its last block free, and does not fill it:
\* the tokens that a request may decode while it waits neither need nor fill a block.
RoomyPrompts ==
  \A tr \in Traces : \A r \in DOMAIN tr : Len(tr[r].words) % BlockSize \in 1..(BlockSize - 2)

\* Who waits, or is still to come, holds nothing, and nobody makes room for one that
\* waits, except for the victim that made it.
Bare ==
  /\ \A r \in Range(waiting) \cup Range(pending) :
       reqs[r].generated <= 1 /\ reqs[r].alloc = 0 /\ reqs[r].pinned = <<>>
  /\ pc \in {"preempt", "retry"} => Head(todo) \notin Range(waiting) \ {victim}

\* One token more fills no block but the one that it completes.
LEMMA SameBlock ==
  ASSUME NEW n \in Nat, n % BlockSize \in 1..(BlockSize - 2)
  PROVE  (n + 1) \div BlockSize = n \div BlockSize
<1>0. BlockSize \in Nat \ {0}
  BY CfgAssumption
<1> DEFINE q == n \div BlockSize
           s == n % BlockSize
<1>1. q \in Nat /\ s \in Nat /\ s + 1 < BlockSize /\ n = BlockSize * q + s
  BY <1>0
<1> HIDE DEF q, s
<1> PICK t : t = BlockSize * q
  OBVIOUS
<1>2. t \in Nat /\ n + 1 = t + (s + 1) /\ n + 1 \in Nat /\ s + 1 \in Nat
  BY <1>0, <1>1
<1>3. (n + 1) \div BlockSize = q
  BY <1>0, <1>1, <1>2, QuotientIs
<1> QED
  BY <1>3 DEF q

\* What a prompt of that kind leaves free, in blocks.
LEMMA RoomyFacts ==
  ASSUME RoomyPrompts, TypeOK, NEW r \in Requests
  PROVE  /\ ~(reqs[r].generated = 0 /\ NeedsBlock(r))
         /\ ~(reqs[r].generated = 1 /\ TotalFull(r) > NumHashes(r))
<1> PICK p : p = PromptLen(r)
  OBVIOUS
<1>1. p \in Nat /\ p % BlockSize \in 1..(BlockSize - 2)
  <2>1. trace \in Traces /\ r \in DOMAIN trace
    BY TraceFacts DEF TypeOK, Requests
  <2> QED
    BY <2>1, TraceFacts DEF RoomyPrompts, PromptLen
<1>2. BlockSize \in Nat \ {0}
  BY CfgAssumption
<1>3. Blocks(p) \in Nat /\ Blocks(p + 1) \in Nat /\ Blocks(p + 1) <= Blocks(p)
  BY <1>1, NextToken, SMTT(30)
<1>4. (p + 1) \div BlockSize = p \div BlockSize
  BY <1>1, SameBlock
<1>5. reqs[r].generated = 0 => ~NeedsBlock(r)
  <2>1. p + 0 = p
    BY <1>1
  <2> QED
    BY <1>3, <2>1 DEF NeedsBlock
<1>6. reqs[r].generated = 1 => TotalFull(r) = NumHashes(r)
  BY <1>4 DEF TotalFull, NumHashes
<1>7. NumHashes(r) \in Nat
  BY TraceFacts
<1> QED
  BY <1>5, <1>6, <1>7

\* The one token of a request that waits fills no block.
LEMMA BareIsQuiet ==
  ASSUME RoomyPrompts, IInv, Accounted, Counted, Bare
  PROVE  HoldNothing /\ WaitQuietly
<1>1. TypeOK
  BY DEF IInv
<1>2. HoldNothing
  BY DEF Bare, HoldNothing
<1>3. WaitQuietly
  <2> PICK r : r = Head(todo)
    OBVIOUS
  <2>1. ASSUME pc = "publish gen", GenBlockLeft(r), r \in Range(waiting) PROVE FALSE
    <3>1. r \in Requests
      BY <1>1, <2>1, RangeFacts, Zenon
    <3>2. reqs[r].generated = 1
      BY <2>1, Zenon DEF Accounted, GhostOK
    <3>3. NumHashes(r) <= reqs[r].genInserted /\ reqs[r].genInserted < TotalFull(r)
      BY <2>1, Zenon DEF Counted, GenBlockLeft
    <3>4. NumHashes(r) \in Nat /\ reqs[r].genInserted \in Nat /\ TotalFull(r) \in Nat
      BY <1>1, <3>1, CountFacts
    <3>5. TotalFull(r) > NumHashes(r)
      <4> PICK n, f, u : n = NumHashes(r) /\ f = reqs[r].genInserted /\ u = TotalFull(r)
        OBVIOUS
      <4> QED
        BY <3>3, <3>4
    <3> QED
      BY <1>1, <3>1, <3>2, <3>5, RoomyFacts
  <2> QED
    BY <2>1, Zenon DEF WaitQuietly
<1> QED
  BY <1>2, <1>3

\* Whose fields are set to more than they were runs, unless a token is decoded.
LEMMA RoomyTurn ==
  ASSUME RoomyPrompts, IInv, InLine, Accounted, TurnsOK, Bare,
         Alloc \/ Rematch \/ PrefillChunk \/ PublishBlock \/ PublishDisabled \/ FirstToken
  PROVE  Touched = Head(todo) /\ Head(todo) \notin Range(waiting) \cup Range(pending)
<1>1. TypeOK /\ LocalsOK
  BY SMTT(30) DEF IInv
<1>2. /\ todo # <<>> /\ pc \in {"alloc", "retry", "prefill", "publish", "first"}
      /\ pc \in {"alloc", "retry"} => Alloc
  BY <1>1, Zenon DEF Alloc, Rematch, PrefillTurn, PrefillChunk, PublishBlock, PublishDisabled, FirstToken, LocalsOK
<1> PICK r : r = Head(todo)
  OBVIOUS
<1>3. r \in Range(todo) /\ r \in Requests
  <2>1. r \in Range(todo)
    BY <1>1, <1>2, HeadTaken, Zenon DEF Accounted
  <2> QED
    BY <1>1, <2>1, RangeFacts
<1>4. r \notin Range(waiting)
  <2>1. CASE pc = "alloc"
    <3>1. NeedsBlock(r) /\ Loop = "alloc"
      BY <1>2, <2>1, Zenon DEF Alloc, Loop
    <3>2. r \in Range(waiting) => reqs[r].generated = 0
      BY <1>3, <2>1, <3>1, Zenon DEF Accounted, GhostOK, Left
    <3> QED
      BY <1>1, <1>3, <3>1, <3>2, RoomyFacts
  <2>2. CASE pc = "retry"
    <3>1. victim # r
      BY <1>2, <2>2, Zenon DEF Alloc
    <3> QED
      BY <2>2, <3>1, SMTT(30) DEF Bare
  <2>3. CASE pc \in {"prefill", "publish"}
    BY <1>3, <2>3, Zenon DEF Loop, TurnsOK, InLine
  <2>4. CASE pc = "first"
    BY <1>3, <2>4 DEF Loop, Left, Accounted, ListsOK, InLine
  <2> QED
    BY <1>2, <2>1, <2>2, <2>3, <2>4, Zenon
<1> QED
  BY <1>2, <1>3, <1>4, Zenon DEF Touched, Accounted, ListsOK

\* A request that waits gets one token at most, and no block.
LEMMA BareStep ==
  ASSUME RoomyPrompts, IInv, InLine, Accounted, TurnsOK, Counted, Bare, [Next]_vars
  PROVE  \A r \in Range(waiting') \cup Range(pending') :
           reqs'[r].generated <= 1 /\ reqs'[r].alloc = 0 /\ reqs'[r].pinned = <<>>
<1> USE DEF fixed, queues
<1>1. TypeOK /\ LocalsOK /\ reqs \in [Requests -> ReqFields]
  BY DEF IInv, TypeOK
<1>2. Range(waiting) \cup Range(pending) \subseteq Requests
  BY <1>1, RangeFacts
<1>3. \A y \in Requests \ {Touched} : reqs'[y] = reqs[y]
  BY <1>1, OthersSame
<1>4. CASE Arrive
  <2>1. /\ reqs' = reqs /\ pending # <<>> /\ waiting' = Append(waiting, Head(pending)) /\ pending' = Tail(pending)
        /\ pending \in Seq(Requests) /\ waiting \in Seq(Requests)
    BY <1>1, <1>4 DEF Arrive, Due, TypeOK
  <2>2. /\ Head(pending) \in Range(pending) /\ Head(pending) \in Requests
        /\ Range(pending') \subseteq Range(pending)
    BY <2>1, TailDistinct
  <2>3. Range(waiting') = Range(waiting) \cup {Head(pending)}
    BY <2>1, <2>2, AppendDistinct
  <2> QED
    BY <2>1, <2>2, <2>3 DEF Bare
<1>5. CASE Admit
  <2>1. waiting # <<>> /\ waiting \in Seq(Requests) /\ waiting' = Tail(waiting) /\ pending' = pending /\ pc = "admit"
    BY <1>1, <1>5 DEF Admit, Candidate, TypeOK
  <2>2. /\ Range(waiting') = Range(waiting) \ {Head(waiting)} /\ Head(waiting) \in Range(waiting)
        /\ Touched = Head(waiting)
    BY <2>1, TailDistinct DEF InLine, Touched
  <2> QED
    BY <1>2, <1>3, <2>1, <2>2 DEF Bare, InLine
<1>6. CASE Requeue
  <2>1. Range(waiting') = {victim} \cup Range(waiting) /\ pending' = pending /\ victim \in Requests /\ Touched = victim
    BY <1>1, <1>6, PushedFirst DEF Requeue, LocalsOK, Touched
  <2>2. reqs'[victim].generated = 0 /\ reqs'[victim].alloc = 0 /\ reqs'[victim].pinned = <<>>
    BY <1>1, <1>6, RequeueCounts DEF Requeue
  <2> QED
    BY <1>2, <1>3, <2>1, <2>2 DEF Bare
<1>7. ASSUME ~Arrive, ~Admit, ~Requeue PROVE waiting' = waiting /\ Range(pending') \subseteq Range(pending)
  <2>1. CASE ~(FirstToken \/ Finish)
    BY <1>1, <1>7, <2>1, QueuesStay DEF InLine
  <2> QED
    BY <2>1 DEF FirstToken, Finish
<1>8. CASE ReleaseBlock \/ Retired
  <2>1. ~Arrive /\ ~Admit /\ ~Requeue /\ Touched = victim /\ victim \in Requests
    BY <1>8, <1>1, Zenon DEF ReleaseBlock, Retired, Arrive, Admit, Requeue, Touched, LocalsOK
  <2>2. CASE ReleaseBlock
    <3>1. reqs[victim].pinned # <<>>
      BY <2>2 DEF ReleaseBlock
    <3> QED
      BY <1>2, <1>3, <1>7, <2>1, <3>1 DEF Bare
  <2>3. CASE Retired
    <3>1. /\ reqs'[victim].generated = reqs[victim].generated /\ reqs'[victim].alloc = 0
          /\ reqs'[victim].pinned = reqs[victim].pinned
      BY <1>1, <2>3, RetiredCounts
    <3> QED
      BY <1>2, <1>3, <1>7, <2>1, <3>1 DEF Bare
  <2> QED
    BY <1>8, <2>2, <2>3
<1>9. CASE Alloc \/ Rematch \/ PrefillChunk \/ PublishBlock \/ PublishDisabled \/ FirstToken
  <2>1. Touched = Head(todo) /\ Head(todo) \notin Range(waiting) \cup Range(pending)
    BY <1>9, RoomyTurn, SMTT(30)
  <2>2. ~Arrive /\ ~Admit /\ ~Requeue
    BY <1>9, <1>1, Zenon DEF Alloc, Rematch, PrefillTurn, PrefillChunk, PublishBlock, PublishDisabled, FirstToken,
                      Arrive, Admit, Requeue
  <2> QED
    BY <1>2, <1>3, <1>7, <2>1, <2>2 DEF Bare
<1>10. CASE DecodeToken \/ PublishGen \/ Decoded
  <2> PICK r : r = Head(todo)
    OBVIOUS
  <2>1. r \in Requests /\ r \in Range(todo) /\ Touched = r
    BY <1>1, <1>10, TurnFacts, Zenon
  <2>2. ~Arrive /\ ~Admit /\ ~Requeue
    BY <1>10, Zenon DEF DecodeToken, PublishGen, Decoded, Arrive, Admit, Requeue
  <2>3. r \notin Range(pending)
    BY <2>1, Zenon DEF Accounted, ListsOK
  <2>4. ASSUME r \in Range(waiting)
        PROVE  reqs'[r].generated <= 1 /\ reqs'[r].alloc = reqs[r].alloc /\ reqs'[r].pinned = reqs[r].pinned
    <3>1. CASE DecodeToken
      <4>1. Loop = "decode" /\ pc = "decode"
        BY <3>1, Zenon DEF DecodeToken, Loop
      <4>2. reqs[r].generated = 0
        BY <2>1, <2>4, <4>1, Zenon DEF Accounted, GhostOK, Left
      <4>3. /\ reqs'[r].generated = reqs[r].generated + 1 /\ reqs'[r].alloc = reqs[r].alloc
            /\ reqs'[r].pinned = reqs[r].pinned
        BY <1>1, <3>1, DecodeTokenCounts
      <4> QED
        BY <4>2, <4>3
    <3>2. CASE PublishGen
      <4>1. pc = "publish gen" /\ GenBlockLeft(r)
        BY <3>2, Zenon DEF PublishGen
      <4>2. WaitQuietly
        BY BareIsQuiet
      <4> QED
        BY <2>4, <4>1, <4>2, Zenon DEF WaitQuietly
    <3>3. CASE Decoded
      <4>1. /\ reqs'[r].generated = reqs[r].generated /\ reqs'[r].alloc = reqs[r].alloc
            /\ reqs'[r].pinned = reqs[r].pinned
        BY <1>1, <3>3, DecodedCounts
      <4> QED
        BY <2>4, <4>1 DEF Bare
    <3> QED
      BY <1>10, <3>1, <3>2, <3>3
  <2> QED
    BY <1>2, <1>3, <1>7, <2>1, <2>2, <2>3, <2>4 DEF Bare
<1>11. CASE \/ UNCHANGED vars \/ Over \/ NextRound \/ Return \/ NoneDue \/ IdleJump \/ Stuck \/ AdmitMatch
            \/ AdmitFails \/ Unmatch \/ Refuse \/ NoCandidate \/ BeginStep \/ PlanDecode \/ BeginAlloc
            \/ AllocNone \/ Preempt \/ SelfPreempted \/ Stall \/ BeginPrefill \/ Published \/ Elapse
            \/ BeginDecode \/ BeginFinish \/ Finish \/ EndStep \/ Skip
  <2>1. reqs' = reqs /\ waiting' = waiting /\ pending' = pending
    BY <1>11, Zenon DEF vars, Over, NextRound, Return, NoneDue, IdleJump, Stuck, AdmitMatch, AdmitFails, Unmatch,
                 Refuse, NoCandidate, BeginStep, PlanDecode, BeginAlloc, AllocNone, Preempt, SelfPreempted,
                 Stall, BeginPrefill, Published, Elapse, BeginDecode, BeginFinish, Finish, EndStep, Skip
  <2> QED
    BY <2>1 DEF Bare
<1> QED
  BY <1>4, <1>5, <1>6, <1>8, <1>9, <1>10, <1>11 DEF Next

\* A block is given to a request that runs, or was preempted for it.
LEMMA RetryStep ==
  ASSUME RoomyPrompts, IInv, Accounted, Bare, [Next]_vars, pc' \in {"preempt", "retry"}
  PROVE  Head(todo') \notin Range(waiting') \ {victim'}
<1>1. TypeOK /\ LocalsOK
  BY SMTT(30) DEF IInv
<1>2. CASE Preempt
  <2> PICK r : r = Head(todo)
    OBVIOUS
  <2>1. /\ pc = "alloc" /\ Loop = "alloc" /\ todo # <<>> /\ NeedsBlock(r)
        /\ todo' = todo /\ waiting' = waiting
    BY <1>2, Zenon DEF Preempt, Loop, queues, step
  <2>2. r \in Range(todo) /\ r \in Requests
    BY <1>1, <2>1, HeadTaken, RangeFacts DEF Accounted
  <2>3. r \in Range(waiting) => reqs[r].generated = 0
    BY <2>1, <2>2, Zenon DEF Accounted, GhostOK, Left
  <2> QED
    BY <1>1, <2>1, <2>2, <2>3, RoomyFacts
<1>3. CASE Requeue
  <2>1. Range(waiting') = {victim} \cup Range(waiting) /\ todo' = todo /\ victim' = victim /\ pc = "preempt"
    BY <1>1, <1>3, PushedFirst DEF Requeue, step, call
  <2> QED
    BY <2>1 DEF Bare
<1>4. CASE ReleaseBlock \/ UNCHANGED vars \/ Over
  <2>1. todo' = todo /\ victim' = victim /\ waiting' = waiting /\ pc' = pc
    BY <1>4, Zenon DEF ReleaseBlock, vars, Over, queues, step, call
  <2> QED
    BY <2>1, Zenon DEF Bare
<1> QED
  BY <1>1, <1>2, <1>3, <1>4, Zenon
     DEF Next, Accounted, ListsOK, NextRound, Return, Arrive, NoneDue, IdleJump, Stuck, AdmitMatch, Admit,
         AdmitFails, Unmatch, Refuse, NoCandidate, BeginStep, PlanDecode, BeginAlloc, AllocNone, Alloc,
         SelfPreempted, Stall, BeginPrefill, Rematch, PrefillTurn, PrefillChunk, PublishBlock,
         PublishDisabled, Published, Elapse, FirstToken, BeginDecode, DecodeToken, PublishGen, Decoded,
         BeginFinish, Finish, EndStep, Skip, Retired

\* Where every prompt leaves room for two tokens in its last block, and does not fill
\* it, the pool is kept for every trace, batch limit and order of preemptions: a request
\* may then decode while it waits, but holds nothing for it.
THEOREM PoolKept ==
  ASSUME RoomyPrompts
  PROVE  Spec => [](PinsAreHolders /\ PoolWithinCapacity /\ TokensHaveBlocks)
<1> DEFINE Kept == Settled /\ RoomOK /\ PoolWithinCapacity /\ PinsAreHolders /\ Bare
<1>1. Init => Kept
  <2>1. Init => Bare
    BY InitFresh, SMTT(30) DEF Fresh, Bare, Init
  <2> QED
    BY <2>1, InitSettled, InitPins
<1>2. NoWholePrompts
  <2>1. \A k \in 1..(BlockSize - 2) : k # 0
    BY CfgAssumption
  <2> QED
    BY <2>1, Zenon DEF RoomyPrompts, NoWholePrompts
<1>3. ASSUME IInv, Kept, [Next]_vars, IInv'
      PROVE  Kept'
  <2>1. HoldNothing /\ WaitQuietly
    BY <1>3, BareIsQuiet DEF Settled
  <2>2. Settled' /\ RoomOK' /\ PoolWithinCapacity'
    BY <1>2, <1>3, <2>1, PoolStep
  <2>3. PinsAreHolders'
    BY <1>3, <2>1, PinsStep
  <2>4. Bare'
    BY <1>3, BareStep, RetryStep DEF Settled, Bare
  <2> QED
    BY <2>2, <2>3, <2>4
<1>4. IInv /\ Kept => PinsAreHolders /\ PoolWithinCapacity /\ TokensHaveBlocks
  BY RoomIsEnough DEF Settled
<1> QED
  BY <1>1, <1>3, <1>4, Invariance, PTL DEF Spec

-----------------------------------------------------------------------------
(* An engine where nobody runs admits whoever fits the pool.               *)

\* Who is still to come has pinned nothing.
NotCome == \A r \in Range(pending) : reqs[r].pinned = <<>>

\* An engine where nobody runs refuses only what does not fit, and when it has nothing to
\* run, nobody waits.
EmptyFits ==
  /\ pc = "unmatch" /\ running = <<>> => Blocks(PromptLen(Head(waiting))) > NumBlocks
  /\ pc = "idle" /\ running = <<>> => waiting = <<>>

\* Nobody pins before it has come.
LEMMA NotComeStep ==
  ASSUME IInv, InLine, Accounted, NotCome, [Next]_vars
  PROVE  NotCome'
<1> USE DEF fixed, queues
<1>1. TypeOK /\ LocalsOK /\ reqs \in [Requests -> ReqFields]
  BY SMTT(30) DEF IInv, TypeOK
<1>2. Range(pending) \subseteq Requests
  BY <1>1, RangeFacts
<1>3. \A y \in Requests \ {Touched} : reqs'[y] = reqs[y]
  BY <1>1, OthersSame
<1>4. Range(pending') \subseteq Range(pending)
  <2>1. CASE Arrive
    <3>1. pending # <<>> /\ pending' = Tail(pending) /\ pending \in Seq(Requests)
      BY <1>1, <2>1 DEF Arrive, Due, TypeOK
    <3> QED
      BY <3>1, TailDistinct
  <2>2. CASE Admit \/ Requeue \/ FirstToken \/ Finish
    BY <2>2 DEF Admit, Requeue, FirstToken, Finish
  <2>3. CASE ~(Arrive \/ Admit \/ Requeue \/ FirstToken \/ Finish)
    BY <1>1, <2>3, QueuesStay DEF InLine
  <2> QED
    BY <2>1, <2>2, <2>3
<1>5. CASE Admit
  <2>1. waiting # <<>> /\ waiting \in Seq(Requests) /\ pc = "admit"
    BY <1>1, <1>5 DEF Admit, Candidate, TypeOK
  <2>2. Head(waiting) \in Range(waiting) /\ Touched = Head(waiting)
    BY <2>1, TailDistinct DEF Touched
  <2> QED
    BY <1>2, <1>3, <1>4, <2>2 DEF NotCome, InLine
<1>6. CASE Requeue \/ Retired
  <2>1. Touched = victim /\ reqs'[victim].pinned = reqs[victim].pinned
    BY <1>1, <1>6, RequeueCounts, RetiredCounts
  <2> QED
    BY <1>2, <1>3, <1>4, <2>1 DEF NotCome
<1>7. CASE ReleaseBlock
  <2>1. Touched = victim /\ reqs[victim].pinned # <<>>
    BY <1>1, <1>7, ReleaseBlockCounts DEF ReleaseBlock
  <2> QED
    BY <1>2, <1>3, <1>4, <2>1 DEF NotCome
<1>8. CASE \/ Alloc \/ Rematch \/ PrefillChunk \/ PublishBlock \/ PublishDisabled \/ FirstToken
           \/ DecodeToken \/ PublishGen \/ Decoded
  <2>1. todo # <<>> /\ pc \notin {"preempt", "retire", "admit"}
    BY <1>1, <1>8, Zenon DEF Alloc, Rematch, PrefillTurn, PrefillChunk, PublishBlock, PublishDisabled, FirstToken,
                      DecodeToken, PublishGen, Decoded, LocalsOK
  <2>2. Touched = Head(todo) /\ Head(todo) \in Range(todo)
    BY <1>1, <2>1, HeadTaken, Zenon DEF Accounted, Touched
  <2>3. Head(todo) \notin Range(pending)
    BY <2>2, Zenon DEF Accounted, ListsOK
  <2> QED
    BY <1>2, <1>3, <1>4, <2>2, <2>3 DEF NotCome
<1>9. CASE \/ UNCHANGED vars \/ Over \/ NextRound \/ Return \/ Arrive \/ NoneDue \/ IdleJump \/ Stuck \/ AdmitMatch
           \/ AdmitFails \/ Unmatch \/ Refuse \/ NoCandidate \/ BeginStep \/ PlanDecode \/ BeginAlloc
           \/ AllocNone \/ Preempt \/ SelfPreempted \/ Stall \/ BeginPrefill \/ Published \/ Elapse
           \/ BeginDecode \/ BeginFinish \/ Finish \/ EndStep \/ Skip
  <2>1. reqs' = reqs
    BY <1>9, Zenon DEF vars, Over, NextRound, Return, Arrive, NoneDue, IdleJump, Stuck, AdmitMatch, AdmitFails, Unmatch,
                 Refuse, NoCandidate, BeginStep, PlanDecode, BeginAlloc, AllocNone, Preempt, SelfPreempted,
                 Stall, BeginPrefill, Published, Elapse, BeginDecode, BeginFinish, Finish, EndStep, Skip
  <2> QED
    BY <1>4, <2>1 DEF NotCome
<1> QED
  BY <1>5, <1>6, <1>7, <1>8, <1>9 DEF Next

\* There are m numbers from 1 to m, and m elements at most in a list of that length.
LEMMA FirstNumbers ==
  ASSUME NEW m \in Nat
  PROVE  IsFiniteSet(1..m) /\ Cardinality(1..m) = m
<1>1. IsFiniteSet(1..m) /\ Cardinality(1..m) = IF 1 > m THEN 0 ELSE m - 1 + 1
  BY FS_Interval
<1> QED
  BY <1>1

LEMMA RangeSize ==
  ASSUME NEW B, NEW s \in Seq(B)
  PROVE  IsFiniteSet(Range(s)) /\ Cardinality(Range(s)) <= Len(s)
<1> PICK n, R, f : n = Len(s) /\ R = Range(s) /\ f = [i \in 1..n |-> s[i]]
  OBVIOUS
<1>1. n \in Nat /\ \A x : x \in R <=> \E i \in 1..n : x = s[i]
  BY RangeIs, LenProperties
<1>2. f \in Surjection(1..n, R)
  BY <1>1 DEF Surjection
<1>3. IsFiniteSet(1..n) /\ Cardinality(1..n) = n
  BY <1>1, FirstNumbers
<1> QED
  BY <1>2, <1>3, FS_Surjection

\* As many blocks leave as are asked for, or all that are cold.
LEMMA EvictSize ==
  ASSUME NEW B, NEW c, CacheOK(c, B), IsFiniteSet(Cached(c)), NEW k \in Nat
  PROVE  \/ Cardinality(Cached(Evict(c, k))) = Cardinality(Cached(c)) - k
         \/ Cached(Evict(c, k)) = Cached(c) \ Range(c.lru)
<1>0. PICK n, s, old, e, gone :
      /\ n = Len(c.lru) /\ s = c.lru /\ old = {i \in DOMAIN c.lru : i <= k} /\ e = Cardinality(old)
      /\ gone = {c.lru[i] : i \in 1..e}
  OBVIOUS
<1>1. /\ s \in Seq(B) /\ IsInjective(s) /\ Range(s) \subseteq Cached(c) /\ n \in Nat
      /\ DOMAIN s = 1..n
  <2>1. s \in Seq(B) /\ IsInjective(s) /\ Range(s) \subseteq Cached(c)
    BY <1>0 DEF CacheOK, LruIsCold
  <2> QED
    BY <1>0, <2>1, LenProperties
<1>2. Cached(Evict(c, k)) = Cached(c) \ gone
  BY <1>0 DEF Evict, Cached
<1>3. /\ \A x : x \in Range(s) <=> \E i \in 1..n : x = s[i]
      /\ \A i, j \in 1..n : s[i] = s[j] => i = j
  BY <1>0, <1>1, RangeIs
<1>4. \A m \in Nat : IsFiniteSet(1..m) /\ Cardinality(1..m) = m
  BY FirstNumbers
<1>7. \A x : x \in gone <=> \E i \in 1..e : x = s[i]
  BY <1>0
<1>5. CASE n <= k
  <2>1. old = 1..n
    BY <1>0, <1>1, <1>5
  <2>2. e = n
    BY <1>0, <1>1, <1>4, <2>1
  <2>3. \A x : x \in gone <=> x \in Range(s)
    BY <1>3, <1>7, <2>2
  <2> QED
    BY <1>0, <1>2, <2>3
<1>6. CASE k < n
  <2>1. old = 1..k /\ \A i \in 1..k : i \in 1..n
    BY <1>0, <1>1, <1>6
  <2>2. e = k
    BY <1>0, <1>4, <2>1
  <2>0. PICK f : f = [i \in 1..k |-> s[i]]
    OBVIOUS
  <2>3. f \in [1..k -> gone] /\ \A x \in gone : \E i \in 1..k : f[i] = x
    BY <1>7, <2>0, <2>2
  <2>4. \A i, j \in 1..k : f[i] = f[j] => i = j
    BY <1>3, <2>0, <2>1
  <2>5. IsFiniteSet(gone) /\ Cardinality(gone) = k
    <3>1. IsFiniteSet(1..k) /\ Cardinality(1..k) = k
      BY <1>4
    <3> QED
      BY <2>3, <2>4, <3>1, ImageSize
  <2>6. Cached(c) \cap gone = gone
    <3>1. gone \subseteq Range(s)
      BY <1>3, <1>7, <2>1, <2>2
    <3> QED
      BY <1>1, <3>1
  <2> QED
    BY <1>2, <2>5, <2>6, FS_Difference
<1> QED
  BY <1>1, <1>5, <1>6

\* While nobody runs, nobody holds a block but the match in progress.
LEMMA NobodyHolds ==
  ASSUME TypeOK, Accounted, GivenBack, HoldNothing, NotCome, running = <<>>, pc = "admit", NEW r \in Requests
  PROVE  reqs[r].pinned = <<>>
<1>1. Range(running) = {}
  BY RangeFacts
<1>2. CASE reqs[r].finish
  BY <1>1, <1>2 DEF GivenBack
<1>3. CASE ~reqs[r].finish
  <2>1. r \in Range(waiting) \cup Range(pending)
    BY <1>1, <1>3, Zenon DEF Accounted, DoneOK
  <2> QED
    BY <2>1 DEF HoldNothing, NotCome
<1> QED
  BY <1>2, <1>3

\* So every other block is cold.
LEMMA RestIsCold ==
  ASSUME IInv, PinsAreHolders, \A r \in Requests : reqs[r].pinned = <<>>
  PROVE  Cached(cache) \ Range(cache.lru) \subseteq Range(matched)
<1>1. TypeOK /\ Requests = 1..Len(trace) /\ Len(trace) \in Nat /\ LruIsCold(cache)
  BY TraceFacts DEF IInv, TypeOK, ColdBlocksListed
<1>2. Range(<<>>) = {}
  BY <1>1, RangeFacts
<1> SUFFICES ASSUME NEW h \in Cached(cache), h \notin Range(matched) PROVE h \in Range(cache.lru)
  OBVIOUS
<1>3. Holders(h) = {}
  <2>1. Pinned(0) = matched /\ \A r \in 0..Len(trace) : r # 0 => Pinned(r) = <<>>
    BY <1>1 DEF Pinned
  <2> QED
    BY <1>2, <2>1, Zenon DEF Holders
<1>4. cache.pins[h] = 0
  BY <1>3, FS_EmptySet DEF PinsAreHolders, Holds
<1> QED
  BY <1>1, <1>4 DEF LruIsCold

\* With nobody running, whoever is turned away needs more blocks than there are.
LEMMA TurnedAway ==
  ASSUME IInv, Counted, PinsAreHolders, running = <<>>, \A r \in Requests : reqs[r].pinned = <<>>, AdmitFails
  PROVE  Blocks(PromptLen(Head(waiting))) > NumBlocks
<1>0. PICK b, m, n, c, k :
      /\ b = Blocks(PromptLen(Head(waiting))) /\ m = Len(matched) /\ n = Need(Head(waiting))
      /\ c = Cardinality(Cached(cache)) /\ k = n - Free(cache)
  OBVIOUS
<1>1. TypeOK /\ CacheOK(cache, Block)
  BY DEF IInv, TypeOK, ColdBlocksListed, CacheOK
<1>2. n = b - m /\ b \in Nat /\ m \in Nat /\ waiting # <<>> /\ ~Reclaims(n)
  <2>1. waiting # <<>> /\ waiting \in Seq(Requests) /\ ~Reclaims(n) /\ matched \in Seq(Block)
    BY <1>0, <1>1 DEF AdmitFails, Candidate, TypeOK
  <2>2. Head(waiting) \in Requests
    BY <2>1, TailDistinct
  <2>3. PromptLen(Head(waiting)) \in Nat
    BY <1>1, <2>2, TraceFacts
  <2> QED
    BY <1>0, <2>1, <2>3, BlockArithmetic, LenProperties DEF Need
<1>3. AllocSum(reqs, Range(running)) = 0
  <2>1. IsFiniteSet({}) /\ Range(running) = {}
    BY <1>1, RangeFacts, FS_EmptySet
  <2>2. PICK g : AllocSum(reqs, {}) = g[{}] /\ Adds(g, [r \in {} |-> reqs[r].alloc], {})
    BY <2>1, AllocAdds
  <2> QED
    BY <2>1, <2>2 DEF Adds
<1>4. c \in Nat /\ NumBlocks \in Nat /\ \A d : Free(d) = NumBlocks - Cardinality(Cached(d)) - 0
  BY <1>0, <1>1, <1>3, FreeIs
<1>5. k \in Int /\ k > 0
  <2>1. Free(cache) = NumBlocks - c
    BY <1>0, <1>4
  <2>2. n \in Int /\ NumBlocks - c \in Int
    BY <1>2, <1>4
  <2>5. k = n - (NumBlocks - c)
    BY <1>0, <2>1, Zenon
  <2>3. Reclaimed(n) = IF k > 0 THEN Evict(cache, k) ELSE cache
    BY <1>0 DEF Reclaimed
  <2>4. Free(cache) >= n => Reclaims(n) \/ k > 0
    BY <2>3, Zenon DEF Reclaims
  <2> QED
    <3>1. k \in Int /\ (NumBlocks - c >= n \/ k > 0)
      BY <2>2, <2>5
    <3> QED
      BY <1>2, <2>1, <2>4, <3>1, Zenon
<1>00. PICK d : d = Evict(cache, k)
  OBVIOUS
<1>6. Free(d) < n /\ Free(d) = NumBlocks - Cardinality(Cached(d)) /\ Cached(d) \subseteq Cached(cache)
  <2>1. Reclaimed(n) = d
    BY <1>0, <1>00, <1>5, Zenon DEF Reclaimed
  <2>4. ~(Free(d) >= n)
    BY <1>2, <2>1, Zenon DEF Reclaims
  <2>5. n \in Int
    BY <1>2
  <2>2. IsFiniteSet(Cached(cache)) /\ Cached(d) \subseteq Cached(cache)
    BY <1>00, <1>1, EvictOK DEF Counted
  <2>3. Cardinality(Cached(d)) \in Nat
    BY <2>2, FS_Subset, FS_CardinalityType
  <2> QED
    BY <1>4, <2>2, <2>3, <2>4, <2>5
<1>7. Cardinality(Cached(d)) # c - k
  <2>1. Free(cache) = NumBlocks - c
    BY <1>0, <1>4
  <2>2. n \in Int
    BY <1>2
  <2>3. k = n - (NumBlocks - c)
    BY <1>0, <2>1, Zenon
  <2>4. NumBlocks - (c - k) = n
    BY <1>4, <2>2, <2>3
  <2>5. Cardinality(Cached(d)) = c - k => Free(d) = n
    BY <1>6, <2>4, Zenon
  <2>6. ~(n < n)
    BY <2>2
  <2> QED
    BY <1>6, <2>5, <2>6, Zenon
<1>8. Cached(d) = Cached(cache) \ Range(cache.lru)
  <2>1. k \in Nat
    BY <1>5
  <2>3. IsFiniteSet(Cached(cache))
    BY Zenon DEF Counted
  <2>2. \/ Cardinality(Cached(d)) = Cardinality(Cached(cache)) - k
        \/ Cached(d) = Cached(cache) \ Range(cache.lru)
    BY <1>00, <1>1, <2>1, <2>3, EvictSize
  <2> QED
    BY <1>0, <1>7, <2>2, Zenon
<1>9. Cardinality(Cached(d)) \in Nat /\ Cardinality(Cached(d)) <= m
  <2>1. Cached(d) \subseteq Range(matched)
    BY <1>8, RestIsCold
  <2>2. IsFiniteSet(Range(matched)) /\ Cardinality(Range(matched)) <= m
    BY <1>0, <1>1, RangeSize DEF TypeOK
  <2> QED
    <3>1. /\ Cardinality(Cached(d)) \in Nat /\ Cardinality(Range(matched)) \in Nat
          /\ Cardinality(Cached(d)) <= Cardinality(Range(matched))
      BY <2>1, <2>2, FS_Subset, FS_CardinalityType
    <3> QED
      BY <1>2, <2>2, <3>1
<1>10. b > NumBlocks
  <2> PICK x, f : x = Cardinality(Cached(d)) /\ f = Free(d)
    OBVIOUS
  <2>1. f < b - m /\ f = NumBlocks - x /\ x \in Nat /\ x <= m /\ m \in Nat /\ b \in Nat /\ NumBlocks \in Nat
    BY <1>2, <1>4, <1>6, <1>9
  <2> QED
    BY <2>1
<1> QED
  BY <1>0, <1>10

\* Who waits while nobody runs has just been given room, or is too large for the pool.
LEMMA EmptyFitsStep ==
  ASSUME IInv, Accounted, Counted, PinsAreHolders, EmptyFits, [Next]_vars,
         running = <<>> /\ pc = "admit" => \A r \in Requests : reqs[r].pinned = <<>>
  PROVE  EmptyFits' /\ (NeverStuck => NeverStuck')
<1> USE DEF fixed, queues
<1>1. TypeOK /\ ListsOK
  BY DEF IInv, Accounted
<1>2. CASE AdmitFails
  <2>1. pc = "admit" /\ pc' = "unmatch" /\ UNCHANGED <<trace, running, waiting>>
    BY <1>2 DEF AdmitFails
  <2>2. running = <<>> => Blocks(PromptLen(Head(waiting))) > NumBlocks
    BY <1>2, <2>1, TurnedAway, Zenon
  <2> QED
    BY <2>1, <2>2 DEF EmptyFits, NeverStuck, Blocks, PromptLen
<1>3. CASE Unmatch \/ UNCHANGED vars \/ Over
  <2>1. pc' = pc /\ UNCHANGED <<trace, running, waiting>>
    BY <1>3, Zenon DEF Unmatch, vars, Over
  <2> QED
    BY <2>1 DEF EmptyFits, NeverStuck, Blocks, PromptLen
<1>4. CASE Refuse
  <2>1. /\ pc = "unmatch" /\ running' = running
        /\ pc' = IF Blocks(PromptLen(Head(waiting))) > NumBlocks /\ running = <<>> THEN "too small" ELSE ret
    BY <1>4 DEF Refuse
  <2>2. ret \in {"idle", "loop"}
    BY <1>1, <2>1 DEF ListsOK
  <2> QED
    BY <2>1, <2>2 DEF EmptyFits, NeverStuck
<1>5. CASE NoCandidate
  <2>1. pc = "admit" /\ pc' = ret /\ ~Candidate /\ running' = running /\ waiting' = waiting
    BY <1>5 DEF NoCandidate
  <2>2. ret \in {"idle", "loop"}
    BY <1>1, <2>1 DEF ListsOK
  <2>3. running = <<>> => waiting = <<>>
    <3>1. Len(<<>>) = 0 /\ 0 < MaxNumSeqs
      BY CfgAssumption
    <3> QED
      BY <2>1, <3>1 DEF Candidate
  <2> QED
    BY <2>1, <2>2, <2>3 DEF EmptyFits, NeverStuck
<1>6. CASE Retired
  <2>1. pc = "retire" /\ pc' = ret
    BY <1>6 DEF Retired
  <2>2. pc' \in {"first", "finish"}
    BY <1>1, <2>1 DEF ListsOK
  <2> QED
    BY <2>2 DEF EmptyFits, NeverStuck
<1>7. CASE Stuck
  BY <1>7 DEF Stuck, EmptyFits
<1>8. CASE ~(AdmitFails \/ Unmatch \/ UNCHANGED vars \/ Over \/ Refuse \/ NoCandidate \/ Retired \/ Stuck)
  <2>1. pc' \notin {"unmatch", "idle", "stuck"}
    BY <1>8, Zenon
       DEF Next, NextRound, Return, Arrive, NoneDue, IdleJump, AdmitMatch, Admit, BeginStep, PlanDecode, BeginAlloc,
           AllocNone, Alloc, Preempt, ReleaseBlock, Requeue, SelfPreempted, Stall, BeginPrefill, Rematch, PrefillTurn,
           PrefillChunk, PublishBlock, PublishDisabled, Published, Elapse, FirstToken, BeginDecode, DecodeToken,
           PublishGen, Decoded, BeginFinish, Finish, EndStep, Skip
  <2> QED
    BY <2>1 DEF EmptyFits, NeverStuck
<1> QED
  BY <1>2, <1>3, <1>4, <1>5, <1>6, <1>7, <1>8

\* Whoever waits, or is still to come, has pinned nothing at the start.
LEMMA InitIdle == Init => GivenBack /\ NotCome /\ EmptyFits /\ NeverStuck
<1> SUFFICES ASSUME Init PROVE GivenBack /\ NotCome /\ EmptyFits /\ NeverStuck
  OBVIOUS
<1>1. TypeOK /\ pc = "loop" /\ \A r \in Requests : reqs[r] = NewReq
  BY InitIInv DEF IInv, Init
<1>2. NotCome
  BY <1>1, RangeFacts DEF NotCome, NewReq
<1> QED
  BY <1>1, <1>2, InitServed DEF Served, EmptyFits, NeverStuck

\* No step breaks any of this, as long as whoever waits holds nothing.
LEMMA IdleStep ==
  ASSUME IInv, Settled, PinsAreHolders, HoldNothing, GivenBack, NotCome, EmptyFits, NeverStuck, [Next]_vars, Settled'
  PROVE  PinsAreHolders' /\ GivenBack' /\ NotCome' /\ EmptyFits' /\ NeverStuck'
<1>1. GivenBack'
  BY GivenBackStep DEF Settled
<1>2. NotCome'
  BY NotComeStep DEF Settled
<1>3. running = <<>> /\ pc = "admit" => \A r \in Requests : reqs[r].pinned = <<>>
  BY NobodyHolds DEF Settled, IInv
<1> QED
  BY <1>1, <1>2, <1>3, PinsStep, EmptyFitsStep DEF Settled

\* simulate() never raises "stuck: waiting but nothing can be admitted" while whoever
\* waits is reset: what an idle engine cannot admit is larger than the pool, which is
\* the other error.
THEOREM ResetIsNeverStuck == Spec /\ []WaitingIsReset => []NeverStuck
<1> DEFINE Idle == Settled /\ PinsAreHolders /\ GivenBack /\ NotCome /\ EmptyFits /\ NeverStuck
<1>1. Init => Idle
  BY InitSettled, InitPins, InitIdle
<1>2. ASSUME IInv, Idle, WaitingIsReset, [Next]_vars, IInv' PROVE Idle'
  <2>1. HoldNothing /\ Settled'
    BY <1>2, ResetIsQuiet, NextSettled DEF Settled
  <2> QED
    BY <1>2, <2>1, IdleStep
<1>3. Idle => NeverStuck
  OBVIOUS
<1> QED
  BY <1>1, <1>2, <1>3, Invariance, PTL DEF Spec

\* So it never raises it with a batch limit of one, for every trace and pool.
THEOREM AloneIsNeverStuck ==
  ASSUME MaxNumSeqs = 1
  PROVE  Spec => []NeverStuck
BY AloneIsReset, ResetIsNeverStuck, PTL

\* Nor where every prompt leaves room for two tokens in its last block, whoever decodes
\* while it waits.
THEOREM RoomyIsNeverStuck ==
  ASSUME RoomyPrompts
  PROVE  Spec => []NeverStuck
<1> DEFINE Idle == Settled /\ PinsAreHolders /\ Bare /\ GivenBack /\ NotCome /\ EmptyFits /\ NeverStuck
<1>1. Init => Idle
  <2>1. Init => Bare
    BY InitFresh, SMTT(30) DEF Fresh, Bare, Init
  <2> QED
    BY <2>1, InitSettled, InitPins, InitIdle
<1>2. ASSUME IInv, Idle, [Next]_vars, IInv' PROVE Idle'
  <2>1. HoldNothing /\ Settled'
    BY <1>2, BareIsQuiet, NextSettled DEF Settled
  <2>2. Bare'
    BY <1>2, BareStep, RetryStep DEF Settled, Bare
  <2> QED
    BY <1>2, <2>1, <2>2, IdleStep
<1>3. Idle => NeverStuck
  OBVIOUS
<1> QED
  BY <1>1, <1>2, <1>3, Invariance, PTL DEF Spec

\* Nor without prefix caching, whatever the prompts are: nothing is pinned.
THEOREM UncachedIsNeverStuck ==
  ASSUME ~PrefixCaching
  PROVE  Spec => []NeverStuck
<1> DEFINE Idle == Settled /\ Cached(cache) = {} /\ EmptyFits /\ NeverStuck
<1>1. Init => Idle
  BY InitSettled, InitIdle DEF Init, Cached, EmptyCache
<1>2. ASSUME IInv, Idle, [Next]_vars, IInv' PROVE Idle'
  <2>1. Settled'
    BY <1>2, NextSettled
  <2>2. Cached(cache') = {}
    <3>1. ~(PublishBlock \/ PublishGen)
      BY Zenon DEF PublishBlock, PublishGen, GenBlockLeft
    <3> QED
      BY <1>2, <3>1, CachedAfter
  <2>3. PinsAreHolders
    BY <1>2 DEF PinsAreHolders
  <2>4. \A r \in Requests : reqs[r].pinned = <<>>
    <3> TAKE r \in Requests
    <3>1. reqs[r].pinned \in Seq(Block) /\ r \in 0..Len(trace) /\ Pinned(r) = reqs[r].pinned
      BY <1>2, TraceFacts, ReqFacts DEF IInv, Pinned
    <3>2. \A h : h \notin Range(reqs[r].pinned)
      BY <1>2, <3>1, Zenon DEF IInv, PinsCoverHolders, Held
    <3> QED
      BY <3>1, <3>2, TailDistinct, Zenon
  <2>5. EmptyFits' /\ NeverStuck'
    BY <1>2, <2>3, <2>4, EmptyFitsStep DEF Settled
  <2> QED
    BY <2>1, <2>2, <2>5 DEF Cached
<1>3. Idle => NeverStuck
  OBVIOUS
<1> QED
  BY <1>1, <1>2, <1>3, Invariance, PTL DEF Spec
=============================================================================
