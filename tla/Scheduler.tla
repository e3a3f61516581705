----------------------------- MODULE Scheduler -----------------------------
(***************************************************************************)
(* simulate() of replay_sim/simulator.py: the continuous-batching          *)
(* scheduler with its KV block pool and prefix cache.                      *)
(*                                                                         *)
(* simulate() is sequential.  An action here is one iteration of one of    *)
(* its loops or the end of a loop, and pc names the loop.  Two things are  *)
(* open: the trace, chosen in Init, and how far a step of the engine       *)
(* carries the clock t, which stands for every choice of Perf.             *)
(*                                                                         *)
(* A request is named by its place in the trace after the sort by arrival. *)
(* Times are ranks: only their order decides anything.  Counters that only *)
(* feed the report (steps, gpu_busy, blk_hits, preemptions) are left out.  *)
(***************************************************************************)
EXTENDS Integers, Sequences, FiniteSets, PrefixCache

CONSTANTS
  BlockSize, NumBlocks, MaxNumSeqs, MaxBatchedTokens, PrefixCaching,  \* Cfg
  Traces        \* the traces simulate() may be given

VARIABLES
  trace,        \* the requests: arrival, words (the prompt), olen (output_len)
  now,          \* t, as far as it has passed arrivals
  pending,      \* requests that have not arrived
  waiting,      \* requests that wait for admission
  running,      \* requests that hold blocks
  reqs,         \* the fields of each Req
  cache,        \* the prefix cache
  pc,           \* the loop simulate() is in
  ret,          \* where try_admit or release returns to
  todo,         \* what is left of the list the loop at pc runs over
  batch,        \* decoding, then alive, then dec_batch
  budget,       \* tokens left in this step
  matched,      \* blocks pinned for the head of waiting, which is not admitted yet
  victim        \* the request being released, or 0

fixed  == <<trace, now>>
queues == <<pending, waiting, running>>
step   == <<todo, batch, budget>>
call   == <<ret, matched, victim>>
vars   == <<fixed, queues, reqs, cache, pc, step, call>>

-----------------------------------------------------------------------------
Request == [arrival : Nat, words : Seq(Nat), olen : Nat]

ASSUME CfgAssumption ==
  /\ BlockSize \in Nat \ {0}
  /\ NumBlocks \in Nat
  /\ MaxNumSeqs \in Nat \ {0}
  /\ MaxBatchedTokens \in Nat \ {0}
  /\ PrefixCaching \in BOOLEAN

\* A trace is sorted by arrival, as simulate() sorts it, and no prompt is empty.
ASSUME TracesAssumption ==
  \A tr \in Traces :
    /\ tr \in Seq(Request)
    /\ \A r \in DOMAIN tr : tr[r].words # <<>> /\ tr[r].olen > 0
    /\ \A q, r \in DOMAIN tr : q <= r => tr[q].arrival <= tr[r].arrival

Smaller(a, b) == IF a <= b THEN a ELSE b
Larger(a, b)  == IF a >= b THEN a ELSE b

\* Mutant of Returned: no max(0, ...).
Owed(alloc) == alloc - 1

\* A block has moved from the request to the cache: max(0, r.alloc - 1).
Returned(alloc) == Larger(0, alloc - 1)

Requests   == DOMAIN trace
Arrival(r) == trace[r].arrival
PromptLen(r) == Len(trace[r].words)
OutputLen(r) == trace[r].olen

\* hash_chain: the hash of a full block covers the prompt up to its end, so a
\* block is its prompt prefix (no two prefixes collide).
NumHashes(r) == PromptLen(r) \div BlockSize
Hash(r, i)   == [kind |-> "prompt", key |-> SubSeq(trace[r].words, 1, i * BlockSize)]
\* f"g{rid}-{start}": content no other request can match.
GenHash(r, i) == [kind |-> "gen", key |-> <<r, i>>]

Blocks(tokens) == (tokens + BlockSize - 1) \div BlockSize

Free(c) == NumBlocks - Cardinality(Cached(c))
             - MapThenSumSet(LAMBDA r : reqs[r].alloc, Range(running))

\* reclaim(n): evict cold blocks for what is short of n, then say if n are free.
Reclaimed(n) ==
  LET short == n - Free(cache) IN IF short > 0 THEN Evict(cache, short) ELSE cache

\* Mutant of Reclaims: one block short is good enough.
ReclaimsAlmost(n) == Free(Reclaimed(n)) >= n - 1

Reclaims(n)  == Free(Reclaimed(n)) >= n

Prefilled(r) == reqs[r].prefilled >= PromptLen(r)

NewReq == [prefilled |-> 0, generated |-> 0, cached |-> 0, alloc |-> 0,
           inserted |-> 0, genInserted |-> 0, pinned |-> <<>>,
           ttft |-> FALSE, finish |-> FALSE]

Init ==
  /\ trace \in Traces
  /\ now = 0
  /\ pending = [r \in Requests |-> r] /\ waiting = <<>> /\ running = <<>>
  /\ reqs = [r \in Requests |-> NewReq]
  /\ cache = EmptyCache
  /\ pc = "loop" /\ ret = "idle" /\ matched = <<>> /\ victim = 0
  /\ todo = <<>> /\ batch = <<>> /\ budget = 0

-----------------------------------------------------------------------------
(* The head of the main loop: test, arrivals, an idle engine.              *)

AllServed == pending = <<>> /\ waiting = <<>> /\ running = <<>>

NextRound ==
  /\ pc = "loop" /\ ~AllServed
  /\ pc' = "arrive"
  /\ UNCHANGED <<fixed, queues, reqs, cache, step, call>>

Return ==
  /\ pc \in {"loop", "idle"} /\ AllServed
  /\ pc' = "done"
  /\ UNCHANGED <<fixed, queues, reqs, cache, step, call>>

\* Mutant of Due: arrival < t.
DueLate == pending # <<>> /\ Arrival(Head(pending)) < now

Due == pending # <<>> /\ Arrival(Head(pending)) <= now

Arrive ==
  /\ pc = "arrive" /\ Due
  /\ waiting' = Append(waiting, Head(pending))
  /\ pending' = Tail(pending)
  /\ UNCHANGED <<fixed, running, reqs, cache, pc, step, call>>

NoneDue ==
  /\ pc = "arrive" /\ ~Due
  /\ pc' = "admit" /\ ret' = "idle"
  /\ UNCHANGED <<fixed, queues, reqs, cache, step, matched, victim>>

\* Nothing runs: jump to the next arrival.
IdleJump ==
  /\ pc = "idle" /\ running = <<>> /\ pending # <<>>
  /\ now' = Larger(now, Arrival(Head(pending)))
  /\ pc' = "arrive"
  /\ UNCHANGED <<trace, queues, reqs, cache, step, call>>

\* raise RuntimeError("stuck: waiting but nothing can be admitted")
Stuck ==
  /\ pc = "idle" /\ running = <<>> /\ pending = <<>> /\ waiting # <<>>
  /\ pc' = "stuck"
  /\ UNCHANGED <<fixed, queues, reqs, cache, step, call>>

-----------------------------------------------------------------------------
(* try_admit(), which returns to ret.                                      *)

Candidate == waiting # <<>> /\ Len(running) < MaxNumSeqs

\* match_and_pin goes on while the next block of the prompt is cached.
MatchGoesOn ==
  /\ PrefixCaching
  /\ Len(matched) < NumHashes(Head(waiting))
  /\ Hash(Head(waiting), Len(matched) + 1) \in Cached(cache)

AdmitMatch ==
  /\ pc = "admit" /\ Candidate /\ MatchGoesOn
  /\ LET h == Hash(Head(waiting), Len(matched) + 1)
     IN  cache' = Pin(cache, h) /\ matched' = Append(matched, h)
  /\ UNCHANGED <<fixed, queues, reqs, pc, step, ret, victim>>

\* The blocks of the prompt that were not matched.
Need(r) == Blocks(PromptLen(r)) - Len(matched)

Admit ==
  /\ pc = "admit" /\ Candidate /\ ~MatchGoesOn
  /\ LET r     == Head(waiting)
         reuse == Smaller(Len(matched) * BlockSize, PromptLen(r) - 1)
     IN  /\ Reclaims(Need(r))
         /\ cache' = Reclaimed(Need(r))
         /\ reqs' = [reqs EXCEPT ![r].pinned = matched, ![r].alloc = Need(r),
                                 ![r].cached = reuse, ![r].prefilled = reuse,
                                 ![r].inserted = Len(matched)]
         /\ running' = Append(running, r)
  /\ waiting' = Tail(waiting)
  /\ matched' = <<>>
  /\ UNCHANGED <<fixed, pending, pc, step, ret, victim>>

\* Not enough room, although reclaim() has evicted what was cold.
AdmitFails ==
  /\ pc = "admit" /\ Candidate /\ ~MatchGoesOn
  /\ ~Reclaims(Need(Head(waiting)))
  /\ cache' = Reclaimed(Need(Head(waiting)))
  /\ pc' = "unmatch"
  /\ UNCHANGED <<fixed, queues, reqs, step, call>>

\* The match is given back first block first.
Unmatch ==
  /\ pc = "unmatch" /\ matched # <<>>
  /\ cache' = Unpin(cache, Head(matched))
  /\ matched' = Tail(matched)
  /\ UNCHANGED <<fixed, queues, reqs, pc, step, ret, victim>>

\* raise RuntimeError("pool too small for a single request"), or return.
Refuse ==
  /\ pc = "unmatch" /\ matched = <<>>
  /\ pc' = IF Blocks(PromptLen(Head(waiting))) > NumBlocks /\ running = <<>>
           THEN "too small" ELSE ret
  /\ UNCHANGED <<fixed, queues, reqs, cache, step, call>>

NoCandidate ==
  /\ pc = "admit" /\ ~Candidate
  /\ pc' = ret
  /\ UNCHANGED <<fixed, queues, reqs, cache, step, call>>

-----------------------------------------------------------------------------
(* The decode batch of the step, and a block for each sequence that needs  *)
(* one.                                                                    *)

BeginStep ==
  /\ pc = "idle" /\ running # <<>>
  /\ pc' = "plan" /\ todo' = running /\ batch' = <<>> /\ budget' = MaxBatchedTokens
  /\ UNCHANGED <<fixed, queues, reqs, cache, call>>

\* The first requests that have finished their prefill, one token each.
PlanDecode ==
  /\ pc = "plan" /\ todo # <<>> /\ Prefilled(Head(todo)) /\ budget > 0
  /\ batch' = Append(batch, Head(todo)) /\ budget' = budget - 1
  /\ todo' = Tail(todo)
  /\ UNCHANGED <<fixed, queues, reqs, cache, pc, call>>

BeginAlloc ==
  /\ pc = "plan" /\ todo = <<>>
  /\ pc' = "alloc" /\ todo' = batch /\ batch' = <<>>
  /\ UNCHANGED <<fixed, queues, reqs, cache, budget, call>>

\* Mutant of NeedsBlock: the block comes one token late.
NeedsBlockLate(r) ==
  LET tokens == PromptLen(r) + reqs[r].generated
  IN  Blocks(tokens) > Blocks(tokens - 1)

\* The next token is the first of a new block.
NeedsBlock(r) ==
  LET tokens == PromptLen(r) + reqs[r].generated
  IN  Blocks(tokens + 1) > Blocks(tokens)

AllocNone ==
  /\ pc = "alloc" /\ todo # <<>> /\ ~NeedsBlock(Head(todo))
  /\ batch' = Append(batch, Head(todo)) /\ todo' = Tail(todo)
  /\ UNCHANGED <<fixed, queues, reqs, cache, pc, budget, call>>

\* "retry" is the second reclaim(1), after another request was preempted.
Alloc ==
  /\ todo # <<>>
  /\ \/ pc = "alloc" /\ NeedsBlock(Head(todo))
     \/ pc = "retry" /\ victim # Head(todo)
  /\ Reclaims(1)
  /\ cache' = Reclaimed(1)
  /\ reqs' = [reqs EXCEPT ![Head(todo)].alloc = @ + 1]
  /\ batch' = Append(batch, Head(todo)) /\ todo' = Tail(todo)
  /\ pc' = "alloc" /\ victim' = 0
  /\ UNCHANGED <<fixed, queues, budget, ret, matched>>

\* Mutant of IsVictim: the earliest arrival is preempted.
IsEarliest(i) == \A j \in DOMAIN running : Arrival(running[j]) >= Arrival(running[i])

\* preempt_victim: the latest arrival of those running, the first of several;
\* None (0) if nothing runs.
IsVictim(i) ==
  /\ \A j \in DOMAIN running : Arrival(running[j]) <= Arrival(running[i])
  /\ \A j \in 1..(i - 1) : Arrival(running[j]) < Arrival(running[i])

Preempt ==
  /\ pc = "alloc" /\ todo # <<>> /\ NeedsBlock(Head(todo)) /\ ~Reclaims(1)
  /\ cache' = Reclaimed(1)
  /\ victim' \in IF running = <<>> THEN {0}
                ELSE {running[i] : i \in {j \in DOMAIN running : IsVictim(j)}}
  /\ pc' = IF running = <<>> THEN "retry" ELSE "preempt"
  /\ UNCHANGED <<fixed, queues, reqs, step, ret, matched>>

\* release(): the last block of the chain is unpinned first.
ReleaseBlock ==
  /\ pc \in {"preempt", "retire"} /\ reqs[victim].pinned # <<>>
  /\ cache' = Unpin(cache, Last(reqs[victim].pinned))
  /\ reqs' = [reqs EXCEPT ![victim].pinned = Front(@)]
  /\ UNCHANGED <<fixed, queues, pc, step, call>>

\* The victim starts over, at the head of the waiting queue.
Requeue ==
  /\ pc = "preempt" /\ reqs[victim].pinned = <<>>
  /\ reqs' = [reqs EXCEPT ![victim].alloc = 0, ![victim].prefilled = 0,
                          ![victim].generated = 0, ![victim].cached = 0,
                          ![victim].inserted = 0, ![victim].genInserted = 0]
  /\ running' = RemoveFirst(running, victim)
  /\ waiting' = <<victim>> \o waiting
  /\ pc' = "retry"
  /\ UNCHANGED <<fixed, pending, cache, step, call>>

\* The sequence preempted itself.
SelfPreempted ==
  /\ pc = "retry" /\ victim = Head(todo)
  /\ todo' = Tail(todo)
  /\ pc' = "alloc" /\ victim' = 0
  /\ UNCHANGED <<fixed, queues, reqs, cache, batch, budget, ret, matched>>

\* A sequence stalls when the victim's blocks do not give it one either.
Stall ==
  /\ pc = "retry" /\ victim # Head(todo) /\ ~Reclaims(1)
  /\ cache' = Reclaimed(1)
  /\ todo' = Tail(todo)
  /\ pc' = "alloc" /\ victim' = 0
  /\ UNCHANGED <<fixed, queues, reqs, batch, budget, ret, matched>>

-----------------------------------------------------------------------------
(* Chunked prefill, which shares the token budget.                         *)

BeginPrefill ==
  /\ pc = "alloc" /\ todo = <<>>
  /\ pc' = "prefill" /\ todo' = running
  /\ UNCHANGED <<fixed, queues, reqs, cache, batch, budget, call>>

\* Mutant of CanRematch: the last token of the prompt may be reused too.
CanRematchAll(r) ==
  LET f == reqs[r]
      i == f.prefilled \div BlockSize + 1
  IN  /\ PrefixCaching
      /\ f.prefilled % BlockSize = 0 /\ i <= NumHashes(r)
      /\ Hash(r, i) \in Cached(cache) \ Range(f.pinned)

\* v0.8: on a block boundary, a block someone else has published is taken over.
CanRematch(r) ==
  LET f == reqs[r]
      i == f.prefilled \div BlockSize + 1
  IN  /\ PrefixCaching
      /\ f.prefilled % BlockSize = 0 /\ i <= NumHashes(r)
      /\ f.prefilled + BlockSize <= PromptLen(r) - 1
      /\ Hash(r, i) \in Cached(cache) \ Range(f.pinned)

PrefillTurn ==
  pc = "prefill" /\ todo # <<>> /\ budget > 0 /\ ~Prefilled(Head(todo))

Rematch ==
  /\ PrefillTurn /\ CanRematch(Head(todo))
  /\ LET r == Head(todo)
         i == reqs[r].prefilled \div BlockSize + 1
     IN  /\ cache' = Pin(cache, Hash(r, i))
         /\ reqs' = [reqs EXCEPT ![r].pinned = Append(@, Hash(r, i)),
                                 ![r].prefilled = @ + BlockSize,
                                 ![r].cached = @ + BlockSize,
                                 ![r].alloc = Returned(@),
                                 ![r].inserted = Larger(@, i)]
  /\ UNCHANGED <<fixed, queues, pc, step, call>>

PrefillChunk ==
  /\ PrefillTurn /\ ~CanRematch(Head(todo))
  /\ LET r     == Head(todo)
         chunk == Smaller(budget, PromptLen(r) - reqs[r].prefilled)
     IN  /\ reqs' = [reqs EXCEPT ![r].prefilled = @ + chunk]
         /\ budget' = budget - chunk
  /\ pc' = "publish"
  /\ UNCHANGED <<fixed, queues, cache, todo, batch, call>>

\* The next full block of the prompt that is computed and not inserted yet.
ToPublish(r) == reqs[r].inserted < reqs[r].prefilled \div BlockSize

\* The block becomes the cache's, whether it is new there or someone else has
\* published it in the meantime.
PublishBlock ==
  /\ pc = "publish" /\ ToPublish(Head(todo)) /\ PrefixCaching
  /\ LET r == Head(todo)
         h == Hash(r, reqs[r].inserted + 1)
     IN  /\ cache' = IF h \in Cached(cache) THEN Pin(cache, h) ELSE Publish(cache, h)
         /\ reqs' = [reqs EXCEPT ![r].alloc = Returned(@),
                                 ![r].pinned = Append(@, h),
                                 ![r].inserted = @ + 1]
  /\ UNCHANGED <<fixed, queues, pc, step, call>>

PublishDisabled ==
  /\ pc = "publish" /\ ToPublish(Head(todo)) /\ ~PrefixCaching
  /\ reqs' = [reqs EXCEPT ![Head(todo)].inserted = @ + 1]
  /\ UNCHANGED <<fixed, queues, cache, pc, step, call>>

Published ==
  /\ pc = "publish" /\ ~ToPublish(Head(todo))
  /\ pc' = "prefill" /\ todo' = Tail(todo)
  /\ UNCHANGED <<fixed, queues, reqs, cache, batch, budget, call>>

\* The step takes some time: t may pass any number of the arrivals to come.
Elapse ==
  /\ pc = "prefill" /\ (todo = <<>> \/ budget = 0)
  /\ now' \in {now} \cup {Arrival(r) : r \in Range(pending)}
  /\ pc' = "first" /\ todo' = running /\ budget' = 0
  /\ UNCHANGED <<trace, queues, reqs, cache, batch, call>>

-----------------------------------------------------------------------------
(* What the step has produced.                                             *)

\* v0.9: the first token comes with the end of the prefill.
IsFirstToken(r) ==
  Prefilled(r) /\ reqs[r].generated = 0 /\ r \notin Range(batch)

FirstToken ==
  /\ pc = "first" /\ todo # <<>> /\ IsFirstToken(Head(todo))
  /\ LET r    == Head(todo)
         last == OutputLen(r) <= 1
     IN  /\ reqs' = [reqs EXCEPT ![r].ttft = TRUE, ![r].generated = 1,
                                 ![r].finish = @ \/ last]
         /\ IF last
            THEN /\ running' = RemoveFirst(running, r)
                 /\ pc' = "retire" /\ victim' = r /\ ret' = "first"
                 /\ UNCHANGED todo
            ELSE /\ todo' = Tail(todo)
                 /\ UNCHANGED <<running, pc, victim, ret>>
  /\ UNCHANGED <<fixed, pending, waiting, cache, batch, budget, matched>>

BeginDecode ==
  /\ pc = "first" /\ todo = <<>>
  /\ pc' = "decode" /\ todo' = batch
  /\ UNCHANGED <<fixed, queues, reqs, cache, batch, budget, call>>

DecodeToken ==
  /\ pc = "decode" /\ todo # <<>>
  /\ LET r == Head(todo)
     IN  reqs' = [reqs EXCEPT ![r].ttft = @ \/ reqs[r].generated = 0,
                              ![r].generated = @ + 1,
                              ![r].genInserted = IF PrefixCaching
                                THEN Larger(@, NumHashes(r)) ELSE @]
  /\ pc' = "publish gen"
  /\ UNCHANGED <<fixed, queues, cache, step, call>>

\* total_full, the full blocks of prompt and output together.
TotalFull(r) == (PromptLen(r) + reqs[r].generated) \div BlockSize

GenBlockLeft(r) == PrefixCaching /\ reqs[r].genInserted < TotalFull(r)

\* genInserted is the loop's own counter while the loop runs.  A block that is
\* still cached from before a preemption is passed over.
PublishGen ==
  /\ pc = "publish gen" /\ GenBlockLeft(Head(todo))
  /\ LET r == Head(todo)
         h == GenHash(r, reqs[r].genInserted)
     IN  IF h \in Cached(cache)
         THEN /\ reqs' = [reqs EXCEPT ![r].genInserted = @ + 1]
              /\ UNCHANGED cache
         ELSE /\ cache' = Publish(cache, h)
              /\ reqs' = [reqs EXCEPT ![r].alloc = Returned(@),
                                      ![r].pinned = Append(@, h),
                                      ![r].genInserted = @ + 1]
  /\ UNCHANGED <<fixed, queues, pc, step, call>>

\* Mutant of Complete: one token short.
AlmostComplete(r) == reqs[r].generated >= OutputLen(r) - 1

Complete(r) == reqs[r].generated >= OutputLen(r)

Decoded ==
  /\ pc = "publish gen" /\ ~GenBlockLeft(Head(todo))
  /\ LET r == Head(todo)
     IN  reqs' = [reqs EXCEPT ![r].finish = @ \/ Complete(r),
                              ![r].genInserted = IF PrefixCaching
                                THEN TotalFull(r) ELSE @]
  /\ pc' = "decode" /\ todo' = Tail(todo)
  /\ UNCHANGED <<fixed, queues, cache, batch, budget, call>>

\* The finished requests are those of the batch that have all their tokens.
BeginFinish ==
  /\ pc = "decode" /\ todo = <<>>
  /\ pc' = "finish" /\ todo' = batch
  /\ UNCHANGED <<fixed, queues, reqs, cache, batch, budget, call>>

\* Mutant of Finish: without running.remove(r).
FinishStays ==
  /\ pc = "finish" /\ todo # <<>> /\ Complete(Head(todo))
  /\ pc' = "retire" /\ victim' = Head(todo) /\ ret' = "finish"
  /\ UNCHANGED <<fixed, queues, reqs, cache, step, matched>>

Finish ==
  /\ pc = "finish" /\ todo # <<>> /\ Complete(Head(todo))
  /\ running' = RemoveFirst(running, Head(todo))
  /\ pc' = "retire" /\ victim' = Head(todo) /\ ret' = "finish"
  /\ UNCHANGED <<fixed, pending, waiting, reqs, cache, step, matched>>

\* The end of release() for a request that has finished.
Retired ==
  /\ pc = "retire" /\ reqs[victim].pinned = <<>>
  /\ reqs' = [reqs EXCEPT ![victim].alloc = 0]
  /\ pc' = ret /\ todo' = Tail(todo) /\ victim' = 0
  /\ UNCHANGED <<fixed, queues, cache, batch, budget, ret, matched>>

EndStep ==
  /\ pc = "finish" /\ todo = <<>>
  /\ pc' = "admit" /\ ret' = "loop" /\ batch' = <<>>
  /\ UNCHANGED <<fixed, queues, reqs, cache, todo, budget, matched, victim>>

\* A loop has nothing to do for this request.
Skip ==
  /\ todo # <<>>
  /\ \/ pc = "plan"    /\ ~(Prefilled(Head(todo)) /\ budget > 0)
     \/ pc = "prefill" /\ budget > 0 /\ Prefilled(Head(todo))
     \/ pc = "first"   /\ ~IsFirstToken(Head(todo))
     \/ pc = "finish"  /\ ~Complete(Head(todo))
  /\ todo' = Tail(todo)
  /\ UNCHANGED <<fixed, queues, reqs, cache, pc, batch, budget, call>>

\* simulate() has returned or raised.
Over == pc \in {"done", "stuck", "too small"} /\ UNCHANGED vars

Next ==
  \/ NextRound \/ Return \/ Arrive \/ NoneDue \/ IdleJump \/ Stuck
  \/ AdmitMatch \/ Admit \/ AdmitFails \/ Unmatch \/ Refuse \/ NoCandidate
  \/ BeginStep \/ PlanDecode \/ BeginAlloc \/ AllocNone \/ Alloc
  \/ Preempt \/ ReleaseBlock \/ Requeue \/ SelfPreempted \/ Stall
  \/ BeginPrefill \/ Rematch \/ PrefillChunk \/ PublishBlock
  \/ PublishDisabled \/ Published \/ Elapse
  \/ FirstToken \/ BeginDecode \/ DecodeToken \/ PublishGen \/ Decoded
  \/ BeginFinish \/ Finish \/ Retired \/ EndStep \/ Skip \/ Over

Spec == Init /\ [][Next]_vars

\* simulate() keeps running until it returns or raises.
FairSpec == Spec /\ WF_vars(Next)

-----------------------------------------------------------------------------
(* Properties.                                                             *)

Block == [kind : {"prompt", "gen"}, key : Seq(Nat)]

ReqFields ==
  [prefilled : Nat, generated : Nat, cached : Nat, alloc : Nat,
   inserted : Nat, genInserted : Nat, pinned : Seq(Block),
   ttft : BOOLEAN, finish : BOOLEAN]

Label == {"loop", "arrive", "idle", "admit", "unmatch", "plan", "alloc",
          "preempt", "retry", "prefill", "publish", "first", "decode",
          "publish gen", "finish", "retire", "done", "stuck", "too small"}

\* The type invariant: the fields of the requests, the queues and the locals of
\* simulate() keep their types; no counter goes below zero.
TypeOK ==
  /\ trace \in Traces /\ now \in Nat
  /\ pending \in Seq(Requests) /\ waiting \in Seq(Requests)
  /\ running \in Seq(Requests)
  /\ reqs \in [Requests -> ReqFields]
  /\ Cached(cache) \subseteq Block /\ cache.pins \in [Cached(cache) -> Nat]
  /\ cache.lru \in Seq(Block)
  /\ pc \in Label /\ ret \in {"idle", "loop", "first", "finish"}
  /\ todo \in Seq(Requests) /\ batch \in Seq(Requests) /\ budget \in Nat
  /\ matched \in Seq(Block) /\ victim \in Requests \cup {0}

\* Who has pinned block h: the requests that list it and, as 0, the match in
\* progress.
Pinned(r)  == IF r = 0 THEN matched ELSE reqs[r].pinned
Holders(h) == {r \in 0..Len(trace) : h \in Range(Pinned(r))}
Holds(h)   == Cardinality(Holders(h))
Held       == UNION {Range(Pinned(r)) : r \in 0..Len(trace)}

\* A block that a request relies on is never evicted under it: it stays cached,
\* with at least one pin for every holder (match_and_pin, publish, pin_existing,
\* unpin and evict between them, whatever the interleaving of requests).
PinsCoverHolders ==
  \A h \in Held : h \in Cached(cache) /\ Holds(h) <= cache.pins[h]

\* evict() pops only blocks nobody has pinned, and finds every one of those: the
\* LRU list is exactly the blocks with no pin, each once.
ColdBlocksListed == LruIsCold(cache)

\* The locals of simulate() are set where they are used, and try_admit holds the
\* first blocks of the head of the queue.
LocalsOK ==
  /\ pc \notin {"admit", "unmatch"} => matched = <<>>
  /\ pc \in {"preempt", "retire"} => victim \in Requests
  /\ pc \in {"preempt", "retry", "retire", "publish", "publish gen"} => todo # <<>>
  /\ pc = "admit" /\ matched # <<>> =>
       /\ Candidate /\ Len(matched) <= NumHashes(Head(waiting))
       /\ \A i \in 1..Len(matched) : matched[i] = Hash(Head(waiting), i)

\* Nobody holds a block twice, and a request holds no prompt block that it has
\* not counted as inserted, so it never pins one again.
HeldOnce ==
  /\ \A r \in 0..Len(trace) : IsInjective(Pinned(r))
  /\ \A r \in Requests : \A i \in 1..NumHashes(r) :
       Hash(r, i) \in Range(reqs[r].pinned) => i <= reqs[r].inserted

PrefillBounded == \A r \in Requests : reqs[r].prefilled <= PromptLen(r)

\* The inductive invariant behind PinsCoverHolders and ColdBlocksListed: what
\* every loop of simulate() relies on when it pins, publishes, unpins or evicts.
IInv ==
  /\ TypeOK /\ LocalsOK /\ PrefillBounded
  /\ HeldOnce /\ ColdBlocksListed /\ PinsCoverHolders

Queue == running \o waiting \o pending

\* First come, first served, through admissions, preemptions and re-admissions:
\* running, then waiting, then pending is in order of arrival, so no request is
\* ever served while an earlier one waits.
ArrivalOrder ==
  \A i, j \in DOMAIN Queue : i < j => Arrival(Queue[i]) <= Arrival(Queue[j])

\* No request is lost or served twice: it is in one place of one queue until it
\* has finished, and in none after its release.
EachInOnePlace ==
  /\ IsInjective(Queue)
  /\ \A r \in Requests :
       /\ ~reqs[r].finish => r \in Range(Queue)
       /\ reqs[r].finish => r \notin Range(waiting \o pending)
       /\ reqs[r].finish /\ pc \in {"loop", "arrive", "idle"} => r \notin Range(running)

\* A prompt block that a running request has skipped or computed is one it holds
\* in the cache, so neither eviction nor another request's release can take its
\* prefix away; at least one prompt token is always computed.
PrefixHeld ==
  \A r \in Range(running) \ {victim} :
    /\ PrefixCaching =>
         \A i \in 1..reqs[r].inserted : Hash(r, i) \in Range(reqs[r].pinned)
    /\ ToPublish(r) => pc = "publish" /\ r = Head(todo)
    /\ reqs[r].cached <= reqs[r].prefilled /\ reqs[r].cached < PromptLen(r)
    /\ reqs[r].prefilled <= PromptLen(r)

\* When simulate() returns, every request has been given exactly its output, has
\* a first-token time, and holds no block.
ServedInFull ==
  pc = "done" => \A r \in Requests :
    /\ reqs[r].finish /\ reqs[r].ttft
    /\ reqs[r].generated = OutputLen(r)
    /\ reqs[r].pinned = <<>> /\ reqs[r].alloc = 0

\* "One hash = one block", refcounted: a cached block has a pin per holder and
\* no other, so every block goes cold when its last holder releases it.
PinsAreHolders == \A h \in Cached(cache) : cache.pins[h] = Holds(h)

\* Cached blocks and the blocks requests own never exceed the pool.
PoolWithinCapacity == Free(cache) >= 0

\* A running request owns or shares a block for every token it holds.
TokensHaveBlocks ==
  \A r \in Range(running) \ {victim} :
    Blocks(reqs[r].prefilled + reqs[r].generated)
      <= reqs[r].alloc + Len(reqs[r].pinned)

\* A request that waits holds nothing and has produced nothing: preemption is by
\* recompute, from the start.
WaitingIsReset ==
  \A r \in Range(waiting) :
    /\ reqs[r].generated = 0 /\ reqs[r].alloc = 0 /\ reqs[r].pinned = <<>>

\* While a block of a prompt is cached, the blocks before it are: what is left
\* of a prefix after an eviction can still be matched.
ChainsAreRooted ==
  \A h \in Cached(cache) : h.kind = "prompt" =>
    \A n \in 1..(Len(h.key) \div BlockSize) :
      [h EXCEPT !.key = SubSeq(h.key, 1, n * BlockSize)] \in Cached(cache)

\* simulate() never gets to "stuck: waiting but nothing can be admitted".
NeverStuck == pc # "stuck"

\* simulate() ends: it returns, or it raises one of its two errors.
Ends == <>(pc \in {"done", "stuck", "too small"})

\* simulate() returns.
Returns == <>(pc = "done")
============================================================================
