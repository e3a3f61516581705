---------------------------- MODULE PrefixCache ----------------------------
(***************************************************************************)
(* The refcounted prefix cache of replay_sim/simulator.py (class Cache).   *)
(*                                                                         *)
(* A cache is a record c: c.pins maps every cached block to the number of  *)
(* pins on it, c.lru lists the blocks with no pin, the oldest first.  The  *)
(* operators below are the state changes of the class's methods; a loop    *)
(* over several blocks (match_and_pin, the unpinning of a whole request)   *)
(* is a sequence of steps of the caller, one block each.                   *)
(***************************************************************************)
EXTENDS Integers, Sequences, FiniteSets, SequencesExt

(* __init__: nothing cached. *)
EmptyCache == [pins |-> <<>>, lru |-> <<>>]

(* The blocks that occupy the pool: the keys of self.pins. *)
Cached(c) == DOMAIN c.pins

\* Mutant of Pin: the block stays in the LRU list.
PinStaysCold(c, h) == [c EXCEPT !.pins[h] = @ + 1]

(* One more pin on a cached block, which leaves the LRU list if it was     *)
(* cold: the hit branch of match_and_pin, and pin_existing.                *)
Pin(c, h) ==
  [pins |-> [c.pins EXCEPT ![h] = @ + 1],
   lru  |-> IF c.pins[h] = 0 THEN RemoveFirst(c.lru, h) ELSE c.lru]

(* A freshly computed block enters the cache with its owner's pin.         *)
Publish(c, h) ==
  [pins |-> [b \in Cached(c) \cup {h} |-> IF b = h THEN 1 ELSE c.pins[b]],
   lru  |-> c.lru]

\* Mutants of Unpin: the first release makes the block cold; the last pin stays.
UnpinForAll(c, h) ==
  IF h \notin Cached(c) \/ c.pins[h] = 0 THEN c
  ELSE [pins |-> [c.pins EXCEPT ![h] = 0], lru |-> Append(c.lru, h)]
UnpinButOne(c, h) ==
  IF h \in Cached(c) /\ c.pins[h] > 1 THEN [c EXCEPT !.pins[h] = @ - 1] ELSE c

(* One pin fewer; a block that loses its last pin becomes the newest cold  *)
(* block.  A block that is not cached is ignored.                          *)
Unpin(c, h) ==
  IF h \notin Cached(c) THEN c
  ELSE IF c.pins[h] > 1
       THEN [pins |-> [c.pins EXCEPT ![h] = @ - 1], lru |-> c.lru]
       ELSE [pins |-> [c.pins EXCEPT ![h] = 0], lru |-> Append(c.lru, h)]

(* The k oldest cold blocks, or all of them if there are fewer, leave.     *)
Evict(c, k) ==
  LET e == Cardinality({i \in DOMAIN c.lru : i <= k})
      gone == {c.lru[i] : i \in 1..e}
  IN  [pins |-> [b \in Cached(c) \ gone |-> c.pins[b]],
       lru  |-> SubSeq(c.lru, e + 1, Len(c.lru))]

(* The LRU list is exactly the cold blocks, each once.  This is what lets  *)
(* evict() delete pins[h] for any h it pops.                               *)
LruIsCold(c) ==
  /\ IsInjective(c.lru)
  /\ Range(c.lru) = {h \in Cached(c) : c.pins[h] = 0}
============================================================================
