--------------------------- MODULE StableSorting ---------------------------
(* Python's sorted() and list.sort(): elements that do not differ in the   *)
(* key stay in their order.  Less compares keys.                           *)
EXTENDS Integers, Sequences, FiniteSets

\* A set P of places of seq, sorted by what seq holds there.
StablePlaces(P, seq, Less(_, _)) ==
  LET Before(i, j) == Less(seq[i], seq[j]) \/ (~Less(seq[j], seq[i]) /\ i < j)
      Rank(i)      == Cardinality({j \in P : Before(j, i)}) + 1
  IN  [p \in 1 .. Cardinality(P) |-> CHOOSE i \in P : Rank(i) = p]

StableSort(seq, Less(_, _)) ==
  LET at == StablePlaces(DOMAIN seq, seq, Less)
  IN  [p \in DOMAIN seq |-> seq[at[p]]]

(* Tuples compared from the left, as keys that are Python tuples are.      *)
TupleLess(s, t) ==
  \E i \in DOMAIN s : s[i] < t[i] /\ \A j \in 1 .. i - 1 : s[j] = t[j]
=============================================================================
