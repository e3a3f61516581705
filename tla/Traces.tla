------------------------------- MODULE Traces -------------------------------
(***************************************************************************)
(* Where a trace comes from and how it gets to the two that replay it:     *)
(* workload.py and workload_modes.py generate one; make_burst_trace.py and *)
(* make_trace_M.py build one on the shared prefix of another;              *)
(* scale_trace.py and run9_predict.py change its arrivals; the command     *)
(* line of simulator.py spaces them, and drops the first requests from its *)
(* summary, as bench.py and diagnose.py do.                                *)
(*                                                                         *)
(* A word is named by the place of its draw in the random generator; that  *)
(* two draws may give the same word is left out.  Every other draw is a    *)
(* choice from a small set.                                                *)
(***************************************************************************)
EXTENDS Integers, Sequences, FiniteSets, FiniteSetsExt, SequencesExt, StableSorting

CONSTANTS
  Sessions, Turns,       \* workload: how many of each
  SysLen, UserLen, Growth,
  N,                     \* how many requests the other generators make
  Lens,                  \* prompt (chat) and document (rag) lengths
  TmplLen, QLen,         \* rag
  Sizes,                 \* prompt lengths, in turn (burst, M)
  Outs,                  \* output lengths
  Gaps, Near,            \* from one arrival to the next, outside and inside a burst
  Bursts,                \* sizes of a burst
  Scales, Jitter, Space, \* --div, ms, --dispatch-gap
  DropFirst              \* --drop-first

ASSUME TracesAssumption ==
  /\ {Sessions, Turns, SysLen, N, DropFirst} \subseteq Nat \ {0}
  /\ {UserLen, Growth, TmplLen, QLen, Jitter, Space} \subseteq Nat
  /\ UserLen > 0 /\ Sizes \in Seq(Nat \ {0}) /\ Sizes # <<>>
  /\ Lens \cup Outs \cup Bursts \cup Scales \subseteq Nat \ {0}
  /\ Gaps \cup Near \subseteq Nat

VARIABLES
  prog,      \* the generator at work
  bursty,    \* --bursty
  left,      \* order, what is left of it: <<session, turn>>
  hist,      \* histories
  drawn,     \* words drawn
  clock,     \* t, in half milliseconds
  inBurst,   \* burst_left, in_burst
  prefix,    \* shared: the prefix taken from another trace
  file,      \* the requests made, then the file
  stage,     \* "make", "written", "served"
  change,    \* what was done to the arrivals: "none", "scaled", "jittered"
  gap,       \* the gap the simulator is run with
  replay     \* what the simulator is given: [req_id, at]

making == <<prog, bursty, left, hist, drawn, clock, inBurst, prefix>>
vars   == <<making, file, stage, change, gap, replay>>
-----------------------------------------------------------------------------
(* make_burst_trace has the seed of workload and draws nothing but words,  *)
(* so its words are those of workload again.                               *)
Stream == [workload |-> 0, burst |-> 0, chat |-> 100, rag |-> 100, M |-> 200]
Words(from, n) == [i \in 1 .. n |-> Stream[prog] + from + i]

System   == Words(0, SysLen)
Tools(s) == Words(SysLen + s * (SysLen \div 2), SysLen \div 2)
Template == Words(0, TmplLen)

Rounded(t) == (t + 1) \div 2                  \* round(t, 3)

InBursts == (prog = "workload" /\ bursty) \/ prog = "M"

(* Mutant: inside a burst the clock may go back.                           *)
TickAround ==
  IF InBursts /\ inBurst > 0 THEN {[t |-> clock + d - 2, burst |-> inBurst - 1] : d \in Near}
  ELSE {[t |-> clock + d, burst |-> n - 1] : d \in Gaps, n \in IF InBursts THEN Bursts ELSE {1}}
(* The next arrival: after a gap, which may open a burst, or inside one;   *)
(* all at 0 for make_burst_trace.                                          *)
Tick ==
  IF prog = "burst" THEN {[t |-> 0, burst |-> 0]}
  ELSE IF InBursts /\ inBurst > 0 THEN {[t |-> clock + d, burst |-> inBurst - 1] : d \in Near}
  ELSE {[t |-> clock + d, burst |-> n - 1] : d \in Gaps, n \in IF InBursts THEN Bursts ELSE {1}}

Init ==
  /\ prog \in {"workload", "chat", "rag"}
  /\ bursty \in IF prog = "workload" THEN BOOLEAN ELSE {FALSE}
  /\ left = IF prog = "workload" THEN (0 .. Sessions - 1) \X (0 .. Turns - 1) ELSE {}
  /\ hist = [s \in 0 .. Sessions - 1 |-> <<>>]
  /\ drawn = CASE prog = "workload" -> SysLen + Sessions * (SysLen \div 2)
               [] prog = "rag"      -> TmplLen
               [] OTHER             -> 0
  /\ clock = 0 /\ inBurst = 0 /\ prefix = <<>> /\ file = <<>>
  /\ stage = "make" /\ change = "none" /\ gap = 0 /\ replay = <<>>

Rid == Len(file)

Make(session, turn, prompt, out, at) ==
  /\ file' = Append(file, [req_id |-> Rid, session |-> session, turn |-> turn,
                           at |-> Rounded(at.t), prompt |-> prompt, out |-> out])
  /\ clock' = at.t /\ inBurst' = at.burst

(* Mutant: only the reply enters the history.                              *)
RememberReply(s, user, reply) == hist' = [hist EXCEPT ![s] = @ \o reply]
Remember(s, user, reply) == hist' = [hist EXCEPT ![s] = @ \o user \o reply]

(* workload.gen: shuffled, then sorted by turn, so any of the lowest turn. *)
GenTurn(s, k) ==
  /\ stage = "make" /\ <<s, k>> \in left /\ \A o \in left : k <= o[2]
  /\ \E out \in Outs, at \in Tick :
       LET user  == Words(drawn, UserLen + k * Growth)
           reply == Words(drawn + Len(user), out)
       IN  /\ Make(s, k, System \o Tools(s) \o hist[s] \o user, out, at)
           /\ Remember(s, user, reply)
           /\ drawn' = drawn + Len(user) + out
  /\ left' = left \ {<<s, k>>}
  /\ UNCHANGED <<prog, bursty, prefix, stage, change, gap, replay>>

(* The prompts of the generators whose sessions have one turn: gen_chat,   *)
(* gen_rag, and the prefix, cut or lengthened to the size whose turn it is.*)
Fitted(target) == IF target <= SysLen THEN SubSeq(prefix, 1, target)
                  ELSE prefix \o Words(drawn, target - SysLen)
Known == CASE prog = "chat" -> 0 [] prog = "rag" -> TmplLen [] OTHER -> SysLen
Prompts ==
  CASE prog = "chat" -> {Words(drawn, n) : n \in Lens}
    [] prog = "rag"  -> {Template \o Words(drawn, n + QLen) : n \in Lens}
    [] OTHER         -> {Fitted(Sizes[(Len(file) % Len(Sizes)) + 1])}

GenSingle ==
  /\ stage = "make" /\ prog # "workload" /\ Len(file) < N
  /\ \E prompt \in Prompts, out \in Outs, at \in Tick :
       /\ Make(Rid, 0, prompt, out, at)
       /\ drawn' = drawn + Len(prompt) - Min({Len(prompt), Known})
  /\ UNCHANGED <<prog, bursty, left, hist, prefix, stage, change, gap, replay>>

Write ==
  /\ stage = "make" /\ left = {} /\ (prog # "workload" => Len(file) = N)
  /\ stage' = "written"
  /\ UNCHANGED <<making, file, change, gap, replay>>

(* The head of the first prompt of a workload becomes the prefix.          *)
Lift(p) ==
  /\ stage = "written" /\ prog = "workload" /\ change = "none"
  /\ prog' = p /\ prefix' = SubSeq(file[1].prompt, 1, SysLen)
  /\ bursty' = FALSE /\ drawn' = 0 /\ clock' = 0 /\ inBurst' = 0 /\ file' = <<>>
  /\ hist' = [s \in DOMAIN hist |-> <<>>] /\ stage' = "make"
  /\ UNCHANGED <<left, change, gap, replay>>

(* scale_trace.py.                                                         *)
Scale(div) ==
  /\ stage = "written" /\ change = "none"
  /\ file' = [i \in DOMAIN file |-> [file[i] EXCEPT !.at = Rounded((2 * @) \div div)]]
  /\ change' = "scaled"
  /\ UNCHANGED <<making, stage, gap, replay>>

(* jitter_trace: the requests stay where they are in the file.             *)
Jittered ==
  /\ stage = "written" /\ change = "none"
  /\ \E j \in [DOMAIN file -> {-Jitter, 0, Jitter}] :
       file' = [i \in DOMAIN file |-> [file[i] EXCEPT !.at = Max({0, @ + j[i]})]]
  /\ change' = "jittered"
  /\ UNCHANGED <<making, stage, gap, replay>>
-----------------------------------------------------------------------------
(* simulator.py, main: sorted and spaced, if there is a gap.               *)
(* Mutant: spaced from what the file says of the one before.               *)
SpacedInFile(tr, g) ==
  [i \in DOMAIN tr |-> [tr[i] EXCEPT !.at = IF i = 1 THEN @ ELSE Max({@, tr[i - 1].at + g})]]
Spaced(tr, g) ==
  LET at[i \in DOMAIN tr] == IF i = 1 THEN tr[1].at ELSE Max({tr[i].at, at[i - 1] + g})
  IN  [i \in DOMAIN tr |-> [tr[i] EXCEPT !.at = at[i]]]

Arrivals == [i \in DOMAIN file |-> [req_id |-> file[i].req_id, at |-> file[i].at]]
InOrder  == StableSort(Arrivals, LAMBDA a, b : TupleLess(<<a.at, a.req_id>>, <<b.at, b.req_id>>))

Serve(g) ==
  /\ stage = "written" /\ stage' = "served" /\ gap' = g
  /\ replay' = IF g > 0 THEN Spaced(InOrder, g) ELSE Arrivals
  /\ UNCHANGED <<making, file, change>>

Done == stage = "served" /\ UNCHANGED vars

Next ==
  \/ \E s \in 0 .. Sessions - 1, k \in 0 .. Turns - 1 : GenTurn(s, k)
  \/ GenSingle \/ Write
  \/ \E p \in {"burst", "M"} : Lift(p)
  \/ \E div \in Scales : Scale(div)
  \/ Jittered
  \/ \E g \in {0, Space} : Serve(g)
  \/ Done

Spec == Init /\ [][Next]_vars
-----------------------------------------------------------------------------
(* Both replay in order of arrival, requests of one arrival as they come.  *)
(* simulator.summarize drops the first of that order, bench.run and        *)
(* diagnose.main the lowest req_id.                                        *)
DroppedInSim ==
  {StableSort(replay, LAMBDA a, b : a.at < b.at)[i].req_id : i \in 1 .. Min({DropFirst, Len(replay)})}
Ids == {file[i].req_id : i \in DOMAIN file}
DroppedInBench == {r \in Ids : Cardinality({q \in Ids : q < r}) < DropFirst}

(* Types: requests are numbered from 0, as bench.py and diagnose.py use    *)
(* the numbers, and none is empty.                                         *)
TypeOK ==
  /\ prog \in DOMAIN Stream /\ stage \in {"make", "written", "served"}
  /\ change \in {"none", "scaled", "jittered"} /\ gap \in {0, Space}
  /\ Ids = 0 .. Len(file) - 1
  /\ \A r \in Range(file) : r.at \in Nat /\ r.prompt # <<>> /\ r.out > 0
  /\ prog = "workload" => Cardinality(left) + Len(file) = Sessions * Turns

Common(p, q) == Max({n \in 0 .. Min({Len(p), Len(q)}) : SubSeq(p, 1, n) = SubSeq(q, 1, n)})

(* What two prompts share at their head is what the generator means them   *)
(* to: in workload the whole earlier prompt and its reply within a session *)
(* and the system prompt across sessions; nothing in chat; the template in *)
(* rag; the prefix as far as the shorter has it in the other two.          *)
PrefixesShared ==
  \A i, j \in DOMAIN file : i < j =>
    LET a == file[i]  b == file[j]
    IN  CASE prog = "workload" /\ a.session = b.session ->
                  /\ Common(a.prompt, b.prompt) = Len(a.prompt)
                  /\ a.turn < b.turn /\ Len(a.prompt) + a.out < Len(b.prompt)
          [] prog = "workload" /\ a.session # b.session -> Common(a.prompt, b.prompt) = SysLen
          [] prog = "chat" -> Common(a.prompt, b.prompt) = 0
          [] prog = "rag"  -> Common(a.prompt, b.prompt) = TmplLen
          [] OTHER -> Common(a.prompt, b.prompt) = Min({SysLen, Len(a.prompt), Len(b.prompt)})

(* The two sides leave out the same requests, unless the arrivals were     *)
(* jittered (run9_predict, which never meets bench.py).  And a gap delays  *)
(* a request by what those before it need, and no more: it goes out when   *)
(* it arrives, or as far behind one that had to wait for nothing as there  *)
(* are requests between them (main, summarize, run).                       *)
SameRequestsScored ==
  stage = "served" =>
    /\ change # "jittered" => DroppedInSim = DroppedInBench
    /\ gap > 0 => \A i \in DOMAIN replay :
         replay[i].at = Max({InOrder[k].at + (i - k) * gap : k \in 1 .. i})
=============================================================================
