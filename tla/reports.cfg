SPECIFICATION Spec
CONSTANTS
  Latency = {"e2e_p95_s"}
  Cost = {"throughput_tok_s"}
  Studies <- MCStudies
  DropFirst = 1
  Moved = 0
  MinDrift = 2
INVARIANTS VerdictsAgree BandsNest ModesAreApart UsableIsEarned
