SPECIFICATION Spec
CONSTANTS
  Requests = {r1, r2}
  TTL = 2
  Latency = 1
INVARIANTS TypeOK CallsWereAllowed RefusalsWereDenied AnswersDocumented
SYMMETRY Symmetry
