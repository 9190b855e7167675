SPECIFICATION Spec
CONSTANTS
  None = None
  Requests = {"r1"}
  Pids = {"p1", "p2"}
  Workers = {"w1", "w2"}
  Agents = {"a1", "a2", "a3"}
  Misfits = {"a3"}
  Ips = {1, 2}
  Pages = {"g1"}
  Ops = {"moves", "late", "scan", "launch", "crash", "reuse", "start", "stop", "status", "restart", "shutdown"}
  MaxOps = 2
INVARIANTS BeatAccounted Reconciled PageTrue
PROPERTY StormEnds
CHECK_DEADLOCK FALSE
