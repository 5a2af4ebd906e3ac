SPECIFICATION MCSpec
CONSTANTS
  Clients = {c1, c2}
  Requests = {"fusion", "simv"}
  MaxBumps = 2
SYMMETRY ClientSymmetry
INVARIANTS TypeOK CurrentEntriesExact FreshAnswers
