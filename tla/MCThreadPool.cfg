\* 3 workers and 4 jobs: a worker can come back for a job while another one
\* is woken up for it, and the slot is refilled while all of them are busy.
\* No symmetry, which is unsound for liveness.
CONSTANTS
  Workers = {w1, w2, w3}
  Main    = main
  MaxJobs = 4
SPECIFICATION Spec
INVARIANTS
  TypeOK
  AtMostOnce
  QuitLosesNoJob
PROPERTIES
  SlotNotOverwritten
  WaitCompletes
  EveryJobRuns
  CallsReturn
