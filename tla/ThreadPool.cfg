CONSTANTS
  Threads = {t1, t2}
  Workers = {w1, w2}
  Waited = {w1}
  Cancelled = {w2}
  NoWorker = NoWorker
SPECIFICATION Spec
CHECK_DEADLOCK FALSE
INVARIANTS TypeOK OneOwner KillWaitRunsQueued
PROPERTIES QueuedIsServed DestroyReturns
