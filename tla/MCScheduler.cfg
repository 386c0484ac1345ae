CONSTANTS
  OS_MAX_PROCESSES <- MCMaxProcesses
  Task = {t1, t2, t3, t4}
  Proc = {p1, p2, p3, p4, p5}
  NULL = NULL
SPECIFICATION FairSpec
INVARIANTS
  TypeOK ListHoldsTasks RunningIsRegistered OneTaskPerProcess
PROPERTIES OnlySelfTerminates EveryTaskRuns
