SPECIFICATION FairSpec
CONSTANTS
  cron = cron job1 = job1 job2 = job2 pod1 = pod1 pod2 = pod2 pod3 = pod3
  service = service node = node
  Tasks <- MCTasks
  Calls = {cron, service}
  CallOf <- MCCallOf
  Children <- MCChildren
  Keys = {node}
  Reads <- MCReads
  MaxConcurrent = 1
  MaxVersion = 1
  None = None
INVARIANTS
  FanoutTypeOK
  FanoutsBounded
  JoinedBeforeReading
  EndNotKept
  AnswersOfThisCall
PROPERTIES
  CallsEnd
CHECK_DEADLOCK FALSE
