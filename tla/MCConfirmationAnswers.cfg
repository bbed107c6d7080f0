SPECIFICATION AnswersSpec
CONSTANTS
  t1 = t1 t2 = t2 c1 = c1 u1 = u1 scale = scale web = web a1 = a1
  Tokens = {t1, t2}
  Actions = {scale}
  Objects = {web}
  Contexts = {c1}
  UIDs = {u1}
  NoUID = NoUID
  Args = {a1}
  Requests <- MCRequests
  Absent = Absent
  ConfigTTL = 1
  DefaultTTL = 2
  Drift = 1
  MaxTime = 3
  MaxEpoch = 1
PROPERTY ExpiredAnsweredExpired
CHECK_DEADLOCK FALSE
