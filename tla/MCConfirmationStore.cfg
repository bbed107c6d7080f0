SPECIFICATION StoreSpec
SYMMETRY TokenSymmetry
CONSTANTS
  t1 = t1 t2 = t2 c1 = c1 c2 = c2 u1 = u1 u2 = u2
  scale = scale web = web a1 = a1
  Tokens = {t1, t2}
  Actions = {scale}
  Objects = {web}
  Contexts = {c1, c2}
  UIDs = {u1, u2}
  NoUID = NoUID
  Args = {a1}
  Requests <- MCRequests
  Absent = Absent
  ConfigTTL = 0
  DefaultTTL = 1
  Drift = 1
  MaxTime = 3
  MaxEpoch = 1
INVARIANTS
  StoreTypeOK
  SingleUse
  RedeemedAsPlanned
  Timely
  EntriesGenuine
  LiveOfferKept
  NothingStaleKept
PROPERTIES
  OnlySpentOrLapsedLeaves
  ImplementsOneShotGrant
CHECK_DEADLOCK FALSE
