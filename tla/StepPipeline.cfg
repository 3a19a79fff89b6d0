SPECIFICATION Spec
CONSTANTS
  w1 = w1
  w2 = w2
  p1 = p1
  p2 = p2
  Surveys = {s1}
  Texts = {t1, t2}
  Workers = {w1, w2}
  Processes = {p1, p2}
  ProcessOf <- MCProcessOf
  MaxSize = 1
  MaxAttempts = 3
  MaxFaults = 2
SYMMETRY DataSymmetry
INVARIANTS
  Inv
  AnnouncementsAreBounded
  NothingVanishes
