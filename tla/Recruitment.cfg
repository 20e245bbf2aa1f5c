SPECIFICATION RecruitmentSpec
CONSTANTS
  Resumes = {r1, r2}
  Runs <- mcRuns
  HrWorkers = {w1, w2}
  TopN = 1
  Stages = {"Applied"}
  MaxQueue = 1
SYMMETRY mcSymmetry
INVARIANTS  EmbeddedIsIndexed
CONSTRAINT mcSmall
CHECK_DEADLOCK FALSE
