SPECIFICATION MCFairSpec
CONSTANTS
  Moves = {"m1", "m2"}
  Empties = {"e"}
  Plan <- MCPlan
  Candidates <- MCCandidates
  Items = {1, 2}
  Runs = {r1, r2}
  Absent = Absent
  Single = r1
  MaxChanges = 2
  MaxKills = 1
INVARIANTS PassMeansApproved DeletesApproved
PROPERTY MoveConverges
CHECK_DEADLOCK FALSE
