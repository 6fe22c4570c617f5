SPECIFICATION Spec
CONSTANTS
  morning = morning  midday = midday  evening = evening
  o1 = o1  o2 = o2  e1 = e1  e2 = e2  s1 = s1  s2 = s2
  Openings = {o1, o2}
  Employees = {e1, e2}
  Windows = {morning}
  Overlaps <- MiddayOverlaps
  Places = {1, 2}
  Policies = {"manager_approval", "first_eligible"}
  Sessions = {s1, s2}
  MayEdit = {o1}
  Closing = {o1}
  None = None
SYMMETRY Alike
INVARIANTS PlacesAreCounted FilledHasNoPending OverlapsNeedRaces
CHECK_DEADLOCK FALSE
