SPECIFICATION Spec
CONSTANTS
  s1 = s1
  s2 = s2
  s3 = s3
  anna = anna
  biel = biel
  carla = carla
  dora = dora
  None = None
  Slots = {s1, s2, s3}
  Employees = {anna, biel, carla, dora}
  Asked = {s1, s2}
  Requests = {r1, r2}
  Sessions = {c1, c2}
  FirstOwner <- OneEach
  Overlaps <- MiddleOverlaps
SYMMETRY Interchangeable
INVARIANTS TypeOK OverlapsNeedStaleness
PROPERTIES SlotsComeFromGivers DecidedIsFinal
CHECK_DEADLOCK FALSE
