SPECIFICATION Spec
CONSTANTS
  w1 = w1  w2 = w2
  Workers = {w1, w2}
  MaxRetries = 2
  MaxAttempts = 2
  Outcomes = {"delivered", "bounced"}
  MaxLimited = 1
  MaxAccepted = 2
  MaxFaults = 1
INVARIANTS TypeOK StatusIsEarned AbandonedNeedsFault EventsReach
PROPERTIES EmailSettles
CHECK_DEADLOCK FALSE
