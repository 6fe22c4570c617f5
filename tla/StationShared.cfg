SPECIFICATION Spec
CONSTANTS
  t1 = t1  t2 = t2  kiosk = kiosk
  Tabs = {t1, t2}
  Front = t1
  Kiosk = kiosk
  Morning = "off"
  PunchTypes = {"in", "out"}
  Skews <- ClocksOff
  MaxPunches = 2
  MaxAttempts = 2
  MaxFaults = 1
INVARIANTS TypeOK SyncedIsRecorded ConfirmedIsKept DayIsLegal QuarantineIsHonest
PROPERTIES OvertakenWasTried QueueDrains
