SPECIFICATION Spec
CONSTANTS
  t1 = t1  t2 = t2  kiosk = kiosk
  Tabs = {t1}
  Front = t1
  Kiosk = kiosk
  Morning = "off"
  PunchTypes = {"in", "out"}
  Skews <- ClockRight
  MaxPunches = 1
  MaxAttempts = 2
  MaxFaults = 1
PROPERTIES DisabledIsQuarantined
