CONSTANTS
  Visitors = {v1}
  Beacons = {k1}
  Jobs = {j1}
  Retention = 1
  LastDay = 2
  MaxViews <- Views
SPECIFICATION TrafficSpec
PROPERTIES
  PermanentRecord
