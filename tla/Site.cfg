SPECIFICATION SiteSpec
CHECK_DEADLOCK FALSE
CONSTANTS
  Files = {f1, f2}
  Saves = {y1, y2}
  Visits = {v1}
  Fetches = {y1, y2}
  Status = {200, 206}
  Creates = {c1, c2, c3}
  LastNumber = 4
  Items = {i1}
  Windows <- WindowsMC
  Tabs = {y1, y2}
  Day = 2
  LastHour = 4
  Guides = {g1, g2, g3}
  GuideSaves = {y1, y2}
  MaxTop = 2
  Addresses = {a1, a2}
  Patterns <- PatternsMC
  Proxies = 2
  Hops = 2
  Production = TRUE
  RuleSlots = {y1, y2}
  LastTick = 2
  NoAddress = NoAddress
  Codes = {c1, c2}
  Links = {y1, y2}
  Urls = {u1, u2}
  Hitters = {h1, h2}
  Draws = 2
  Members = {y1, y2}
  Raters = {a1}
  Spellings = {"p1", "p1x"}
  Canonical <- CanonicalMC
  Submits = {s1, s2, s3}
  Nobody = Nobody
  Views = {y1, y2}
  DedupWindow = 2
  DayLength = 5
  LastMinute = 7
  Visitors = {v1}
  Beacons = {k1}
  Jobs = {y1, y2}
  Retention = 1
  LastDay = 2
  MaxViews <- ViewsADay
  Keys = {y1, y2}
  MaxHits = 2
  Window = 3
  Horizon = 7
SYMMETRY Symmetry
INVARIANTS
  
  TopBarOverfullOnlyByRace
  LinksAreSound
PROPERTIES
  DownloadsAreCounted
  NumbersAreSound
  
  RatingsAreFair
  OneViewAWindow
  ViewsCountedOnce
  LimitHolds
