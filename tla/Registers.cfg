SPECIFICATION RegistersSpec
CHECK_DEADLOCK FALSE
CONSTANTS
  Entries = {y1, y2}
  Names = {z1, z2}
  Proposals = {p1}
  Reviewers = {y1, y2}
  Editors = {w1}
  MaxLanded = 2
  Unborn = Unborn
  Gone = Gone
  None = None
  Boards = {b1, b2}
  Posts = {p1, p2, p3}
  Files = {f1, f2}
  CodeIds = {y1, y2}
  Groups = {g1, g2}
  Classes = {k1, k2}
  Segments = {s01}
  MaxLevels = 2
  Savers = {z1, z2}
  Citing = {p1}
  NoRow = NoRow
  Menus = {"m1", "m2", "m3"}
  MenuKind <- KindMC
  MenuSaves = {y1, y2}
  MaxGone = 1
  Top = Top
SYMMETRY Symmetry
INVARIANTS
  
  OutOfPlaceOnlyBySave
  LoopsOnlyByOverlap
  StaleNavIsHarmless
PROPERTIES
  EnactedIsGuarded
  ClassHolds
