SPECIFICATION Spec
CHECK_DEADLOCK FALSE
CONSTANTS
  MenuIds = {y1, y2}
  Content = content
  Privacy = privacy
  Keys = {content, privacy}
  Sites = {s1, s2}
  Requests = {q1}
  UnbornMenu = UnbornMenu
  GoneMenu = GoneMenu
  NoMenu = NoMenu
  Tenants = {1, 2}
  Tags = {t1, t2}
  MaxRows = 3
  PageSize = 1
  FileSize = 2
  All = All
  Odd = Odd
  NoSite = NoSite
  NotFound = NotFound
  Absent = Absent
  Ops = {y1, y2}
  Admins = {u1, u2}
  Docs = {d1}
  Author <- AuthorMC
  Pool = 4
  NoActor = NoActor
  Words = {"a", "b"}
  Fields = {"title", "team", "department"}
  Searchable = {"title", "department"}
  TextColumns = {"title", "team"}
  ListCount = 1
  PageCount = 2
  Queries <- QueriesMC
  LastPost = 3
  QuestionIds = {1, 2, 3}
  Orders = {1, 2, 3}
  OptionValues = {"a", "b"}
  Drafts <- DraftsMC
  Filled <- FilledMC
  Slots = {y1, y2}
  Visibilities = {"afterClose", "duringAndAfter"}
  NoJump = NoJump
  NoQuestion = NoQuestion
SYMMETRY Symmetry
INVARIANTS
  
  
  LinkAnswersAlike
  StuckOnlyByDeletion
  
  
PROPERTIES
  AnswersAreLive
  TrailIsKept
