CONSTANTS
  Members = {m1}
  Addresses = {a1}
  Nobody = Nobody
  Responses = {r1, r2}
  Submits = {t1, t2}
  Saves = {s1}
  Edits = {e1}
  NoTime = NoTime
  Forms <- SomeForms
  Horizon = 1
SPECIFICATION Spec
SYMMETRY Symmetry
INVARIANTS
  OnePerParticipant
  NoneOutdated
PROPERTIES
  StartIsSticky
