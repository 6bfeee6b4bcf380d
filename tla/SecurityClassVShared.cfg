CONSTANTS
  Boards = {b1, b2}
  Posts = {p1, p2}
  Files = {f1}
SPECIFICATION Spec
INVARIANTS
  NoSharedReference
