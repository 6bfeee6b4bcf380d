CONSTANTS
  Boards = {b1, b2}
  Posts = {p1, p2}
  Files = {f1}
  Txs = {t1, t2}
SPECIFICATION Spec
SYMMETRY Symmetry
INVARIANTS
  UndisturbedIsRight

  
