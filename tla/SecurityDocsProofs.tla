------------------------ MODULE SecurityDocsProofs ------------------------
(***************************************************************************)
(* Proofs about SecurityDocs, for any boards, posts, attachments and       *)
(* number of transactions.  What a transaction may rely on is stated of    *)
(* its record r over committed boards bs, posts ps and flags fl; it holds  *)
(* until another transaction commits.                                      *)
(***************************************************************************)
EXTENDS SecurityDocs, TLAPS

\* Files of security-document posts.
Sec(ps) == Class!SecureFiles(ps)

\* What the transaction sees (SeenPost, SeenFlags).
Seen(r, ps) == [p \in Posts |-> IF p \in r.wrote THEN r.row[p] ELSE ps[p]]
Flags(r, fl) == (fl \cup r.raise) \ r.clear

\* The posts of the board a transaction saves (Children).
ChildrenOf(r, ps) == {p \in Posts : ps[p].live /\ ps[p].board = r.board}

\* The row a transaction writes for p (NewRow), and the transaction once it has.
RowOf(r, ps, p) == IF r.kind = "board" THEN [ps[p] EXCEPT !.sec = r.cls] ELSE r.row[p]
Written(r, ps, p) ==
  [r EXCEPT !.stage[p] = "scan", !.row[p] = RowOf(r, ps, p), !.wrote = r.wrote \cup {p}]

\* The transaction after it scanned the posts for p (ScanPosts), and after it
\* synced the flags of the files p refers to (SyncFlags).
AfterScan(r, ps, p) ==
  [r EXCEPT !.stage[p] = IF r.row[p].refs = {} THEN "none" ELSE "flags",
            !.secure[p] = Sec(Seen(r, ps))]
Up(r, fl, p) == (r.row[p].refs \cap r.secure[p]) \ Flags(r, fl)
Down(r, fl, p) == (r.row[p].refs \ r.secure[p]) \cap Flags(r, fl)
AfterSync(r, fl, p) ==
  [r EXCEPT !.stage[p] = "none", !.secure[p] = {},
            !.raise = (r.raise \cup Up(r, fl, p)) \ Down(r, fl, p),
            !.clear = (r.clear \cup Down(r, fl, p)) \ Up(r, fl, p)]

\* The boards after its commit (Commit).
BoardsAfter(r, bs) == [bs EXCEPT ![r.board] = IF r.kind = "board" THEN r.cls ELSE bs[r.board]]

-----------------------------------------------------------------------------
(* The shape of a transaction, whatever else commits *)

\* Posts are written before they are scanned.
WrittenFirst(r) ==
  \A p \in Posts : IF p \in r.wrote THEN r.stage[p] # "write" ELSE r.stage[p] \in {"none", "write"}

\* Only flags of files of written posts are changed.
OnlyOwnFlags(r) == \A f \in r.raise \cup r.clear : \E p \in r.wrote : f \in r.row[p].refs

\* The save of a post is about that post alone.
Saves(r, p) ==
  /\ r.row[p].live /\ r.row[p].board = r.board /\ r.row[p].sec = r.cls
  /\ p \in r.wrote \/ r.stage[p] = "write"
  /\ r.pc = "check" => p \notin r.wrote
  /\ \A q \in Posts \ {p} : r.stage[q] = "none" /\ q \notin r.wrote /\ r.row[q].refs = {}

SaveShape(r) == r.pc \in {"check", "posts"} /\ \E p \in Posts : Saves(r, p)

\* The save of a board writes posts last.
BoardShape(r) ==
  /\ r.pc \in {"board", "find", "posts"}
  /\ r.pc \in {"board", "find"} => r.wrote = {} /\ \A p \in Posts : r.stage[p] = "none"

Shape(r) ==
  IF r.pc = "idle" THEN r = NoTx
  ELSE /\ WrittenFirst(r) /\ OnlyOwnFlags(r)
       /\ IF r.kind = "board" THEN BoardShape(r) ELSE SaveShape(r)

-----------------------------------------------------------------------------
(* What a transaction that is not overtaken has right *)

\* The class a post was given is that of its board, and its references were allowed.
SaveRight(r, bs, fl) ==
  /\ r.cls = bs[r.board]
  /\ r.pc = "posts" => r.cls \/ \A p \in Posts : r.row[p].refs \cap fl = {}

\* A board that changes its class takes along exactly its posts.
BoardRight(r, bs, ps) ==
  /\ r.prev = bs[r.board]
  /\ r.pc = "find" => r.cls # r.prev
  /\ r.pc = "posts" /\ r.cls = r.prev => r.wrote = {} /\ \A p \in Posts : r.stage[p] = "none"
  /\ r.pc = "posts" /\ r.cls # r.prev =>
       \A p \in Posts : p \in ChildrenOf(r, ps) <=> p \in r.wrote \/ r.stage[p] = "write"
  /\ \A p \in r.wrote : r.row[p] = [ps[p] EXCEPT !.sec = r.cls]

\* Where a scan is older than another write of the transaction, it has missed no
\* file that matters, and what it has too much was secure before.
ScansRight(r, ps) ==
  \A p \in Posts : r.stage[p] = "flags" =>
    /\ r.row[p].refs \cap Sec(Seen(r, ps)) \subseteq r.secure[p]
    /\ r.secure[p] \subseteq Sec(Seen(r, ps)) \cup (IF r.kind = "board" THEN Sec(ps) ELSE {})

\* Flags of synced files are up where they must be, and after a save only there.
FlagsRight(r, ps, fl) ==
  /\ r.clear \cap Sec(Seen(r, ps)) = {}
  /\ r.raise \subseteq Sec(Seen(r, ps)) \cup Sec(ps)
  /\ \A p \in r.wrote : r.stage[p] = "none" =>
       /\ r.row[p].refs \cap Sec(Seen(r, ps)) \subseteq Flags(r, fl)
       /\ r.kind # "board" => r.row[p].refs \cap Flags(r, fl) \subseteq Sec(Seen(r, ps))

Right(r, bs, ps, fl) ==
  /\ IF r.kind = "board" THEN BoardRight(r, bs, ps) ELSE SaveRight(r, bs, fl)
  /\ ScansRight(r, ps) /\ FlagsRight(r, ps, fl)

TxInv ==
  \A t \in Txs :
    /\ Shape(tx[t])
    /\ tx[t].pc # "idle" /\ ~tx[t].overtaken => Right(tx[t], boardSec, post, flagged)

DocsInv == TypeOK /\ TxInv /\ UndisturbedPostsFollowBoard /\ UndisturbedFilesFlagged

-----------------------------------------------------------------------------
(* What each step of a transaction does to its record *)

\* The empty transaction and the empty row have their types.
LEMMA NoTxIsTx == NoTx \in Tx /\ NoPost \in PostRow
<1>1. NoPost \in PostRow
  BY BoardsAssumption DEF NoPost, PostRow, Class!NoPost, Class!PostRow
<1>2. \E b \in Boards : TRUE
  BY BoardsAssumption
<1> QED
  BY <1>1, <1>2 DEF NoTx, Tx, TxPc, Kind, Stage

\* What it means for a file to belong to a security-document post (SecureFiles).
LEMMA SecIs ==
  ASSUME NEW ps, NEW f
  PROVE  f \in Sec(ps) <=> f \in Files /\ \E p \in Posts : ps[p].sec /\ f \in ps[p].refs
BY DEF Sec, Class!SecureFiles

\* A save that has just read its board is right: it took the class it read
\* (SaveBegin).
LEMMA BeginSave ==
  ASSUME NEW p \in Posts, NEW b \in Boards, NEW refs \in SUBSET Files, NEW bs \in [Boards -> BOOLEAN],
         NEW kind \in {"create", "update"}, NEW ps, NEW fl,
         NEW s, s = [NoTx EXCEPT
          !.pc = "check", !.kind = kind,
          !.board = b, !.cls = bs[b], !.stage[p] = "write",
          !.row[p] = [live |-> TRUE, board |-> b, sec |-> bs[b],
                      refs |-> refs]]
  PROVE  s \in Tx /\ Shape(s) /\ Right(s, bs, ps, fl)
<1> DEFINE row == [live |-> TRUE, board |-> b, sec |-> bs[b], refs |-> refs]
<1>1. row \in PostRow
  BY DEF PostRow, Class!PostRow
<1>2. /\ s.pc = "check" /\ s.kind = kind /\ s.board = b /\ s.cls = bs[b] /\ s.prev = FALSE
      /\ s.stage = [NoTx.stage EXCEPT ![p] = "write"]
      /\ s.row = [NoTx.row EXCEPT ![p] = row]
      /\ s.secure = NoTx.secure /\ s.wrote = {} /\ s.raise = {} /\ s.clear = {} /\ s.overtaken = FALSE
  BY DEF NoTx
<1>3. s = [pc |-> s.pc, kind |-> s.kind, board |-> s.board, cls |-> s.cls, prev |-> s.prev, stage |-> s.stage, secure |-> s.secure, row |-> s.row,
  wrote |-> s.wrote, raise |-> s.raise, clear |-> s.clear, overtaken |-> s.overtaken]
  BY DEF NoTx
<1> HIDE DEF row
<1>4. s.stage \in [Posts -> Stage] /\ s.row \in [Posts -> PostRow]
  <2>1. NoTx.stage \in [Posts -> Stage] /\ NoTx.row \in [Posts -> PostRow] /\ "write" \in Stage
    BY NoTxIsTx DEF Tx, Stage
  <2> HIDE DEF NoTx
  <2> DEFINE st == NoTx.stage
             ro == NoTx.row
  <2>2. s.stage = [st EXCEPT ![p] = "write"] /\ s.row = [ro EXCEPT ![p] = row]
    BY <1>2
  <2>3. st \in [Posts -> Stage] /\ ro \in [Posts -> PostRow]
    BY <2>1
  <2> HIDE DEF st, ro
  <2>4. [st EXCEPT ![p] = "write"] \in [Posts -> Stage]
    BY <2>1, <2>3
  <2>5. [ro EXCEPT ![p] = row] \in [Posts -> PostRow]
    BY <1>1, <2>3
  <2> QED
    BY <2>2, <2>4, <2>5, Zenon
<1>5. s \in Tx
  BY <1>2, <1>3, <1>4, NoTxIsTx DEF Tx, TxPc, Kind
<1>6. \A q \in Posts : s.stage[q] = IF q = p THEN "write" ELSE "none"
  BY <1>2 DEF NoTx
<1>7. \A q \in Posts : q # p => s.row[q] = NoPost
  BY <1>2 DEF NoTx
<1>8. s.row[p] = row
  BY <1>2, NoTxIsTx DEF Tx
<1>9. Saves(s, p)
  <2>1. NoPost.refs = {}
    BY DEF NoPost, Class!NoPost
  <2> QED
    BY <1>2, <1>6, <1>7, <1>8, <2>1 DEF Saves, row
<1>10. Shape(s)
  BY <1>2, <1>6, <1>9 DEF Shape, WrittenFirst, OnlyOwnFlags, SaveShape
<1>11. Right(s, bs, ps, fl)
  BY <1>2, <1>6 DEF Right, SaveRight, ScansRight, FlagsRight
<1> QED
  BY <1>5, <1>10, <1>11

\* The check of the references leaves a save right (SaveCheck).
LEMMA PassCheck ==
  ASSUME NEW r \in Tx, Shape(r), r.pc = "check", NEW bs, NEW ps, NEW fl,
         r.cls \/ \A p \in Posts : r.row[p].refs \cap fl = {},
         NEW s, s = [r EXCEPT !.pc = "posts"]
  PROVE  s \in Tx /\ Shape(s) /\ (Right(r, bs, ps, fl) => Right(s, bs, ps, fl))
<1>1. s \in Tx
  BY DEF Tx, TxPc
<1>2. /\ s.pc = "posts" /\ s.kind = r.kind /\ s.board = r.board /\ s.cls = r.cls /\ s.prev = r.prev
      /\ s.stage = r.stage /\ s.row = r.row /\ s.secure = r.secure
      /\ s.wrote = r.wrote /\ s.raise = r.raise /\ s.clear = r.clear
  BY DEF Tx
<1>3. r.kind # "board"
  BY DEF Shape, BoardShape
<1>4. Shape(s)
  <2>1. PICK p \in Posts : Saves(r, p)
    BY <1>3 DEF Shape, SaveShape
  <2>2. Saves(s, p)
    BY <1>2, <2>1 DEF Saves
  <2> QED
    BY <1>2, <1>3, <2>2 DEF Shape, SaveShape, WrittenFirst, OnlyOwnFlags
<1>5. Seen(s, ps) = Seen(r, ps) /\ Flags(s, fl) = Flags(r, fl)
  BY <1>2 DEF Seen, Flags
<1>6. ASSUME Right(r, bs, ps, fl) PROVE Right(s, bs, ps, fl)
  <2>1. SaveRight(s, bs, fl)
    BY <1>2, <1>3, <1>6 DEF Right, SaveRight
  <2>2. ScansRight(s, ps) /\ FlagsRight(s, ps, fl)
    BY <1>2, <1>5, <1>6 DEF Right, ScansRight, FlagsRight
  <2> QED
    BY <1>2, <1>3, <2>1, <2>2 DEF Right
<1> QED
  BY <1>1, <1>4, <1>6

\* The save of a board starts with the class the board has (BoardBegin).
LEMMA BeginBoard ==
  ASSUME NEW b \in Boards, NEW cls \in BOOLEAN, NEW bs \in [Boards -> BOOLEAN], NEW ps, NEW fl,
         NEW s, s = [NoTx EXCEPT !.pc = "board", !.board = b, !.cls = cls, !.prev = bs[b]]
  PROVE  s \in Tx /\ Shape(s) /\ Right(s, bs, ps, fl)
<1>1. s \in Tx
  BY NoTxIsTx DEF Tx, TxPc
<1>2. /\ s.pc = "board" /\ s.kind = "board" /\ s.board = b /\ s.cls = cls /\ s.prev = bs[b]
      /\ s.wrote = {} /\ s.raise = {} /\ s.clear = {} /\ \A p \in Posts : s.stage[p] = "none"
  BY DEF NoTx
<1>3. Shape(s)
  BY <1>2 DEF Shape, WrittenFirst, OnlyOwnFlags, BoardShape
<1>4. Right(s, bs, ps, fl)
  BY <1>2 DEF Right, BoardRight, ScansRight, FlagsRight
<1> QED
  BY <1>1, <1>3, <1>4

\* Writing the board row leaves its save right (BoardWrite).
LEMMA WriteBoard ==
  ASSUME NEW r \in Tx, Shape(r), r.pc = "board", NEW bs, NEW ps, NEW fl,
         NEW s, s = [r EXCEPT !.pc = IF r.cls # r.prev THEN "find" ELSE "posts"]
  PROVE  s \in Tx /\ Shape(s) /\ (Right(r, bs, ps, fl) => Right(s, bs, ps, fl))
<1>0. PICK pc \in {"find", "posts"} : s = [r EXCEPT !.pc = pc] /\ (pc = "find" <=> r.cls # r.prev)
  BY DEF Tx
<1>1. s \in Tx
  BY <1>0 DEF Tx, TxPc
<1>2. /\ s.pc = pc /\ s.kind = r.kind /\ s.board = r.board /\ s.cls = r.cls /\ s.prev = r.prev
      /\ s.stage = r.stage /\ s.row = r.row /\ s.secure = r.secure
      /\ s.wrote = r.wrote /\ s.raise = r.raise /\ s.clear = r.clear
  BY <1>0 DEF Tx
<1>3. r.kind = "board" /\ r.wrote = {} /\ \A p \in Posts : r.stage[p] = "none"
  BY DEF Shape, BoardShape, SaveShape
<1>4. Shape(s)
  BY <1>2, <1>3 DEF Shape, WrittenFirst, OnlyOwnFlags, BoardShape
<1>6. ASSUME Right(r, bs, ps, fl) PROVE Right(s, bs, ps, fl)
  <2>1. r.raise = {} /\ r.clear = {}
    BY <1>3 DEF Shape, OnlyOwnFlags
  <2> QED
    BY <1>0, <1>2, <1>3, <1>6, <2>1 DEF Right, BoardRight, ScansRight, FlagsRight
<1> QED
  BY <1>1, <1>4, <1>6

\* The bulk update finds exactly the posts of the board (BoardFind).
LEMMA FindPosts ==
  ASSUME NEW r \in Tx, Shape(r), r.pc = "find", NEW bs, NEW ps, NEW fl,
         NEW s, s = [r EXCEPT !.pc = "posts",
                              !.stage = [p \in Posts |-> IF p \in ChildrenOf(r, ps) THEN "write" ELSE "none"]]
  PROVE  s \in Tx /\ Shape(s) /\ (Right(r, bs, ps, fl) => Right(s, bs, ps, fl))
<1> DEFINE st == [p \in Posts |-> IF p \in ChildrenOf(r, ps) THEN "write" ELSE "none"]
<1>0. st \in [Posts -> Stage] /\ \A p \in Posts : st[p] = IF p \in ChildrenOf(r, ps) THEN "write" ELSE "none"
  BY DEF Stage
<1> HIDE DEF st
<1>1. s = [r EXCEPT !.pc = "posts", !.stage = st]
  BY DEF st
<1>2. s \in Tx
  BY <1>0, <1>1 DEF Tx, TxPc
<1>3. /\ s.pc = "posts" /\ s.kind = r.kind /\ s.board = r.board /\ s.cls = r.cls /\ s.prev = r.prev
      /\ s.stage = st /\ s.row = r.row /\ s.secure = r.secure
      /\ s.wrote = r.wrote /\ s.raise = r.raise /\ s.clear = r.clear
  BY <1>1 DEF Tx
<1>4. r.kind = "board" /\ r.wrote = {}
  BY DEF Shape, BoardShape, SaveShape
<1>5. Shape(s)
  BY <1>0, <1>3, <1>4 DEF Shape, WrittenFirst, OnlyOwnFlags, BoardShape
<1>6. ASSUME Right(r, bs, ps, fl) PROVE Right(s, bs, ps, fl)
  <2>1. r.raise = {} /\ r.clear = {}
    BY <1>4 DEF Shape, OnlyOwnFlags
  <2>2. ChildrenOf(s, ps) = ChildrenOf(r, ps)
    BY <1>3 DEF ChildrenOf
  <2>3. BoardRight(s, bs, ps)
    <3>1. r.prev = bs[r.board] /\ r.cls # r.prev
      BY <1>4, <1>6 DEF Right, BoardRight
    <3>2. \A p \in Posts : p \in ChildrenOf(r, ps) <=> st[p] = "write"
      BY <1>0
    <3>3. \A p \in Posts : p \in ChildrenOf(s, ps) <=> p \in s.wrote \/ s.stage[p] = "write"
      BY <1>3, <1>4, <2>2, <3>2
    <3> QED
      BY <1>3, <1>4, <3>1, <3>3 DEF BoardRight
  <2>4. ScansRight(s, ps)
    <3>1. \A p \in Posts : s.stage[p] # "flags"
      BY <1>0, <1>3
    <3> QED
      BY <3>1 DEF ScansRight
  <2>5. FlagsRight(s, ps, fl)
    BY <1>3, <1>4, <2>1 DEF FlagsRight
  <2> QED
    BY <1>3, <1>4, <2>3, <2>4, <2>5 DEF Right
<1> QED
  BY <1>2, <1>5, <1>6

\* A transaction that finds a post of its list deleted has been overtaken
\* (SkipDeleted).
LEMMA SkipPost ==
  ASSUME NEW r \in Tx, Shape(r), r.pc = "posts", NEW p \in Posts, r.stage[p] = "write", r.kind = "board",
         NEW bs, NEW ps, ~ps[p].live, NEW fl,
         NEW s, s = [r EXCEPT !.stage[p] = "none"]
  PROVE  s \in Tx /\ Shape(s) /\ (Right(r, bs, ps, fl) => Right(s, bs, ps, fl))
<1> DEFINE st == [r.stage EXCEPT ![p] = "none"]
<1>0. st \in [Posts -> Stage] /\ \A q \in Posts : st[q] = IF q = p THEN "none" ELSE r.stage[q]
  BY DEF Stage, Tx
<1>1. s = [r EXCEPT !.stage = st]
  BY DEF Tx
<1> HIDE DEF st
<1>2. s \in Tx
  BY <1>0, <1>1 DEF Tx
<1>3. /\ s.pc = r.pc /\ s.kind = r.kind /\ s.stage = st /\ s.row = r.row
      /\ s.wrote = r.wrote /\ s.raise = r.raise /\ s.clear = r.clear
  BY <1>1 DEF Tx
<1>4. Shape(s)
  <2>1. WrittenFirst(s)
    BY <1>0, <1>3 DEF Shape, WrittenFirst
  <2>2. OnlyOwnFlags(s)
    BY <1>3 DEF Shape, OnlyOwnFlags
  <2> QED
    BY <1>3, <2>1, <2>2 DEF Shape, BoardShape
<1>5. ~Right(r, bs, ps, fl)
  BY DEF Right, BoardRight, ChildrenOf
<1> QED
  BY <1>2, <1>4, <1>5

-----------------------------------------------------------------------------
(* Writing a post, scanning for its files, syncing their flags *)

\* Writing one more post keeps the scans made before it right: what it adds to
\* the files of security-document posts no post scanned before refers to, unless
\* that post is one itself (WritePost).
LEMMA WriteOne ==
  ASSUME NEW r \in Tx, Shape(r), r.pc = "posts", NEW p \in Posts, r.stage[p] = "write",
         NEW bs, NEW ps \in [Posts -> PostRow], NEW fl,
         NEW s, s = Written(r, ps, p)
  PROVE  s \in Tx /\ Shape(s) /\ (Right(r, bs, ps, fl) => Right(s, bs, ps, fl))
<1>n. PICK n : /\ n = IF r.kind = "board" THEN [ps[p] EXCEPT !.sec = r.cls] ELSE r.row[p]
               /\ s = [r EXCEPT !.stage[p] = "scan", !.row[p] = n, !.wrote = r.wrote \cup {p}]
  BY DEF Written, RowOf
<1> DEFINE st == [r.stage EXCEPT ![p] = "scan"]
           ro == [r.row EXCEPT ![p] = n]
           wr == r.wrote \cup {p}
<1>0. n \in PostRow
  BY <1>n DEF Tx, PostRow, Class!PostRow
<1>1. st \in [Posts -> Stage] /\ \A q \in Posts : st[q] = IF q = p THEN "scan" ELSE r.stage[q]
  BY DEF Stage, Tx
<1>2. ro \in [Posts -> PostRow] /\ \A q \in Posts : ro[q] = IF q = p THEN n ELSE r.row[q]
  BY <1>0 DEF Tx
<1>3. s = [r EXCEPT !.stage = st, !.row = ro, !.wrote = wr] /\ wr \in SUBSET Posts
  BY <1>n DEF Tx
<1> HIDE DEF st, ro, wr
<1>4. s \in Tx
  BY <1>1, <1>2, <1>3 DEF Tx
<1>5. /\ s.pc = r.pc /\ s.kind = r.kind /\ s.board = r.board /\ s.cls = r.cls /\ s.prev = r.prev
      /\ s.stage = st /\ s.row = ro /\ s.secure = r.secure
      /\ s.wrote = wr /\ s.raise = r.raise /\ s.clear = r.clear
  BY <1>3 DEF Tx
<1>6. p \notin r.wrote /\ wr = r.wrote \cup {p} /\ r.wrote \subseteq Posts
  BY DEF Shape, WrittenFirst, wr, Tx
<1>7. WrittenFirst(s)
  <2>1. WrittenFirst(r)
    BY DEF Shape
  <2> QED
    BY <1>1, <1>5, <1>6, <2>1 DEF WrittenFirst
<1>8. OnlyOwnFlags(s)
  <2>1. OnlyOwnFlags(r)
    BY DEF Shape
  <2> QED
    BY <1>2, <1>5, <1>6, <2>1 DEF OnlyOwnFlags
<1>9. CASE r.kind # "board"
  <2>1. Saves(r, p)
    <3>1. PICK q \in Posts : Saves(r, q)
      BY <1>9 DEF Shape, SaveShape
    <3>2. q = p
      BY <3>1 DEF Saves
    <3> QED
      BY <3>1, <3>2
  <2>2. n = r.row[p]
    BY <1>n, <1>9
  <2>3. Saves(s, p)
    <3>1. s.row[p] = r.row[p] /\ p \in s.wrote /\ s.pc = "posts" /\ s.board = r.board /\ s.cls = r.cls
      BY <1>2, <1>5, <1>6, <2>2
    <3>2. \A q \in Posts \ {p} : /\ s.stage[q] = r.stage[q] /\ s.row[q] = r.row[q]
                                 /\ q \in s.wrote => q \in r.wrote
      BY <1>1, <1>2, <1>5, <1>6
    <3> QED
      BY <2>1, <3>1, <3>2 DEF Saves
  <2>4. Shape(s)
    BY <1>5, <1>7, <1>8, <1>9, <2>3 DEF Shape, SaveShape
  <2>5. r.wrote = {} /\ r.raise = {} /\ r.clear = {}
    <3>1. r.wrote = {}
      BY <1>6, <2>1 DEF Saves
    <3> QED
      BY <3>1 DEF Shape, OnlyOwnFlags
  <2>6. ASSUME Right(r, bs, ps, fl) PROVE Right(s, bs, ps, fl)
    <3>1. SaveRight(s, bs, fl)
      <4>1. SaveRight(r, bs, fl)
        BY <1>9, <2>6 DEF Right
      <4>2. \A q \in Posts : s.row[q] = r.row[q]
        BY <1>2, <1>5, <2>2
      <4> QED
        BY <1>5, <4>1, <4>2 DEF SaveRight
    <3>2. ScansRight(s, ps)
      <4>1. \A q \in Posts : s.stage[q] # "flags"
        BY <1>1, <1>5, <2>1 DEF Saves
      <4> QED
        BY <4>1 DEF ScansRight
    <3>3. FlagsRight(s, ps, fl)
      <4>1. s.wrote = {p} /\ s.stage[p] # "none"
        BY <1>1, <1>5, <1>6, <2>5
      <4> QED
        BY <1>5, <2>5, <4>1 DEF FlagsRight
    <3> QED
      BY <1>5, <1>9, <3>1, <3>2, <3>3 DEF Right
  <2> QED
    BY <1>4, <2>4, <2>6
<1>10. CASE r.kind = "board"
  <2>1. Shape(s)
    BY <1>5, <1>7, <1>8, <1>10 DEF Shape, BoardShape
  <2>2. ASSUME Right(r, bs, ps, fl) PROVE Right(s, bs, ps, fl)
    <3>0. BoardRight(r, bs, ps) /\ ScansRight(r, ps) /\ FlagsRight(r, ps, fl)
      BY <1>10, <2>2 DEF Right
    <3>1. r.cls # r.prev
      BY <3>0 DEF BoardRight
    <3>2. n = [ps[p] EXCEPT !.sec = r.cls] /\ n.sec = r.cls /\ n.refs = ps[p].refs
      BY <1>n, <1>10 DEF PostRow, Class!PostRow
    <3>3. BoardRight(s, bs, ps)
      <4>1. ChildrenOf(s, ps) = ChildrenOf(r, ps)
        BY <1>5 DEF ChildrenOf
      <4>2. \A q \in Posts : q \in ChildrenOf(s, ps) <=> q \in s.wrote \/ s.stage[q] = "write"
        <5>1. \A q \in Posts : q \in ChildrenOf(r, ps) <=> q \in r.wrote \/ r.stage[q] = "write"
          BY <3>0, <3>1 DEF BoardRight
        <5>2. ASSUME NEW q \in Posts PROVE q \in s.wrote \/ s.stage[q] = "write" <=> q \in r.wrote \/ r.stage[q] = "write"
          <6>1. CASE q = p
            BY <1>5, <1>6, <6>1
          <6>2. CASE q # p
            BY <1>1, <1>5, <1>6, <6>2
          <6> QED
            BY <6>1, <6>2
        <5> QED
          BY <4>1, <5>1, <5>2
      <4>3. \A q \in s.wrote : s.row[q] = [ps[q] EXCEPT !.sec = s.cls]
        <5>1. \A q \in r.wrote : r.row[q] = [ps[q] EXCEPT !.sec = r.cls]
          BY <3>0 DEF BoardRight
        <5> QED
          BY <1>2, <1>5, <1>6, <3>2, <5>1
      <4>4. s.prev = bs[s.board] /\ s.pc = "posts" /\ s.cls # s.prev
        BY <1>5, <3>0, <3>1 DEF BoardRight
      <4> QED
        BY <4>2, <4>3, <4>4 DEF BoardRight
    <3> DEFINE old == Seen(r, ps)
               new == Seen(s, ps)
    <3>4. /\ \A q \in Posts : q # p => new[q] = old[q]
          /\ new[p] = n /\ old[p] = ps[p]
          /\ \A q \in r.wrote : old[q] = r.row[q]
      BY <1>2, <1>5, <1>6 DEF Seen
    <3> HIDE DEF old, new
    <3>5. ASSUME NEW q \in r.wrote, NEW f \in r.row[q].refs, f \in Sec(new) PROVE f \in Sec(old)
      <4>1. PICK x \in Posts : new[x].sec /\ f \in new[x].refs
        BY <3>5, SecIs
      <4>2. CASE r.cls
        <5>1. r.row[q] = [ps[q] EXCEPT !.sec = r.cls] /\ ps[q] \in PostRow
          BY <1>6, <3>0 DEF BoardRight
        <5>2. r.row[q].sec
          BY <4>2, <5>1 DEF PostRow, Class!PostRow
        <5>3. old[q].sec /\ f \in old[q].refs /\ f \in Files /\ q \in Posts
          BY <1>6, <3>4, <3>5, <5>2, SecIs
        <5> QED
          BY <5>3, SecIs
      <4>3. CASE ~r.cls
        <5>1. x # p
          BY <3>2, <3>4, <4>1, <4>3
        <5>2. old[x].sec /\ f \in old[x].refs /\ f \in Files
          BY <3>4, <3>5, <4>1, <5>1, SecIs
        <5> QED
          BY <5>2, SecIs
      <4> QED
        BY <4>2, <4>3
    <3>6. Sec(old) \subseteq Sec(new) \cup Sec(ps)
      <4> SUFFICES ASSUME NEW f \in Sec(old) PROVE f \in Sec(new) \/ f \in Sec(ps)
        OBVIOUS
      <4>1. PICK x \in Posts : old[x].sec /\ f \in old[x].refs /\ f \in Files
        BY SecIs
      <4>2. CASE x = p
        BY <3>4, <4>1, <4>2, SecIs
      <4>3. CASE x # p
        <5>1. new[x].sec /\ f \in new[x].refs
          BY <3>4, <4>1, <4>3
        <5> QED
          BY <4>1, <5>1, SecIs
      <4> QED
        BY <4>2, <4>3
    <3>7. ScansRight(s, ps)
      <4> SUFFICES ASSUME NEW q \in Posts, s.stage[q] = "flags"
                   PROVE  s.row[q].refs \cap Sec(new) \subseteq s.secure[q] /\ s.secure[q] \subseteq Sec(new) \cup Sec(ps)
        BY <1>5, <1>10 DEF ScansRight, new
      <4>1. q # p /\ r.stage[q] = "flags" /\ s.row[q] = r.row[q] /\ s.secure[q] = r.secure[q]
        BY <1>1, <1>2, <1>5
      <4>2. q \in r.wrote
        BY <4>1 DEF Shape, WrittenFirst
      <4>3. r.row[q].refs \cap Sec(old) \subseteq r.secure[q] /\ r.secure[q] \subseteq Sec(old) \cup Sec(ps)
        BY <1>10, <3>0, <4>1 DEF ScansRight, old
      <4> QED
        BY <3>5, <3>6, <4>1, <4>2, <4>3
    <3>8. FlagsRight(s, ps, fl)
      <4>0. /\ r.clear \cap Sec(old) = {}
            /\ r.raise \subseteq Sec(old) \cup Sec(ps)
            /\ \A q \in r.wrote : r.stage[q] = "none" => r.row[q].refs \cap Sec(old) \subseteq Flags(r, fl)
        BY <3>0 DEF FlagsRight, old
      <4>1. r.clear \cap Sec(new) = {}
        <5>1. \A f \in r.clear : \E q \in r.wrote : f \in r.row[q].refs
          BY DEF Shape, OnlyOwnFlags
        <5> QED
          BY <3>5, <4>0, <5>1
      <4>2. r.raise \subseteq Sec(new) \cup Sec(ps)
        BY <3>6, <4>0
      <4>3. Flags(s, fl) = Flags(r, fl)
        BY <1>5 DEF Flags
      <4>4. ASSUME NEW q \in s.wrote, s.stage[q] = "none" PROVE s.row[q].refs \cap Sec(new) \subseteq Flags(s, fl)
        <5>1. q # p /\ q \in r.wrote /\ r.stage[q] = "none" /\ s.row[q] = r.row[q]
          BY <1>1, <1>2, <1>5, <1>6, <4>4
        <5> QED
          BY <3>5, <4>0, <4>3, <5>1
      <4> QED
        BY <1>5, <1>10, <4>1, <4>2, <4>4 DEF FlagsRight, new
    <3> QED
      BY <1>5, <1>10, <3>3, <3>7, <3>8 DEF Right
  <2> QED
    BY <1>4, <2>1, <2>2
<1> QED
  BY <1>9, <1>10

\* A scan sees the writes of its own transaction and what is committed
\* (ScanPosts).
LEMMA ScanOne ==
  ASSUME NEW r \in Tx, Shape(r), r.pc = "posts", NEW p \in Posts, r.stage[p] = "scan",
         NEW bs, NEW ps, NEW fl,
         NEW s, s = AfterScan(r, ps, p)
  PROVE  s \in Tx /\ Shape(s) /\ (Right(r, bs, ps, fl) => Right(s, bs, ps, fl))
<1>0. PICK then \in {"none", "flags"} : /\ then = "none" <=> r.row[p].refs = {}
                                        /\ s = [r EXCEPT !.stage[p] = then, !.secure[p] = Sec(Seen(r, ps))]
  BY DEF AfterScan
<1> DEFINE st == [r.stage EXCEPT ![p] = then]
           se == [r.secure EXCEPT ![p] = Sec(Seen(r, ps))]
<1>1. st \in [Posts -> Stage] /\ \A q \in Posts : st[q] = IF q = p THEN then ELSE r.stage[q]
  BY DEF Stage, Tx
<1>2. se \in [Posts -> SUBSET Files] /\ \A q \in Posts : se[q] = IF q = p THEN Sec(Seen(r, ps)) ELSE r.secure[q]
  <2>1. Sec(Seen(r, ps)) \in SUBSET Files
    BY SecIs
  <2> QED
    BY <2>1 DEF Tx
<1>3. s = [r EXCEPT !.stage = st, !.secure = se]
  BY <1>0 DEF Tx
<1> HIDE DEF st, se
<1>4. s \in Tx
  BY <1>1, <1>2, <1>3 DEF Tx
<1>5. /\ s.pc = r.pc /\ s.kind = r.kind /\ s.board = r.board /\ s.cls = r.cls /\ s.prev = r.prev
      /\ s.stage = st /\ s.row = r.row /\ s.secure = se
      /\ s.wrote = r.wrote /\ s.raise = r.raise /\ s.clear = r.clear
  BY <1>3 DEF Tx
<1>6. p \in r.wrote /\ r.wrote \subseteq Posts
  BY DEF Shape, WrittenFirst, Tx
<1>7. WrittenFirst(s)
  <2>1. WrittenFirst(r)
    BY DEF Shape
  <2> QED
    BY <1>1, <1>5, <1>6, <2>1 DEF WrittenFirst
<1>8. OnlyOwnFlags(s)
  BY <1>5 DEF OnlyOwnFlags, Shape
<1>9. Shape(s)
  <2>1. CASE r.kind = "board"
    BY <1>5, <1>7, <1>8, <2>1 DEF Shape, BoardShape
  <2>2. CASE r.kind # "board"
    <3>1. PICK q \in Posts : Saves(r, q)
      BY <2>2 DEF Shape, SaveShape
    <3>2. q = p
      BY <1>6, <3>1 DEF Saves
    <3>3. Saves(s, p)
      BY <1>1, <1>5, <1>6, <3>1, <3>2 DEF Saves
    <3> QED
      BY <1>5, <1>7, <1>8, <2>2, <3>3 DEF Shape, SaveShape
  <2> QED
    BY <2>1, <2>2
<1>10. Seen(s, ps) = Seen(r, ps) /\ Flags(s, fl) = Flags(r, fl) /\ ChildrenOf(s, ps) = ChildrenOf(r, ps)
  BY <1>5 DEF Seen, Flags, ChildrenOf
<1>11. ASSUME Right(r, bs, ps, fl) PROVE Right(s, bs, ps, fl)
  <2> DEFINE now == Sec(Seen(r, ps))
             was == IF r.kind = "board" THEN Sec(ps) ELSE {}
  <2>0. ScansRight(r, ps) /\ FlagsRight(r, ps, fl)
    BY <1>11 DEF Right
  <2>1. \A q \in Posts : r.stage[q] = "flags" =>
          r.row[q].refs \cap now \subseteq r.secure[q] /\ r.secure[q] \subseteq now \cup was
    BY <2>0 DEF ScansRight
  <2>2. \A q \in r.wrote : r.stage[q] = "none" =>
          /\ r.row[q].refs \cap now \subseteq Flags(r, fl)
          /\ r.kind # "board" => r.row[q].refs \cap Flags(r, fl) \subseteq now
    BY <2>0 DEF FlagsRight
  <2>3. r.clear \cap now = {} /\ r.raise \subseteq now \cup Sec(ps)
    BY <2>0 DEF FlagsRight
  <2>4. se[p] = now
    BY <1>2
  <2> HIDE DEF now, was
  <2>5. ASSUME NEW q \in Posts, st[q] = "flags"
        PROVE  r.row[q].refs \cap now \subseteq se[q] /\ se[q] \subseteq now \cup was
    <3>1. CASE q = p
      BY <2>4, <3>1
    <3>2. CASE q # p
      BY <1>1, <1>2, <2>1, <2>5, <3>2
    <3> QED
      BY <3>1, <3>2
  <2>6. ScansRight(s, ps)
    BY <1>5, <1>10, <2>5 DEF ScansRight, now, was
  <2>7. ASSUME NEW q \in r.wrote, st[q] = "none"
        PROVE  /\ r.row[q].refs \cap now \subseteq Flags(r, fl)
               /\ r.kind # "board" => r.row[q].refs \cap Flags(r, fl) \subseteq now
    <3>1. CASE q = p
      <4>1. r.row[q].refs = {}
        BY <1>0, <1>1, <2>7, <3>1
      <4> QED
        BY <4>1
    <3>2. CASE q # p
      BY <1>1, <1>6, <2>2, <2>7, <3>2
    <3> QED
      BY <3>1, <3>2
  <2>8. FlagsRight(s, ps, fl)
    BY <1>5, <1>10, <2>3, <2>7 DEF FlagsRight, now
  <2>9. CASE r.kind = "board"
    <3>1. BoardRight(r, bs, ps)
      BY <1>11, <2>9 DEF Right
    <3>2. BoardRight(s, bs, ps)
      <4>1. r.pc = "posts" /\ r.cls # r.prev
        BY <1>6, <3>1 DEF BoardRight
      <4>2. \A q \in Posts : s.stage[q] = "write" <=> r.stage[q] = "write"
        BY <1>1, <1>5
      <4>3. \A q \in Posts : q \in ChildrenOf(r, ps) <=> q \in r.wrote \/ r.stage[q] = "write"
        BY <3>1, <4>1 DEF BoardRight
      <4>4. \A q \in Posts : q \in ChildrenOf(s, ps) <=> q \in s.wrote \/ s.stage[q] = "write"
        BY <1>5, <1>10, <4>2, <4>3
      <4>5. \A q \in s.wrote : s.row[q] = [ps[q] EXCEPT !.sec = s.cls]
        BY <1>5, <3>1 DEF BoardRight
      <4>6. s.prev = bs[s.board] /\ s.pc = "posts" /\ s.cls # s.prev
        BY <1>5, <3>1, <4>1 DEF BoardRight
      <4> QED
        BY <4>4, <4>5, <4>6 DEF BoardRight
    <3> QED
      BY <1>5, <2>6, <2>8, <2>9, <3>2 DEF Right
  <2>10. CASE r.kind # "board"
    <3>1. SaveRight(s, bs, fl)
      BY <1>5, <1>11, <2>10 DEF Right, SaveRight
    <3> QED
      BY <1>5, <2>6, <2>8, <2>10, <3>1 DEF Right
  <2> QED
    BY <2>9, <2>10
<1> QED
  BY <1>4, <1>9, <1>11

\* Syncing the flags of one post undoes nothing an earlier post of the
\* transaction needed (SyncFlags).
LEMMA SyncOne ==
  ASSUME NEW r \in Tx, Shape(r), r.pc = "posts", NEW p \in Posts, r.stage[p] = "flags",
         NEW bs, NEW ps, NEW fl,
         NEW s, s = AfterSync(r, fl, p)
  PROVE  s \in Tx /\ Shape(s) /\ (Right(r, bs, ps, fl) => Right(s, bs, ps, fl))
<1>u. PICK up, down : /\ up = (r.row[p].refs \cap r.secure[p]) \ Flags(r, fl)
                      /\ down = (r.row[p].refs \ r.secure[p]) \cap Flags(r, fl)
                      /\ s = [r EXCEPT !.stage[p] = "none", !.secure[p] = {},
                                       !.raise = (r.raise \cup up) \ down,
                                       !.clear = (r.clear \cup down) \ up]
  BY DEF AfterSync, Up, Down
<1> DEFINE st == [r.stage EXCEPT ![p] = "none"]
           se == [r.secure EXCEPT ![p] = {}]
           ra == (r.raise \cup up) \ down
           cl == (r.clear \cup down) \ up
<1>1. st \in [Posts -> Stage] /\ \A q \in Posts : st[q] = IF q = p THEN "none" ELSE r.stage[q]
  BY DEF Stage, Tx
<1>2. se \in [Posts -> SUBSET Files] /\ \A q \in Posts : q # p => se[q] = r.secure[q]
  BY DEF Tx
<1>3. s = [r EXCEPT !.stage = st, !.secure = se, !.raise = ra, !.clear = cl]
  BY <1>u DEF Tx
<1>4. ra \in SUBSET Files /\ cl \in SUBSET Files
  BY <1>u DEF Tx, PostRow, Class!PostRow
<1> HIDE DEF st, se, ra, cl
<1>5. s \in Tx
  BY <1>1, <1>2, <1>3, <1>4 DEF Tx
<1>6. /\ s.pc = r.pc /\ s.kind = r.kind /\ s.board = r.board /\ s.cls = r.cls /\ s.prev = r.prev
      /\ s.stage = st /\ s.row = r.row /\ s.secure = se
      /\ s.wrote = r.wrote /\ s.raise = ra /\ s.clear = cl
  BY <1>3 DEF Tx
<1>7. p \in r.wrote /\ r.wrote \subseteq Posts
  BY DEF Shape, WrittenFirst, Tx
<1>8. WrittenFirst(s)
  <2>1. WrittenFirst(r)
    BY DEF Shape
  <2> QED
    BY <1>1, <1>6, <1>7, <2>1 DEF WrittenFirst
<1>9. OnlyOwnFlags(s)
  <2>1. \A f \in r.raise \cup r.clear : \E q \in r.wrote : f \in r.row[q].refs
    BY DEF Shape, OnlyOwnFlags
  <2>2. \A f \in up \cup down : f \in r.row[p].refs
    BY <1>u
  <2>3. \A f \in ra \cup cl : f \in r.raise \cup r.clear \/ f \in up \cup down
    BY DEF ra, cl
  <2> QED
    BY <1>6, <1>7, <2>1, <2>2, <2>3 DEF OnlyOwnFlags
<1>10. Shape(s)
  <2>1. CASE r.kind = "board"
    BY <1>6, <1>8, <1>9, <2>1 DEF Shape, BoardShape
  <2>2. CASE r.kind # "board"
    <3>1. PICK q \in Posts : Saves(r, q)
      BY <2>2 DEF Shape, SaveShape
    <3>2. q = p
      BY <1>7, <3>1 DEF Saves
    <3>3. Saves(s, p)
      BY <1>1, <1>6, <1>7, <3>1, <3>2 DEF Saves
    <3> QED
      BY <1>6, <1>8, <1>9, <2>2, <3>3 DEF Shape, SaveShape
  <2> QED
    BY <2>1, <2>2
<1>11. Seen(s, ps) = Seen(r, ps) /\ ChildrenOf(s, ps) = ChildrenOf(r, ps)
  BY <1>6 DEF Seen, ChildrenOf
<1>12. \A f : f \in Flags(s, fl) <=> f \in up \/ (f \in Flags(r, fl) /\ f \notin down)
  BY <1>u, <1>6 DEF Flags, ra, cl
<1>13. ASSUME Right(r, bs, ps, fl) PROVE Right(s, bs, ps, fl)
  <2>0. ScansRight(r, ps) /\ FlagsRight(r, ps, fl)
    BY <1>13 DEF Right
  <2> DEFINE now == Sec(Seen(r, ps))
  <2>1. /\ r.row[p].refs \cap now \subseteq r.secure[p]
        /\ r.secure[p] \subseteq now \cup (IF r.kind = "board" THEN Sec(ps) ELSE {})
    BY <2>0 DEF ScansRight
  <2> HIDE DEF now
  <2>2. down \cap now = {} /\ up \subseteq now \cup Sec(ps)
    BY <1>u, <2>1
  <2>3. ScansRight(s, ps)
    BY <1>1, <1>2, <1>6, <1>11, <2>0 DEF ScansRight
  <2>4. cl \cap now = {} /\ ra \subseteq now \cup Sec(ps)
    <3>1. r.clear \cap now = {} /\ r.raise \subseteq now \cup Sec(ps)
      BY <2>0 DEF FlagsRight, now
    <3> QED
      BY <2>2, <3>1 DEF cl, ra
  <2>5. ASSUME NEW q \in r.wrote, st[q] = "none" PROVE r.row[q].refs \cap now \subseteq Flags(s, fl)
    <3>1. CASE q = p
      BY <1>u, <1>12, <2>1, <2>2, <3>1
    <3>2. CASE q # p
      <4>1. r.row[q].refs \cap now \subseteq Flags(r, fl)
        BY <1>1, <1>7, <2>0, <2>5, <3>2 DEF FlagsRight, now
      <4> QED
        BY <1>12, <2>2, <4>1
    <3> QED
      BY <3>1, <3>2
  <2>6. ASSUME NEW q \in r.wrote, st[q] = "none", r.kind # "board" PROVE r.row[q].refs \cap Flags(s, fl) \subseteq now
    <3>1. q = p
      <4>1. PICK x \in Posts : Saves(r, x)
        BY <2>6 DEF Shape, SaveShape
      <4> QED
        BY <1>7, <4>1 DEF Saves
    <3> QED
      BY <1>u, <1>12, <2>1, <2>6, <3>1
  <2>7. FlagsRight(s, ps, fl)
    BY <1>6, <1>11, <2>4, <2>5, <2>6 DEF FlagsRight, now
  <2>8. CASE r.kind = "board"
    <3>1. BoardRight(r, bs, ps)
      BY <1>13, <2>8 DEF Right
    <3>2. BoardRight(s, bs, ps)
      <4>1. r.pc = "posts" /\ r.cls # r.prev
        BY <1>7, <3>1 DEF BoardRight
      <4>2. \A q \in Posts : s.stage[q] = "write" <=> r.stage[q] = "write"
        BY <1>1, <1>6
      <4> QED
        BY <1>6, <1>11, <3>1, <4>1, <4>2 DEF BoardRight
    <3> QED
      BY <1>6, <2>3, <2>7, <2>8, <3>2 DEF Right
  <2>9. CASE r.kind # "board"
    <3>1. SaveRight(s, bs, fl)
      BY <1>6, <1>13, <2>9 DEF Right, SaveRight
    <3> QED
      BY <1>6, <2>3, <2>7, <2>9, <3>1 DEF Right
  <2> QED
    BY <2>8, <2>9
<1> QED
  BY <1>5, <1>10, <1>13

-----------------------------------------------------------------------------
(* The invariant holds through every step *)

\* What is in flight when another transaction commits is overtaken (Ended).
LEMMA Overtaken ==
  ASSUME NEW r \in Tx, Shape(r), NEW s, s = [r EXCEPT !.overtaken = r.pc # "idle"]
  PROVE  s \in Tx /\ Shape(s) /\ (s.pc = "idle" \/ s.overtaken)
<1>1. PICK o \in BOOLEAN : s = [r EXCEPT !.overtaken = o] /\ (o <=> r.pc # "idle")
  OBVIOUS
<1>2. s \in Tx
  BY <1>1 DEF Tx
<1>3. /\ s.pc = r.pc /\ s.kind = r.kind /\ s.board = r.board /\ s.cls = r.cls /\ s.prev = r.prev
      /\ s.stage = r.stage /\ s.row = r.row /\ s.secure = r.secure
      /\ s.wrote = r.wrote /\ s.raise = r.raise /\ s.clear = r.clear /\ s.overtaken = o
  BY <1>1 DEF Tx
<1>4. CASE r.pc = "idle"
  <2>1. r = NoTx
    BY <1>4 DEF Shape
  <2>2. s = NoTx
    BY <1>1, <1>4, <2>1 DEF NoTx
  <2> QED
    BY <1>2, <1>4, <2>1, <2>2
<1>5. CASE r.pc # "idle"
  <2>1. WrittenFirst(s) /\ OnlyOwnFlags(s)
    BY <1>3, <1>5 DEF Shape, WrittenFirst, OnlyOwnFlags
  <2>2. CASE r.kind = "board"
    <3>1. BoardShape(s)
      BY <1>3, <1>5, <2>2 DEF Shape, BoardShape
    <3> QED
      BY <1>1, <1>2, <1>3, <1>5, <2>1, <2>2, <3>1 DEF Shape
  <2>3. CASE r.kind # "board"
    <3>1. PICK p \in Posts : Saves(r, p)
      BY <1>5, <2>3 DEF Shape, SaveShape
    <3>2. Saves(s, p)
      BY <1>3, <3>1 DEF Saves
    <3>3. SaveShape(s)
      BY <1>3, <1>5, <2>3, <3>2 DEF Shape, SaveShape
    <3> QED
      BY <1>1, <1>2, <1>3, <1>5, <2>1, <2>3, <3>3 DEF Shape
  <2> QED
    BY <2>2, <2>3
<1> QED
  BY <1>4, <1>5

\* A step of one transaction leaves the others as they are.
LEMMA OneTx ==
  ASSUME DocsInv, NEW t \in Txs, NEW s \in Tx, Shape(s),
         s.pc # "idle" /\ ~s.overtaken => Right(s, boardSec, post, flagged),
         tx' = [tx EXCEPT ![t] = s], UNCHANGED <<boardSec, post, flagged, strays, raced>>
  PROVE  DocsInv'
<1>1. TypeOK'
  BY DEF DocsInv, TypeOK, Class!TypeOK
<1>2. TxInv'
  <2> SUFFICES ASSUME NEW u \in Txs
               PROVE  /\ Shape(tx'[u])
                      /\ tx'[u].pc # "idle" /\ ~tx'[u].overtaken => Right(tx'[u], boardSec, post, flagged)
    BY DEF TxInv
  <2>1. tx'[u] = IF u = t THEN s ELSE tx[u]
    BY DEF DocsInv, TypeOK
  <2> QED
    BY <2>1 DEF DocsInv, TxInv
<1>3. UndisturbedPostsFollowBoard' /\ UndisturbedFilesFlagged'
  BY DEF DocsInv, UndisturbedPostsFollowBoard, UndisturbedFilesFlagged, Class!SecureFiles
<1> QED
  BY <1>1, <1>2, <1>3 DEF DocsInv

\* After a commit no transaction in flight has anything to be right about.
LEMMA AllOvertaken ==
  ASSUME DocsInv, NEW t \in Txs, tx' = Ended(t)
  PROVE  tx' \in [Txs -> Tx] /\ TxInv'
<1>1. ASSUME NEW u \in Txs PROVE tx'[u] \in Tx /\ Shape(tx'[u]) /\ (tx'[u].pc = "idle" \/ tx'[u].overtaken)
  <2>1. CASE u = t
    <3>1. tx'[u] = NoTx
      BY <2>1 DEF Ended
    <3>2. NoTx \in Tx /\ NoTx.pc = "idle" /\ Shape(NoTx)
      BY NoTxIsTx DEF NoTx, Shape
    <3> QED
      BY <3>1, <3>2
  <2>2. CASE u # t
    <3>1. tx'[u] = [tx[u] EXCEPT !.overtaken = tx[u].pc # "idle"]
      BY <2>2 DEF Ended
    <3>2. tx[u] \in Tx /\ Shape(tx[u])
      BY DEF DocsInv, TypeOK, TxInv
    <3> QED
      BY <3>1, <3>2, Overtaken
  <2> QED
    BY <2>1, <2>2
<1>2. tx' \in [Txs -> Tx]
  BY <1>1 DEF Ended
<1>3. TxInv'
  BY <1>1 DEF TxInv
<1> QED
  BY <1>2, <1>3

\* The rows a transaction shows when it commits.
LEMMA SeenRows ==
  ASSUME NEW r \in Tx, NEW ps \in [Posts -> PostRow]
  PROVE  /\ Seen(r, ps) \in [Posts -> PostRow]
         /\ \A p \in Posts : Seen(r, ps)[p] = IF p \in r.wrote THEN r.row[p] ELSE ps[p]
         /\ r.wrote \subseteq Posts
BY DEF Seen, Tx

\* What an undisturbed commit writes is of the class of its board.
LEMMA CommitRows ==
  ASSUME NEW r \in Tx, Shape(r), r.pc = "posts", \A p \in Posts : r.stage[p] = "none",
         NEW bs \in [Boards -> BOOLEAN], NEW ps \in [Posts -> PostRow], NEW fl,
         Right(r, bs, ps, fl),
         NEW p \in Posts, p \in r.wrote \/ (ps[p].live => ps[p].sec = bs[ps[p].board]),
         Seen(r, ps)[p].live
  PROVE  Seen(r, ps)[p].sec = BoardsAfter(r, bs)[Seen(r, ps)[p].board]
<1> DEFINE bs2 == BoardsAfter(r, bs)
           ro == Seen(r, ps)[p]
<1>b. bs2 = [bs EXCEPT ![r.board] = IF r.kind = "board" THEN r.cls ELSE bs[r.board]]
  BY DEF BoardsAfter
<1> HIDE DEF bs2
<1>0. ro = IF p \in r.wrote THEN r.row[p] ELSE ps[p]
  BY SeenRows
<1>c. ro.live
  OBVIOUS
<1> HIDE DEF ro
<1>1. ASSUME r.kind # "board" PROVE ro.sec = bs2[ro.board]
  <2>1. bs2 = bs
    BY <1>b, <1>1 DEF Tx
  <2>2. CASE p \in r.wrote
    <3>1. PICK q \in Posts : Saves(r, q)
      BY <1>1 DEF Shape, SaveShape
    <3>2. q = p /\ r.row[p].board = r.board /\ r.row[p].sec = r.cls
      BY <2>2, <3>1 DEF Saves
    <3>3. r.cls = bs[r.board]
      BY <1>1 DEF Right, SaveRight
    <3> QED
      BY <1>0, <2>1, <2>2, <3>2, <3>3
  <2> QED
    BY <1>0, <1>c, <2>1, <2>2
<1>2. ASSUME r.kind = "board" PROVE ro.sec = bs2[ro.board]
  <2>0. BoardRight(r, bs, ps)
    BY <1>2 DEF Right
  <2>1. r.board \in Boards /\ r.cls \in BOOLEAN
    BY DEF Tx
  <2>2. \A b \in Boards : bs2[b] = IF b = r.board THEN r.cls ELSE bs[b]
    BY <1>b, <1>2
  <2>3. ps[p] \in PostRow /\ ps[p].board \in Boards /\ ps[p].live \in BOOLEAN
    BY DEF PostRow, Class!PostRow
  <2>4. CASE r.cls = r.prev
    <3>1. r.wrote = {} /\ r.prev = bs[r.board]
      BY <2>0, <2>4 DEF BoardRight
    <3> QED
      BY <1>0, <1>c, <2>2, <2>3, <2>4, <3>1
  <2>5. CASE r.cls # r.prev
    <3>1. p \in ChildrenOf(r, ps) <=> p \in r.wrote
      BY <2>0, <2>5 DEF BoardRight
    <3>2. CASE p \in r.wrote
      <4>1. r.row[p] = [ps[p] EXCEPT !.sec = r.cls]
        BY <2>0, <3>2 DEF BoardRight
      <4>2. r.row[p].sec = r.cls /\ r.row[p].board = ps[p].board
        BY <2>3, <4>1 DEF PostRow, Class!PostRow
      <4>3. ps[p].board = r.board
        BY <3>1, <3>2 DEF ChildrenOf
      <4> QED
        BY <1>0, <2>1, <2>2, <3>2, <4>2, <4>3
    <3>3. CASE p \notin r.wrote
      <4>1. ps[p].board # r.board
        BY <1>0, <1>c, <3>1, <3>3 DEF ChildrenOf
      <4> QED
        BY <1>0, <1>c, <2>2, <2>3, <3>3, <4>1
    <3> QED
      BY <3>2, <3>3
  <2> QED
    BY <2>4, <2>5
<1>3. ro.sec = bs2[ro.board]
  BY <1>1, <1>2
<1> QED
  BY <1>3 DEF ro, bs2

\* The invariant holds at the start.
LEMMA InitDocs == Init => DocsInv
<1> SUFFICES ASSUME Init PROVE DocsInv
  OBVIOUS
<1> USE DEF Init, Class!Init
<1>1. TypeOK
  <2>1. post \in [Posts -> Class!PostRow]
    BY NoTxIsTx DEF PostRow, NoPost
  <2>2. tx \in [Txs -> Tx]
    BY NoTxIsTx
  <2> QED
    BY <2>1, <2>2 DEF TypeOK, Class!TypeOK
<1>2. TxInv
  <2>1. NoTx.pc = "idle" /\ Shape(NoTx)
    BY DEF NoTx, Shape
  <2> QED
    BY <2>1 DEF TxInv
<1>3. UndisturbedPostsFollowBoard
  BY DEF UndisturbedPostsFollowBoard, Class!NoPost
<1>4. UndisturbedFilesFlagged
  BY DEF UndisturbedFilesFlagged, Class!SecureFiles, Class!NoPost
<1> QED
  BY <1>1, <1>2, <1>3, <1>4 DEF DocsInv

\* Beginning or aborting a transaction keeps the invariant.
LEMMA DocsBegin ==
  ASSUME DocsInv, NEW t \in Txs,
         \/ \E p \in Posts, b \in Boards, refs \in SUBSET Files : SaveBegin(t, p, b, refs)
         \/ \E b \in Boards, cls \in BOOLEAN : BoardBegin(t, b, cls)
         \/ Abort(t)
  PROVE  DocsInv'
<1>0. boardSec \in [Boards -> BOOLEAN]
  BY DEF DocsInv, TypeOK, Class!TypeOK
<1>1. ASSUME NEW p \in Posts, NEW b \in Boards, NEW refs \in SUBSET Files, SaveBegin(t, p, b, refs)
      PROVE  DocsInv'
  <2>1. PICK kind \in {"create", "update"} :
          tx' = [tx EXCEPT ![t] =
            [NoTx EXCEPT !.pc = "check", !.kind = kind,
              !.board = b, !.cls = boardSec[b], !.stage[p] = "write",
              !.row[p] = [live |-> TRUE, board |-> b, sec |-> boardSec[b], refs |-> refs]]]
    BY <1>1 DEF SaveBegin
  <2> DEFINE s == [NoTx EXCEPT !.pc = "check", !.kind = kind,
              !.board = b, !.cls = boardSec[b], !.stage[p] = "write",
              !.row[p] = [live |-> TRUE, board |-> b, sec |-> boardSec[b], refs |-> refs]]
  <2>2. tx' = [tx EXCEPT ![t] = s]
    BY <2>1
  <2>3. s \in Tx /\ Shape(s) /\ Right(s, boardSec, post, flagged)
    BY <1>0, BeginSave
  <2> HIDE DEF s
  <2> QED
    BY <1>1, <2>2, <2>3, OneTx DEF SaveBegin
<1>2. ASSUME NEW b \in Boards, NEW cls \in BOOLEAN, BoardBegin(t, b, cls)
      PROVE  DocsInv'
  <2> DEFINE s == [NoTx EXCEPT !.pc = "board", !.board = b, !.cls = cls, !.prev = boardSec[b]]
  <2>2. tx' = [tx EXCEPT ![t] = s]
    BY <1>2 DEF BoardBegin
  <2>3. s \in Tx /\ Shape(s) /\ Right(s, boardSec, post, flagged)
    BY <1>0, BeginBoard
  <2> HIDE DEF s
  <2> QED
    BY <1>2, <2>2, <2>3, OneTx DEF BoardBegin
<1>3. ASSUME Abort(t) PROVE DocsInv'
  <2>1. NoTx \in Tx /\ NoTx.pc = "idle" /\ Shape(NoTx)
    BY NoTxIsTx DEF NoTx, Shape
  <2> QED
    BY <1>3, <2>1, OneTx DEF Abort
<1> QED
  BY <1>1, <1>2, <1>3

\* A step of a transaction keeps the invariant.
LEMMA DocsStep ==
  ASSUME DocsInv, NEW t \in Txs,
         \/ SaveCheck(t) \/ BoardWrite(t) \/ BoardFind(t)
         \/ \E p \in Posts : WritePost(t, p) \/ SkipDeleted(t, p) \/ ScanPosts(t, p) \/ SyncFlags(t, p)
  PROVE  DocsInv'
<1> DEFINE r == tx[t]
<1>0. /\ tx \in [Txs -> Tx] /\ r \in Tx /\ Shape(r) /\ post \in [Posts -> PostRow]
      /\ r.pc # "idle" /\ ~r.overtaken => Right(r, boardSec, post, flagged)
  BY DEF DocsInv, TypeOK, TxInv, Class!TypeOK, PostRow
<1> HIDE DEF r
<1>1. ASSUME NEW s, s \in Tx, Shape(s), r.pc # "idle", s.overtaken = r.overtaken,
             Right(r, boardSec, post, flagged) => Right(s, boardSec, post, flagged),
             tx' = [tx EXCEPT ![t] = s], UNCHANGED <<boardSec, post, flagged, strays, raced>>
      PROVE  DocsInv'
  BY <1>0, <1>1, OneTx
<1>2. CASE SaveCheck(t)
  <2> DEFINE s == [r EXCEPT !.pc = "posts"]
  <2>1. /\ tx' = [tx EXCEPT ![t] = s] /\ UNCHANGED <<boardSec, post, flagged, strays, raced>>
        /\ r.pc = "check" /\ (r.cls \/ \A p \in Posts : r.row[p].refs \cap flagged = {})
    BY <1>2 DEF SaveCheck, r
  <2>2. s.overtaken = r.overtaken
    BY <1>0 DEF Tx
  <2>3. s \in Tx /\ Shape(s) /\ (Right(r, boardSec, post, flagged) => Right(s, boardSec, post, flagged))
    BY <1>0, <2>1, PassCheck
  <2> HIDE DEF s
  <2> QED
    BY <1>1, <2>1, <2>2, <2>3
<1>3. CASE BoardWrite(t)
  <2> DEFINE s == [r EXCEPT !.pc = IF r.cls # r.prev THEN "find" ELSE "posts"]
  <2>1. /\ tx' = [tx EXCEPT ![t] = s] /\ UNCHANGED <<boardSec, post, flagged, strays, raced>>
        /\ r.pc = "board"
    BY <1>3 DEF BoardWrite, r
  <2>2. s.overtaken = r.overtaken
    BY <1>0 DEF Tx
  <2>3. s \in Tx /\ Shape(s) /\ (Right(r, boardSec, post, flagged) => Right(s, boardSec, post, flagged))
    BY <1>0, <2>1, WriteBoard
  <2> HIDE DEF s
  <2> QED
    BY <1>1, <2>1, <2>2, <2>3
<1>4. CASE BoardFind(t)
  <2> DEFINE st == [p \in Posts |-> IF p \in ChildrenOf(r, post) THEN "write" ELSE "none"]
             s == [r EXCEPT !.pc = "posts", !.stage = st]
  <2>0. ChildrenOf(r, post) = Children(t)
    BY DEF ChildrenOf, Children, r
  <2>1. /\ tx' = [tx EXCEPT ![t] = s] /\ UNCHANGED <<boardSec, post, flagged, strays, raced>>
        /\ r.pc = "find"
    <3>1. st = [p \in Posts |-> IF p \in Children(t) THEN "write" ELSE "none"]
      BY <2>0
    <3> HIDE DEF st
    <3> QED
      BY <1>0, <1>4, <3>1 DEF BoardFind, r
  <2>2. s.overtaken = r.overtaken
    BY <1>0 DEF Tx
  <2>3. s \in Tx /\ Shape(s) /\ (Right(r, boardSec, post, flagged) => Right(s, boardSec, post, flagged))
    BY <1>0, <2>1, FindPosts
  <2> HIDE DEF s
  <2> QED
    BY <1>1, <2>1, <2>2, <2>3
<1>5. ASSUME NEW p \in Posts, WritePost(t, p) PROVE DocsInv'
  <2> DEFINE s == Written(r, post, p)
  <2>0. RowOf(r, post, p) = NewRow(t, p)
    BY DEF RowOf, NewRow, r
  <2>1. /\ tx' = [tx EXCEPT ![t] = s] /\ UNCHANGED <<boardSec, post, flagged, strays, raced>>
        /\ r.pc = "posts" /\ r.stage[p] = "write"
    BY <1>0, <1>5, <2>0 DEF WritePost, r, Tx, Written
  <2>2. s.overtaken = r.overtaken
    BY <1>0 DEF Tx, Written
  <2>3. s \in Tx /\ Shape(s) /\ (Right(r, boardSec, post, flagged) => Right(s, boardSec, post, flagged))
    BY <1>0, <2>1, WriteOne
  <2> HIDE DEF s
  <2> QED
    BY <1>1, <2>1, <2>2, <2>3
<1>6. ASSUME NEW p \in Posts, SkipDeleted(t, p) PROVE DocsInv'
  <2> DEFINE s == [r EXCEPT !.stage[p] = "none"]
  <2>1. /\ tx' = [tx EXCEPT ![t] = s] /\ UNCHANGED <<boardSec, post, flagged, strays, raced>>
        /\ r.pc = "posts" /\ r.stage[p] = "write" /\ r.kind = "board" /\ ~post[p].live
    BY <1>6 DEF SkipDeleted, r
  <2>2. s.overtaken = r.overtaken
    BY <1>0 DEF Tx
  <2>b. s = [r EXCEPT !.stage[p] = "none"]
    BY DEF s
  <2> HIDE DEF s
  <2>3. s \in Tx /\ Shape(s) /\ (Right(r, boardSec, post, flagged) => Right(s, boardSec, post, flagged))
    BY <1>0, <2>1, <2>b, SkipPost
  <2> QED
    BY <1>1, <2>1, <2>2, <2>3
<1>7. ASSUME NEW p \in Posts, ScanPosts(t, p) PROVE DocsInv'
  <2> DEFINE s == AfterScan(r, post, p)
  <2>0. Sec(Seen(r, post)) = Scanned(t, p)
    BY DEF Scanned, Sec, Seen, SeenPost, r
  <2>1. /\ tx' = [tx EXCEPT ![t] = s] /\ UNCHANGED <<boardSec, post, flagged, strays, raced>>
        /\ r.pc = "posts" /\ r.stage[p] = "scan"
    BY <1>0, <1>7, <2>0 DEF ScanPosts, r, Tx, AfterScan
  <2>2. s.overtaken = r.overtaken
    BY <1>0 DEF Tx, AfterScan
  <2>3. s \in Tx /\ Shape(s) /\ (Right(r, boardSec, post, flagged) => Right(s, boardSec, post, flagged))
    BY <1>0, <2>1, ScanOne
  <2> HIDE DEF s
  <2> QED
    BY <1>1, <2>1, <2>2, <2>3
<1>8. ASSUME NEW p \in Posts, SyncFlags(t, p) PROVE DocsInv'
  <2> DEFINE s == AfterSync(r, flagged, p)
  <2>0. /\ Up(r, flagged, p) = (tx[t].row[p].refs \cap tx[t].secure[p]) \ SeenFlags(t)
        /\ Down(r, flagged, p) = (tx[t].row[p].refs \ tx[t].secure[p]) \cap SeenFlags(t)
    BY DEF Up, Down, Flags, SeenFlags, r
  <2>1. /\ tx' = [tx EXCEPT ![t] = s] /\ UNCHANGED <<boardSec, post, flagged, strays, raced>>
        /\ r.pc = "posts" /\ r.stage[p] = "flags"
    BY <1>0, <1>8, <2>0 DEF SyncFlags, r, Tx, AfterSync
  <2>2. s.overtaken = r.overtaken
    BY <1>0 DEF Tx, AfterSync
  <2>3. s \in Tx /\ Shape(s) /\ (Right(r, boardSec, post, flagged) => Right(s, boardSec, post, flagged))
    BY <1>0, <2>1, SyncOne
  <2> HIDE DEF s
  <2> QED
    BY <1>1, <2>1, <2>2, <2>3
<1> QED
  BY <1>2, <1>3, <1>4, <1>5, <1>6, <1>7, <1>8

-----------------------------------------------------------------------------
(* Commits, deletes, and the theorems *)

\* What a commit shows, in terms of the record of its transaction.
LEMMA CommitIs ==
  ASSUME DocsInv, NEW t \in Txs, Commit(t), NEW r, r = tx[t]
  PROVE  /\ r \in Tx /\ Shape(r) /\ r.pc = "posts" /\ \A p \in Posts : r.stage[p] = "none"
         /\ ~r.overtaken => Right(r, boardSec, post, flagged)
         /\ boardSec' = BoardsAfter(r, boardSec)
         /\ post' = Seen(r, post) /\ flagged' = Flags(r, flagged) /\ tx' = Ended(t)
         /\ \A p : p \in Decided(t) <=>
                     p \in r.wrote \/ (p \in Posts /\ r.kind = "board" /\ post'[p].board = r.board)
         /\ \A ps, f : f \in FilesOf(t, ps) <=> \E p \in ps : f \in SeenPost(t)[p].refs
         /\ SeenPost(t) = post'
         /\ r.overtaken => strays' = strays \cup Decided(t) /\ raced' = raced \cup FilesOf(t, Decided(t))
         /\ ~r.overtaken => strays' = strays \ r.wrote /\ raced' = raced \ FilesOf(t, r.wrote)
<1>1. r \in Tx /\ Shape(r) /\ (r.pc # "idle" /\ ~r.overtaken => Right(r, boardSec, post, flagged))
  BY DEF DocsInv, TypeOK, TxInv
<1>2. SeenPost(t) = Seen(r, post) /\ SeenFlags(t) = Flags(r, flagged)
  BY DEF SeenPost, Seen, SeenFlags, Flags
<1>3. r.board \in Boards /\ boardSec \in [Boards -> BOOLEAN]
  BY <1>1 DEF Tx, DocsInv, TypeOK, Class!TypeOK
<1>4. boardSec' = BoardsAfter(r, boardSec)
  BY <1>3 DEF Commit, BoardsAfter
<1>5. /\ r.pc = "posts" /\ \A p \in Posts : r.stage[p] = "none"
      /\ post' = Seen(r, post) /\ flagged' = Flags(r, flagged) /\ tx' = Ended(t)
      /\ r.overtaken => strays' = strays \cup Decided(t) /\ raced' = raced \cup FilesOf(t, Decided(t))
      /\ ~r.overtaken => strays' = strays \ r.wrote /\ raced' = raced \ FilesOf(t, r.wrote)
  BY <1>2 DEF Commit
<1>6. \A ps, f : f \in FilesOf(t, ps) <=> \E p \in ps : f \in SeenPost(t)[p].refs
  BY DEF FilesOf
<1>7. SeenPost(t) = post'
  BY <1>2, <1>5
<1>8. \A p : p \in Decided(t) <=>
                     p \in r.wrote \/ (p \in Posts /\ r.kind = "board" /\ post'[p].board = r.board)
  BY <1>7 DEF Decided
<1> QED
  BY <1>1, <1>4, <1>5, <1>6, <1>7, <1>8

\* A commit leaves every post right that it does not list as a stray, and every
\* file flagged that it does not list as raced.
LEMMA DocsCommit ==
  ASSUME DocsInv, NEW t \in Txs, Commit(t)
  PROVE  DocsInv'
<1> DEFINE r == tx[t]
<1>1. /\ r \in Tx /\ Shape(r) /\ r.pc = "posts" /\ \A p \in Posts : r.stage[p] = "none"
      /\ ~r.overtaken => Right(r, boardSec, post, flagged)
      /\ boardSec' = BoardsAfter(r, boardSec)
      /\ post' = Seen(r, post) /\ flagged' = Flags(r, flagged) /\ tx' = Ended(t)
      /\ \A p : p \in Decided(t) <=>
                  p \in r.wrote \/ (p \in Posts /\ r.kind = "board" /\ post'[p].board = r.board)
      /\ \A ps, f : f \in FilesOf(t, ps) <=> \E p \in ps : f \in SeenPost(t)[p].refs
      /\ SeenPost(t) = post'
      /\ r.overtaken => strays' = strays \cup Decided(t) /\ raced' = raced \cup FilesOf(t, Decided(t))
      /\ ~r.overtaken => strays' = strays \ r.wrote /\ raced' = raced \ FilesOf(t, r.wrote)
  BY CommitIs
<1>2. /\ boardSec \in [Boards -> BOOLEAN] /\ post \in [Posts -> PostRow] /\ flagged \in SUBSET Files
      /\ strays \in SUBSET Posts /\ raced \in SUBSET Files
      /\ UndisturbedPostsFollowBoard /\ UndisturbedFilesFlagged
  BY DEF DocsInv, TypeOK, Class!TypeOK, PostRow
<1> HIDE DEF r
<1>3. /\ post' \in [Posts -> PostRow] /\ r.wrote \subseteq Posts
      /\ \A p \in Posts : post'[p] = IF p \in r.wrote THEN r.row[p] ELSE post[p]
  BY <1>1, <1>2, SeenRows
<1>4. r.board \in Boards /\ r.cls \in BOOLEAN /\ r.raise \subseteq Files /\ r.clear \subseteq Files
  BY <1>1 DEF Tx
<1>5. tx' \in [Txs -> Tx] /\ TxInv'
  BY <1>1, AllOvertaken
<1>6. \A p \in Posts : post'[p].refs \subseteq Files
  BY <1>3 DEF PostRow, Class!PostRow
<1>7. TypeOK'
  <2>1. boardSec' \in [Boards -> BOOLEAN]
    BY <1>1, <1>2, <1>4 DEF BoardsAfter
  <2>2. flagged' \subseteq Files
    BY <1>1, <1>2, <1>4 DEF Flags
  <2>3. strays' \subseteq Posts
    <3>1. Decided(t) \subseteq Posts
      BY <1>1, <1>3
    <3> QED
      BY <1>1, <1>2, <3>1
  <2>4. raced' \subseteq Files
    <3>1. \A ps \in SUBSET Posts : FilesOf(t, ps) \subseteq Files
      BY <1>1, <1>6
    <3>2. Decided(t) \in SUBSET Posts
      BY <1>1, <1>3
    <3> QED
      BY <1>1, <1>2, <3>1, <3>2
  <2> QED
    BY <1>3, <1>5, <2>1, <2>2, <2>3, <2>4 DEF TypeOK, Class!TypeOK, PostRow
<1>8. UndisturbedPostsFollowBoard'
  <2> SUFFICES ASSUME NEW p \in Posts, p \notin strays', post'[p].live
               PROVE  post'[p].sec = boardSec'[post'[p].board]
    BY DEF UndisturbedPostsFollowBoard
  <2>0. post'[p].live
    OBVIOUS
  <2>1. CASE r.overtaken
    <3>1. p \notin strays /\ p \notin r.wrote /\ ~(r.kind = "board" /\ post'[p].board = r.board)
      BY <1>1, <2>1
    <3>2. post'[p] = post[p]
      BY <1>3, <3>1
    <3>3. post[p].sec = boardSec[post[p].board] /\ post[p].board \in Boards
      BY <1>2, <3>1, <3>2 DEF UndisturbedPostsFollowBoard, PostRow, Class!PostRow
    <3>4. boardSec'[post[p].board] = boardSec[post[p].board]
      BY <1>1, <1>2, <3>1, <3>2, <3>3 DEF BoardsAfter
    <3> QED
      BY <3>2, <3>3, <3>4
  <2>2. CASE ~r.overtaken
    <3>1. p \in r.wrote \/ (post[p].live => post[p].sec = boardSec[post[p].board])
      BY <1>1, <1>2, <2>2 DEF UndisturbedPostsFollowBoard
    <3>2. post' = Seen(r, post) /\ boardSec' = BoardsAfter(r, boardSec)
      BY <1>1
    <3>3. Seen(r, post)[p].live
      BY <2>0, <3>2
    <3>4. Seen(r, post)[p].sec = BoardsAfter(r, boardSec)[Seen(r, post)[p].board]
      BY <1>1, <1>2, <2>2, <3>1, <3>3, CommitRows
    <3> QED
      BY <3>2, <3>4
  <2> QED
    BY <2>1, <2>2
<1>9. UndisturbedFilesFlagged'
  <2>0. Sec(post') = Class!SecureFiles(post')
    BY DEF Sec
  <2> SUFFICES ASSUME NEW f \in Sec(post') PROVE f \in flagged' \/ f \in raced'
    BY DEF UndisturbedFilesFlagged, Sec, Class!SecureFiles
  <2>1. PICK x \in Posts : post'[x].sec /\ f \in post'[x].refs /\ f \in Files
    BY SecIs
  <2>2. x \notin r.wrote => f \in flagged \/ f \in raced
    <3> SUFFICES ASSUME x \notin r.wrote PROVE f \in flagged \/ f \in raced
      OBVIOUS
    <3>1. post[x].sec /\ f \in post[x].refs
      BY <1>3, <2>1
    <3>2. f \in Sec(post)
      BY <2>1, <3>1, SecIs
    <3> QED
      BY <1>2, <3>2 DEF UndisturbedFilesFlagged, Sec
  <2>3. f \in r.clear => \E q \in r.wrote : f \in post'[q].refs
    BY <1>1, <1>3 DEF Shape, OnlyOwnFlags
  <2>4. f \in flagged' <=> (f \in flagged \/ f \in r.raise) /\ f \notin r.clear
    BY <1>1 DEF Flags
  <2>5. CASE r.overtaken
    <3>1. ASSUME NEW q \in r.wrote, f \in post'[q].refs PROVE f \in raced'
      <4>1. q \in Decided(t)
        BY <1>1
      <4>2. f \in FilesOf(t, Decided(t))
        BY <1>1, <3>1, <4>1
      <4> QED
        BY <1>1, <2>5, <4>2
    <3> QED
      BY <1>1, <2>1, <2>2, <2>3, <2>4, <2>5, <3>1
  <2>6. CASE ~r.overtaken
    <3>1. FlagsRight(r, post, flagged)
      BY <1>1, <2>6 DEF Right
    <3>2. f \notin r.clear
      BY <1>1, <3>1 DEF FlagsRight
    <3>3. CASE \E q \in r.wrote : f \in post'[q].refs
      <4>1. PICK q \in r.wrote : f \in post'[q].refs
        BY <3>3
      <4>2. f \in r.row[q].refs /\ r.stage[q] = "none"
        BY <1>1, <1>3, <4>1
      <4>3. r.row[q].refs \cap Sec(Seen(r, post)) \subseteq Flags(r, flagged)
        BY <3>1, <4>2 DEF FlagsRight
      <4> QED
        BY <1>1, <4>2, <4>3
    <3>4. CASE ~\E q \in r.wrote : f \in post'[q].refs
      <4>1. x \notin r.wrote /\ f \notin FilesOf(t, r.wrote)
        BY <1>1, <2>1, <3>4
      <4> QED
        BY <1>1, <2>2, <2>4, <2>6, <3>2, <4>1
    <3> QED
      BY <3>3, <3>4
  <2> QED
    BY <2>5, <2>6
<1> QED
  BY <1>5, <1>7, <1>8, <1>9 DEF DocsInv

\* Deleting a post keeps the invariant (Delete).
LEMMA DocsDelete ==
  ASSUME DocsInv, NEW t \in Txs, NEW p \in Posts, Delete(t, p)
  PROVE  DocsInv'
<1>1. tx' \in [Txs -> Tx] /\ TxInv'
  BY AllOvertaken DEF Delete
<1>2. NoPost \in PostRow /\ ~NoPost.live /\ ~NoPost.sec
  BY NoTxIsTx DEF NoPost, Class!NoPost
<1>3. /\ post \in [Posts -> PostRow] /\ TypeOK
      /\ UndisturbedPostsFollowBoard /\ UndisturbedFilesFlagged
  BY DEF DocsInv, TypeOK, Class!TypeOK, PostRow
<1>4. \A q \in Posts : post'[q] = IF q = p THEN NoPost ELSE post[q]
  BY <1>3 DEF Delete
<1>5. post' \in [Posts -> PostRow]
  BY <1>2, <1>3 DEF Delete
<1>6. TypeOK'
  BY <1>1, <1>3, <1>5 DEF TypeOK, Class!TypeOK, PostRow, Delete
<1>7. UndisturbedPostsFollowBoard'
  <2>1. strays' = strays \ {p} /\ boardSec' = boardSec
    BY DEF Delete
  <2> QED
    BY <1>2, <1>3, <1>4, <2>1 DEF UndisturbedPostsFollowBoard
<1>8. UndisturbedFilesFlagged'
  <2>1. flagged' = flagged /\ raced' = raced
    BY DEF Delete
  <2>2. Class!SecureFiles(post') \subseteq Class!SecureFiles(post)
    BY <1>2, <1>4 DEF Class!SecureFiles
  <2>3. Class!SecureFiles(post)' = Class!SecureFiles(post')
    BY DEF Class!SecureFiles
  <2> QED
    BY <1>3, <2>1, <2>2, <2>3 DEF UndisturbedFilesFlagged
<1> QED
  BY <1>1, <1>6, <1>7, <1>8 DEF DocsInv

\* The invariant is about the variables of the model alone.
LEMMA DocsStutter == DocsInv /\ UNCHANGED vars => DocsInv'
<1> SUFFICES ASSUME DocsInv, UNCHANGED vars PROVE DocsInv'
  OBVIOUS
<1>1. UNCHANGED <<boardSec, post, flagged, tx, strays, raced>>
  BY DEF vars
<1>2. TypeOK' /\ TxInv' /\ UndisturbedPostsFollowBoard' /\ UndisturbedFilesFlagged'
  BY <1>1 DEF DocsInv, TypeOK, Class!TypeOK, TxInv, UndisturbedPostsFollowBoard,
              UndisturbedFilesFlagged, Class!SecureFiles
<1> QED
  BY <1>2 DEF DocsInv

\* The invariant is inductive.
LEMMA DocsNext == DocsInv /\ [Next]_vars => DocsInv'
<1> SUFFICES ASSUME DocsInv, [Next]_vars PROVE DocsInv'
  OBVIOUS
<1>1. CASE UNCHANGED vars
  BY <1>1, DocsStutter
<1>2. CASE Next
  <2>1. PICK t \in Txs :
          \/ \E p \in Posts, b \in Boards, refs \in SUBSET Files : SaveBegin(t, p, b, refs)
          \/ \E b \in Boards, cls \in BOOLEAN : BoardBegin(t, b, cls)
          \/ \E p \in Posts : Delete(t, p)
          \/ TxStep(t)
    BY <1>2 DEF Next
  <2>2. CASE \/ \E p \in Posts, b \in Boards, refs \in SUBSET Files : SaveBegin(t, p, b, refs)
             \/ \E b \in Boards, cls \in BOOLEAN : BoardBegin(t, b, cls)
    BY <2>2, DocsBegin
  <2>3. CASE \E p \in Posts : Delete(t, p)
    BY <2>3, DocsDelete
  <2>4. CASE TxStep(t)
    <3>1. CASE \/ SaveCheck(t) \/ BoardWrite(t) \/ BoardFind(t)
               \/ \E p \in Posts : WritePost(t, p) \/ SkipDeleted(t, p) \/ ScanPosts(t, p) \/ SyncFlags(t, p)
      BY <3>1, DocsStep
    <3>2. CASE Commit(t)
      BY <3>2, DocsCommit
    <3>3. CASE Abort(t)
      BY <3>3, DocsBegin
    <3> QED
      BY <2>4, <3>1, <3>2, <3>3 DEF TxStep
  <2> QED
    BY <2>1, <2>2, <2>3, <2>4
<1> QED
  BY <1>1, <1>2

\* Whatever transactions run side by side, a post is off the class of its board,
\* and a file of a security-document post without its flag, only when a
\* transaction that another commit overtook was the last to decide it (Posts.ts,
\* Boards.ts).
THEOREM UndisturbedIsRightHolds == Spec => []UndisturbedIsRight
<1>1. DocsInv => UndisturbedIsRight
  BY DEF DocsInv, UndisturbedIsRight
<1> QED
  BY <1>1, InitDocs, DocsNext, PTL DEF Spec

\* An undisturbed save of a post is a Save of the abstract specification.
LEMMA CommitIsSave ==
  ASSUME NEW r \in Tx, Shape(r), r.pc = "posts", \A p \in Posts : r.stage[p] = "none", r.kind # "board",
         TypeOK, Right(r, boardSec, post, flagged),
         boardSec' = BoardsAfter(r, boardSec),
         post' = Seen(r, post), flagged' = Flags(r, flagged)
  PROVE  \E p \in Posts, b \in Boards, refs \in SUBSET Files : Class!Save(p, b, refs)
<1>1. PICK p \in Posts : Saves(r, p)
  BY DEF Shape, SaveShape
<1> DEFINE refs == r.row[p].refs
           b == r.board
<1>2. /\ boardSec \in [Boards -> BOOLEAN] /\ post \in [Posts -> PostRow] /\ flagged \in SUBSET Files
      /\ r.row[p] \in PostRow /\ b \in Boards /\ refs \in SUBSET Files
      /\ r.wrote \subseteq Posts
  BY DEF TypeOK, Class!TypeOK, PostRow, Class!PostRow, Tx
<1>3. p \in r.wrote /\ \A q \in r.wrote : q = p
  BY <1>1, <1>2 DEF Saves
<1>4. /\ r.cls = boardSec[b] /\ (r.cls \/ refs \cap flagged = {})
      /\ r.clear \cap Sec(post') = {}
      /\ refs \cap Sec(post') \subseteq flagged' /\ refs \cap flagged' \subseteq Sec(post')
  <2>1. SaveRight(r, boardSec, flagged) /\ FlagsRight(r, post, flagged)
    BY DEF Right
  <2> QED
    BY <1>1, <1>3, <2>1 DEF SaveRight, FlagsRight
<1>5. post' = [post EXCEPT ![p] = [live |-> TRUE, board |-> b, sec |-> boardSec[b], refs |-> refs]]
  <2>1. r.row[p].live = TRUE /\ r.row[p].board = b /\ r.row[p].sec = boardSec[b]
    BY <1>1, <1>2, <1>4 DEF Saves, PostRow, Class!PostRow
  <2>2. r.row[p] = [live |-> TRUE, board |-> b, sec |-> boardSec[b], refs |-> refs]
    <3>1. r.row[p] = [live |-> r.row[p].live, board |-> r.row[p].board, sec |-> r.row[p].sec, refs |-> r.row[p].refs]
      BY <1>2 DEF PostRow, Class!PostRow
    <3> QED
      BY <2>1, <3>1
  <2>3. \A q \in Posts : post'[q] = IF q = p THEN r.row[p] ELSE post[q]
    BY <1>3 DEF Seen
  <2>4. post' \in [Posts -> PostRow]
    BY <1>2, SeenRows
  <2> DEFINE row == r.row[p]
  <2> HIDE DEF row
  <2>5. post' = [post EXCEPT ![p] = row]
    BY <1>2, <2>3, <2>4 DEF row
  <2> QED
    BY <2>2, <2>5 DEF row
<1>6. flagged' = Class!Synced(flagged, post', refs)
  <2>1. Class!SecureFiles(post') = Sec(post')
    BY DEF Sec
  <2>2. \A f \in r.raise \cup r.clear : f \in refs
    BY <1>3 DEF Shape, OnlyOwnFlags
  <2>3. \A f : f \notin refs => (f \in flagged' <=> f \in flagged)
    BY <2>2 DEF Flags
  <2> HIDE DEF refs
  <2>4. \A f : f \in flagged' <=> f \in (flagged \ refs) \cup (refs \cap Sec(post'))
    BY <1>4, <2>3
  <2>5. flagged' = (flagged \ refs) \cup (refs \cap Sec(post'))
    BY <2>4, Zenon
  <2> QED
    BY <2>1, <2>5 DEF Class!Synced
<1>7. Class!MaySave(p, b, refs)
  BY <1>4 DEF Class!MaySave
<1>8. UNCHANGED boardSec
  BY <1>2 DEF BoardsAfter
<1>9. Class!Save(p, b, refs)
  BY <1>5, <1>6, <1>7, <1>8 DEF Class!Save
<1> QED
  BY <1>2, <1>9

\* An undisturbed save of a board that changes its class is a Flip; with the class
\* unchanged it changes nothing.
LEMMA CommitIsFlip ==
  ASSUME NEW r \in Tx, Shape(r), r.pc = "posts", \A p \in Posts : r.stage[p] = "none", r.kind = "board",
         TypeOK, Right(r, boardSec, post, flagged), Sec(post) \subseteq flagged,
         boardSec' = BoardsAfter(r, boardSec),
         post' = Seen(r, post), flagged' = Flags(r, flagged)
  PROVE  (\E b \in Boards : Class!Flip(b)) \/ UNCHANGED <<boardSec, post, flagged>>
<1> DEFINE b == r.board
<1>0. /\ boardSec \in [Boards -> BOOLEAN] /\ post \in [Posts -> PostRow] /\ flagged \in SUBSET Files
      /\ b \in Boards /\ r.cls \in BOOLEAN /\ r.prev \in BOOLEAN /\ r.wrote \subseteq Posts
  BY DEF TypeOK, Class!TypeOK, PostRow, Tx
<1>1. BoardRight(r, boardSec, post) /\ FlagsRight(r, post, flagged)
  BY DEF Right
<1>2. /\ post' \in [Posts -> PostRow]
      /\ \A p \in Posts : post'[p] = IF p \in r.wrote THEN r.row[p] ELSE post[p]
  BY <1>0, SeenRows
<1>3. r.prev = boardSec[b]
  BY <1>1 DEF BoardRight
<1>4. CASE r.cls = r.prev
  <2>1. r.wrote = {}
    BY <1>1, <1>4 DEF BoardRight
  <2>2. r.raise = {} /\ r.clear = {}
    BY <2>1 DEF Shape, OnlyOwnFlags
  <2>3. boardSec' = boardSec
    BY <1>0, <1>3, <1>4 DEF BoardsAfter
  <2>4. post' = post
    BY <1>0, <1>2, <2>1
  <2>5. flagged' = flagged
    BY <2>2 DEF Flags
  <2> QED
    BY <2>3, <2>4, <2>5
<1>5. CASE r.cls # r.prev
  <2>1. \A p \in Posts : p \in r.wrote <=> post[p].live /\ post[p].board = b
    BY <1>1, <1>5 DEF BoardRight, ChildrenOf
  <2>2. r.cls = ~boardSec[b]
    BY <1>0, <1>3, <1>5
  <2>3. boardSec' = [boardSec EXCEPT ![b] = ~@]
    BY <1>0, <2>2 DEF BoardsAfter
  <2>4. post' = Class!Flipped(b)
    <3>1. \A p \in r.wrote : r.row[p] = [post[p] EXCEPT !.sec = ~boardSec[b]]
      BY <1>1, <2>2 DEF BoardRight
    <3>2. \A p \in Posts : post'[p] = Class!Flipped(b)[p]
      BY <1>2, <2>1, <3>1 DEF Class!Flipped
    <3> QED
      BY <1>2, <3>2 DEF Class!Flipped
  <2> DEFINE R == UNION {post[p].refs : p \in {q \in Posts : post[q].live /\ post[q].board = b}}
             kept == flagged' \cap flagged
             synced == (flagged \ R) \cup (R \cap Sec(post'))
  <2>5. ASSUME NEW f PROVE f \in R <=> \E p \in r.wrote : f \in r.row[p].refs
    <3>1. f \in R <=> \E p \in r.wrote : f \in post[p].refs
      BY <1>0, <2>1
    <3>2. \A p \in r.wrote : r.row[p].refs = post[p].refs
      <4>1. \A p \in r.wrote : r.row[p] = [post[p] EXCEPT !.sec = r.cls] /\ post[p] \in PostRow
        BY <1>0, <1>1 DEF BoardRight
      <4> QED
        BY <4>1 DEF PostRow, Class!PostRow
    <3> QED
      BY <3>1, <3>2
  <2> HIDE DEF R
  <2>6. /\ \A f \in r.raise \cup r.clear : f \in R
        /\ r.clear \cap Sec(post') = {} /\ r.raise \subseteq Sec(post') \cup flagged
        /\ R \cap Sec(post') \subseteq flagged'
    <3>1. \A f \in r.raise \cup r.clear : f \in R
      BY <2>5 DEF Shape, OnlyOwnFlags
    <3>2. r.clear \cap Sec(post') = {} /\ r.raise \subseteq Sec(post') \cup flagged
      BY <1>1 DEF FlagsRight
    <3>3. \A p \in r.wrote : r.row[p].refs \cap Sec(post') \subseteq flagged'
      BY <1>0, <1>1 DEF FlagsRight
    <3> QED
      BY <2>5, <3>1, <3>2, <3>3
  <2>7. \A f : f \in flagged' <=> (f \in flagged \/ f \in r.raise) /\ f \notin r.clear
    BY DEF Flags
  <2>8. \A f : f \in flagged' <=> f \in kept \cup synced
    BY <2>6, <2>7
  <2>9. flagged' = kept \cup synced /\ kept \in SUBSET flagged
    BY <2>8, Zenon
  <2>10. synced = Class!Synced(flagged, post', R)
    BY DEF Class!Synced, Sec
  <2>11. \E k \in SUBSET flagged : flagged' = k \cup Class!Synced(flagged, post', R)
    BY <2>9, <2>10
  <2>12. Class!Flip(b)
    BY <2>3, <2>4, <2>11 DEF Class!Flip, R
  <2> QED
    BY <1>0, <2>12
<1> QED
  BY <1>4, <1>5

\* While no commit has slipped past another, every step is a step of the abstract
\* specification or changes nothing that is committed.
LEMMA StepIsClass ==
  ASSUME DocsInv, [Next]_vars, Undisturbed
  PROVE  Class!Next \/ UNCHANGED <<boardSec, post, flagged>>
<1>1. CASE UNCHANGED vars
  BY <1>1 DEF vars
<1>2. CASE Next
  <2>1. PICK t \in Txs :
          \/ \E p \in Posts, b \in Boards, refs \in SUBSET Files : SaveBegin(t, p, b, refs)
          \/ \E b \in Boards, cls \in BOOLEAN : BoardBegin(t, b, cls)
          \/ \E p \in Posts : Delete(t, p)
          \/ TxStep(t)
    BY <1>2 DEF Next
  <2>2. CASE \/ \E p \in Posts, b \in Boards, refs \in SUBSET Files : SaveBegin(t, p, b, refs)
             \/ \E b \in Boards, cls \in BOOLEAN : BoardBegin(t, b, cls)
    BY <2>2 DEF SaveBegin, BoardBegin
  <2>3. ASSUME NEW p \in Posts, Delete(t, p) PROVE Class!Next
    <3>1. Class!Delete(p)
      BY <2>3 DEF Delete, Class!Delete, NoPost
    <3> QED
      BY <3>1 DEF Class!Next
  <2>4. CASE TxStep(t)
    <3>1. CASE \/ SaveCheck(t) \/ BoardWrite(t) \/ BoardFind(t) \/ Abort(t)
               \/ \E p \in Posts : WritePost(t, p) \/ SkipDeleted(t, p) \/ ScanPosts(t, p) \/ SyncFlags(t, p)
      BY <3>1 DEF SaveCheck, BoardWrite, BoardFind, Abort, WritePost, SkipDeleted, ScanPosts, SyncFlags
    <3>2. CASE Commit(t)
      <4> DEFINE r == tx[t]
      <4>1. /\ r \in Tx /\ Shape(r) /\ r.pc = "posts" /\ \A p \in Posts : r.stage[p] = "none"
            /\ ~r.overtaken => Right(r, boardSec, post, flagged)
            /\ boardSec' = BoardsAfter(r, boardSec)
            /\ post' = Seen(r, post) /\ flagged' = Flags(r, flagged) /\ tx' = Ended(t)
        BY <3>2, CommitIs
      <4>2. ~r.overtaken
        <5>1. tx'[t].pc = "idle"
          BY <4>1 DEF Ended, NoTx
        <5> QED
          BY <5>1 DEF Undisturbed
      <4>3. TypeOK /\ Sec(post) \subseteq flagged
        BY DEF DocsInv, UndisturbedFilesFlagged, Undisturbed, Sec
      <4> HIDE DEF r
      <4>4. CASE r.kind # "board"
        BY <4>1, <4>2, <4>3, <4>4, CommitIsSave DEF Class!Next
      <4>5. CASE r.kind = "board"
        BY <4>1, <4>2, <4>3, <4>5, CommitIsFlip DEF Class!Next
      <4> QED
        BY <4>4, <4>5
    <3> QED
      BY <2>4, <3>1, <3>2 DEF TxStep
  <2> QED
    BY <2>1, <2>2, <2>3, <2>4
<1> QED
  BY <1>1, <1>2

\* The hooks of boards and posts, statement by statement, implement SecurityClass
\* as long as no transaction commits over another one's commit.
THEOREM ImplementsClassHolds == Spec => ImplementsClass
<1>1. Init => Class!Init
  BY DEF Init
<1>2. DocsInv /\ [Next]_vars => [Undisturbed => Class!Next]_(Class!classVars)
  BY StepIsClass DEF Class!classVars
<1> QED
  BY <1>1, <1>2, InitDocs, DocsNext, PTL DEF Spec, ImplementsClass
=============================================================================
