---------------------------- MODULE SecurityDocs ----------------------------
(***************************************************************************)
(* The hooks of `boards` and `posts` that keep the security-document class *)
(* of a board on its posts and on the attachments these refer to, as       *)
(* database transactions.  A transaction sees what is committed and its    *)
(* own writes; its writes lock their rows, and are visible to the others   *)
(* when it commits.  Every query and every update is a step of its own.    *)
(***************************************************************************)
EXTENDS Naturals

CONSTANTS
  Boards,  \* boards of a site
  Posts,   \* posts that may be created on them
  Files,   \* rows of the `attachments` upload pool
  Txs      \* slots for the transactions of requests in flight

ASSUME BoardsAssumption == Boards # {}

VARIABLES
  boardSec,  \* committed `securityDoc` of each board
  post,      \* committed columns of each post
  flagged,   \* attachments whose committed `securityDoc` is true
  tx,        \* transactions in flight
  strays,    \* history: posts last written by an overtaken transaction
  raced      \* history: attachments last synced by an overtaken transaction

\* The abstract specification, in which each save is one step; it sees what is
\* committed.
Class == INSTANCE SecurityClass
           WITH Boards <- Boards, Posts <- Posts, Files <- Files,
                boardSec <- boardSec, post <- post, flagged <- flagged

PostRow == Class!PostRow
NoPost == Class!NoPost

vars == <<boardSec, post, flagged, tx, strays, raced>>

-----------------------------------------------------------------------------
(* Transactions *)

Kind == {"create", "update", "board"}

\* A save of a post: "check" its references, then write.  A save of a board:
\* write the "board" row, "find" its posts, then write them.
TxPc == {"idle", "check", "board", "find", "posts"}

\* Writing one post: the row, the scan of all posts, the flags it changes.
Stage == {"none", "write", "scan", "flags"}

\* board: the board saved to, or saved; cls: its class as read, or as written;
\* prev: the class of a saved board when it was read;
\* stage, secure: per post the stage of its write and the files its scan found;
\* row, wrote: the uncommitted rows, and of which posts; raise, clear: the
\* uncommitted flags;
\* overtaken: another transaction has committed since this one began.
Tx == [pc: TxPc, kind: Kind, board: Boards, cls: BOOLEAN, prev: BOOLEAN,
       stage: [Posts -> Stage], secure: [Posts -> SUBSET Files],
       row: [Posts -> PostRow], wrote: SUBSET Posts,
       raise: SUBSET Files, clear: SUBSET Files, overtaken: BOOLEAN]

NoTx == [pc |-> "idle", kind |-> "board", board |-> CHOOSE b \in Boards : TRUE,
         cls |-> FALSE, prev |-> FALSE,
         stage |-> [p \in Posts |-> "none"], secure |-> [p \in Posts |-> {}],
         row |-> [p \in Posts |-> NoPost], wrote |-> {},
         raise |-> {}, clear |-> {}, overtaken |-> FALSE]

TypeOK ==
  /\ Class!TypeOK
  /\ tx \in [Txs -> Tx]
  /\ strays \in SUBSET Posts
  /\ raced \in SUBSET Files

Init ==
  /\ Class!Init
  /\ tx = [t \in Txs |-> NoTx]
  /\ strays = {}
  /\ raced = {}

\* What transaction t sees: its own writes over what is committed.
SeenPost(t) == [p \in Posts |-> IF p \in tx[t].wrote THEN tx[t].row[p] ELSE post[p]]
SeenFlags(t) == (flagged \cup tx[t].raise) \ tx[t].clear

\* Rows another transaction has written and not committed yet are locked.
PostLocked(t, p) == \E u \in Txs \ {t} : p \in tx[u].wrote
FileLocked(t, f) == \E u \in Txs \ {t} : f \in tx[u].raise \cup tx[u].clear
BoardLocked(t, b) ==
  \E u \in Txs \ {t} :
    tx[u].kind = "board" /\ tx[u].board = b /\ tx[u].pc \in {"find", "posts"}

-----------------------------------------------------------------------------
(* Saving a post *)

\* beforeValidate reads the board, and the row takes its class.  Slots of posts
\* are database ids: a slot is created by one transaction at a time.
SaveBegin(t, p, b, refs) ==
  /\ tx[t].pc = "idle"
  /\ post[p].live \/ \A u \in Txs : ~tx[u].row[p].live
  /\ tx' = [tx EXCEPT ![t] =
       [NoTx EXCEPT
          !.pc = "check", !.kind = IF post[p].live THEN "update" ELSE "create",
          !.board = b, !.cls = boardSec[b], !.stage[p] = "write",
          !.row[p] = [live |-> TRUE, board |-> b, sec |-> boardSec[b],
                      refs |-> refs]]]
  /\ UNCHANGED <<boardSec, post, flagged, strays, raced>>

\* An ordinary post may not refer to a flagged attachment; a refused save can
\* only abort.
SaveCheck(t) ==
  /\ tx[t].pc = "check"
  /\ tx[t].cls \/ \A p \in Posts : tx[t].row[p].refs \cap flagged = {}
  /\ tx' = [tx EXCEPT ![t].pc = "posts"]
  /\ UNCHANGED <<boardSec, post, flagged, strays, raced>>

-----------------------------------------------------------------------------
(* Saving a board *)

BoardBegin(t, b, cls) ==
  /\ tx[t].pc = "idle"
  /\ tx' = [tx EXCEPT ![t] = [NoTx EXCEPT !.pc = "board", !.board = b, !.cls = cls,
                                          !.prev = boardSec[b]]]
  /\ UNCHANGED <<boardSec, post, flagged, strays, raced>>

\* The row is written; the class is propagated when it differs from the one
\* this request read, whatever another one wrote since.
BoardWrite(t) ==
  /\ tx[t].pc = "board"
  /\ ~BoardLocked(t, tx[t].board)
  /\ tx' = [tx EXCEPT ![t].pc = IF tx[t].cls # tx[t].prev THEN "find" ELSE "posts"]
  /\ UNCHANGED <<boardSec, post, flagged, strays, raced>>

\* The posts of the board, as the bulk update finds them.
Children(t) == {p \in Posts : post[p].live /\ post[p].board = tx[t].board}

BoardFind(t) ==
  /\ tx[t].pc = "find"
  /\ tx' = [tx EXCEPT
       ![t].pc = "posts",
       ![t].stage = [p \in Posts |-> IF p \in Children(t) THEN "write" ELSE "none"]]
  /\ UNCHANGED <<boardSec, post, flagged, strays, raced>>

-----------------------------------------------------------------------------
(* Writing one post, the one of a save or each one of a board *)

\* A board changes only the class of the row as it is now.
NewRow(t, p) ==
  IF tx[t].kind = "board" THEN [post[p] EXCEPT !.sec = tx[t].cls] ELSE tx[t].row[p]

\* An update of a post deleted in the meantime fails, and can only abort.
WritePost(t, p) ==
  /\ tx[t].pc = "posts" /\ tx[t].stage[p] = "write"
  /\ ~PostLocked(t, p)
  /\ tx[t].kind # "create" => post[p].live
  /\ tx' = [tx EXCEPT ![t].stage[p] = "scan", ![t].row[p] = NewRow(t, p),
                      ![t].wrote = @ \cup {p}]
  /\ UNCHANGED <<boardSec, post, flagged, strays, raced>>

\* A bulk update passes over a post deleted in the meantime.
SkipDeleted(t, p) ==
  /\ tx[t].pc = "posts" /\ tx[t].stage[p] = "write"
  /\ tx[t].kind = "board" /\ ~post[p].live
  /\ tx' = [tx EXCEPT ![t].stage[p] = "none"]
  /\ UNCHANGED <<boardSec, post, flagged, strays, raced>>

\* Mutant: the scan only looks at the post being written.
Scanned_OwnPost(t, p) == {f \in tx[t].row[p].refs : tx[t].row[p].sec}

\* Mutant: the scan misses what this transaction has written.
Scanned_Committed(t, p) == Class!SecureFiles(post)

\* The files of all the security-document posts t can see.
Scanned(t, p) == Class!SecureFiles(SeenPost(t))

\* afterChange: a post without references leaves all flags alone.
ScanPosts(t, p) ==
  /\ tx[t].pc = "posts" /\ tx[t].stage[p] = "scan"
  /\ tx' = [tx EXCEPT
       ![t].stage[p] = IF tx[t].row[p].refs = {} THEN "none" ELSE "flags",
       ![t].secure[p] = Scanned(t, p)]
  /\ UNCHANGED <<boardSec, post, flagged, strays, raced>>

\* Raise the flags that are down and lower those that are up; no other
\* attachment is written.
SyncFlags(t, p) ==
  LET refs  == tx[t].row[p].refs
      raise == (refs \cap tx[t].secure[p]) \ SeenFlags(t)
      clear == (refs \ tx[t].secure[p]) \cap SeenFlags(t) IN
  /\ tx[t].pc = "posts" /\ tx[t].stage[p] = "flags"
  /\ \A f \in raise \cup clear : ~FileLocked(t, f)
  /\ tx' = [tx EXCEPT ![t].stage[p] = "none", ![t].secure[p] = {},
                      ![t].raise = (@ \cup raise) \ clear,
                      ![t].clear = (@ \cup clear) \ raise]
  /\ UNCHANGED <<boardSec, post, flagged, strays, raced>>

-----------------------------------------------------------------------------
(* The end of a transaction *)

\* The transactions once t is over; those in flight have been overtaken.
Ended(t) ==
  [u \in Txs |-> IF u = t THEN NoTx
                 ELSE [tx[u] EXCEPT !.overtaken = tx[u].pc # "idle"]]

\* The posts whose class t decided: those it wrote, and those on the board it
\* changed.
Decided(t) ==
  tx[t].wrote \cup
  {p \in Posts : tx[t].kind = "board" /\ SeenPost(t)[p].board = tx[t].board}

FilesOf(t, ps) == UNION {SeenPost(t)[p].refs : p \in ps}

Commit(t) ==
  /\ tx[t].pc = "posts" /\ \A p \in Posts : tx[t].stage[p] = "none"
  /\ boardSec' = [boardSec EXCEPT ![tx[t].board] =
                    IF tx[t].kind = "board" THEN tx[t].cls ELSE @]
  /\ post' = SeenPost(t)
  /\ flagged' = SeenFlags(t)
  /\ tx' = Ended(t)
  /\ IF tx[t].overtaken
     THEN /\ strays' = strays \cup Decided(t)
          /\ raced' = raced \cup FilesOf(t, Decided(t))
     ELSE /\ strays' = strays \ tx[t].wrote
          /\ raced' = raced \ FilesOf(t, tx[t].wrote)

\* A refused save, a deadlock, a failed statement: nothing is kept.
Abort(t) ==
  /\ tx[t].pc # "idle"
  /\ tx' = [tx EXCEPT ![t] = NoTx]
  /\ UNCHANGED <<boardSec, post, flagged, strays, raced>>

\* Deleting a post is a transaction of one step; the flags stay as they are.
Delete(t, p) ==
  /\ tx[t].pc = "idle"
  /\ post[p].live /\ ~PostLocked(t, p)
  /\ post' = [post EXCEPT ![p] = NoPost]
  /\ tx' = Ended(t)
  /\ strays' = strays \ {p}
  /\ UNCHANGED <<boardSec, flagged, raced>>

-----------------------------------------------------------------------------

TxStep(t) ==
  \/ SaveCheck(t)
  \/ BoardWrite(t)
  \/ BoardFind(t)
  \/ \E p \in Posts : \/ WritePost(t, p)
                      \/ SkipDeleted(t, p)
                      \/ ScanPosts(t, p)
                      \/ SyncFlags(t, p)
  \/ Commit(t)
  \/ Abort(t)

Next ==
  \E t \in Txs :
    \/ \E p \in Posts, b \in Boards, refs \in SUBSET Files : SaveBegin(t, p, b, refs)
    \/ \E b \in Boards, cls \in BOOLEAN : BoardBegin(t, b, cls)
    \/ \E p \in Posts : Delete(t, p)
    \/ TxStep(t)

Spec == Init /\ [][Next]_vars

-----------------------------------------------------------------------------

\* The hooks, statement by statement, implement SecurityClass as long as no
\* transaction commits over another one's commit, and again once what such a
\* commit wrote has been saved anew: every commit is one save, flip or delete of
\* it, whatever else is in flight, and nothing but commits shows.
Undisturbed ==
  /\ strays = {} /\ raced = {}
  /\ \A t \in Txs : tx[t].overtaken => tx'[t].pc # "idle"
ImplementsClass == Class!Init /\ [][Undisturbed => Class!Next]_(Class!classVars)

\* With transactions side by side, a post is off the class of its board only
\* when it, or its board, was last written by a transaction that another commit
\* overtook: the next undisturbed save or flip puts it right.
UndisturbedPostsFollowBoard ==
  \A p \in Posts \ strays : post[p].live => post[p].sec = boardSec[post[p].board]

\* A file of a security-document post is without its flag only when an
\* overtaken transaction was the last one to sync it.
UndisturbedFilesFlagged == Class!SecureFiles(post) \subseteq flagged \cup raced

\* What the hooks still promise when transactions overlap: everything that no
\* commit slipped past has its class and its flags (Posts.ts, Boards.ts).
UndisturbedIsRight ==
  TypeOK /\ UndisturbedPostsFollowBoard /\ UndisturbedFilesFlagged
=============================================================================
