---------------------------- MODULE SecurityClass ----------------------------
(***************************************************************************)
(* What the board engine promises of the security-document class, with     *)
(* every save, board flip and delete taken as one step: a post carries the *)
(* class of its board, and a file a security-document post refers to is    *)
(* flagged, so that the raw attachment routes refuse it to readers without *)
(* the privacy grant.  SecurityDocs shows the code doing it statement by   *)
(* statement.                                                              *)
(***************************************************************************)
EXTENDS Naturals

CONSTANTS
  Boards,  \* boards of a site
  Posts,   \* posts that may be created on them
  Files    \* rows of the `attachments` upload pool

ASSUME BoardsAssumption == Boards # {}

VARIABLES
  boardSec,  \* `securityDoc` of each board
  post,      \* the stored columns of each post
  flagged    \* attachments whose `securityDoc` is true

classVars == <<boardSec, post, flagged>>

\* refs: the attachments a post refers to, by any of the three sites.
PostRow == [live: BOOLEAN, board: Boards, sec: BOOLEAN, refs: SUBSET Files]

\* A post that does not exist (yet, or any more).
NoPost == [live |-> FALSE, board |-> CHOOSE b \in Boards : TRUE,
           sec |-> FALSE, refs |-> {}]

TypeOK ==
  /\ boardSec \in [Boards -> BOOLEAN]
  /\ post \in [Posts -> PostRow]
  /\ flagged \in SUBSET Files

Init ==
  /\ boardSec \in [Boards -> BOOLEAN]
  /\ post = [p \in Posts |-> NoPost]
  /\ flagged = {}

-----------------------------------------------------------------------------

\* The files referred to by any security-document post.
SecureFiles(ps) == {f \in Files : \E p \in Posts : ps[p].sec /\ f \in ps[p].refs}

\* Mutant: the scan runs before the post is written.
Synced_BeforeWrite(fl, ps, refs) == (fl \ refs) \cup (refs \cap SecureFiles(post))

\* The flags fl after those of the files in refs are recomputed from all posts.
Synced(fl, ps, refs) == (fl \ refs) \cup (refs \cap SecureFiles(ps))

\* An ordinary post may not refer to a flagged attachment.
MaySave(p, b, refs) == boardSec[b] \/ refs \cap flagged = {}

\* Create p, or update it: it takes the class of its board.
Save(p, b, refs) ==
  /\ MaySave(p, b, refs)
  /\ post' = [post EXCEPT ![p] = [live |-> TRUE, board |-> b,
                                  sec |-> boardSec[b], refs |-> refs]]
  /\ flagged' = Synced(flagged, post', refs)
  /\ UNCHANGED boardSec

\* The posts after a flip of board b.
Flipped(b) ==
  [p \in Posts |-> IF post[p].live /\ post[p].board = b
                   THEN [post[p] EXCEPT !.sec = ~boardSec[b]] ELSE post[p]]

\* The board changes its class, and every post of it follows.  The hooks of its
\* posts may interleave, so that a flag survives the last reference that needed
\* it; the file is restricted more than it must be, never less.
Flip(b) ==
  /\ boardSec' = [boardSec EXCEPT ![b] = ~@]
  /\ post' = Flipped(b)
  /\ \E kept \in SUBSET flagged :
       flagged' = kept \cup Synced(flagged, post', UNION {post[p].refs : p \in
                                {q \in Posts : post[q].live /\ post[q].board = b}})

\* A deleted post leaves the flags of its attachments as they are.
Delete(p) ==
  /\ post[p].live
  /\ post' = [post EXCEPT ![p] = NoPost]
  /\ UNCHANGED <<boardSec, flagged>>

Next ==
  \/ \E p \in Posts, b \in Boards, refs \in SUBSET Files : Save(p, b, refs)
  \/ \E b \in Boards : Flip(b)
  \/ \E p \in Posts : Delete(p)

Spec == Init /\ [][Next]_classVars

-----------------------------------------------------------------------------

\* Every post carries the class of the board it is on, whatever boards were
\* flipped and wherever the post was moved (boards.propagateSecurityDocToPosts,
\* posts.validatePostAgainstBoard).
PostsFollowBoard ==
  \A p \in Posts : post[p].live => post[p].sec = boardSec[post[p].board]

\* A file of a security-document post is flagged: the raw attachment routes
\* refuse it to readers without the privacy grant (syncAttachmentSecurityDoc,
\* securityDocAttachmentRead).
SecureFilesFlagged == SecureFiles(post) \subseteq flagged

\* A flag is lowered only when no security-document post refers to the file any
\* more, so an ordinary write cannot expose one (syncAttachmentSecurityDoc).
LoweredOnlyWhenFree ==
  [][SecureFiles(post)' \cap (flagged \ flagged') = {}]_classVars

\* No ordinary post acquires a file of a security-document post: when the two
\* share one, the ordinary post had it first (validatePostAgainstBoard).
OrdinaryNeverJoins ==
  [][\A f \in Files, p \in Posts :
       (f \in SecureFiles(post)' /\ f \in post'[p].refs /\ ~post'[p].sec)
         => f \in post[p].refs]_classVars

\* What the security-document class promises while transactions run one after the
\* other: posts have their board's class, their files the flag, and no ordinary
\* write loosens either.
ClassHolds ==
  /\ [](TypeOK /\ PostsFollowBoard /\ SecureFilesFlagged)
  /\ LoweredOnlyWhenFree /\ OrdinaryNeverJoins

\* "the shared-reference state never even forms": no ordinary post refers to a
\* file of a security-document post.
NoSharedReference ==
  \A f \in SecureFiles(post), p \in Posts :
    post[p].live /\ f \in post[p].refs => post[p].sec
=============================================================================
