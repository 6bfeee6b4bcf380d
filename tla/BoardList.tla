------------------------------ MODULE BoardList ------------------------------
(***************************************************************************)
(* What a public board shows (site/board.ts, content/boardList.ts,         *)
(* content/boardSearch.ts, app/(frontend)/board/[bbsId]) and what its      *)
(* export holds (endpoints/boardExport.ts).                                *)
(*                                                                         *)
(* Posts come and go while a reader follows the pager from the first page  *)
(* to the last.  Every page is a query of its own: the notices whose       *)
(* window is open, on the first page only, and one slice of the others.    *)
(***************************************************************************)
EXTENDS Naturals, Sequences, FiniteSets, SequencesExt, FiniteSetsExt

CONSTANTS
  Words,        \* what a field of a post may hold; a search looks for one
  Fields,       \* field keys of the board's grid
  Searchable,   \* those with useFlag and searchFlag
  TextColumns,  \* those that are text columns of posts
  ListCount,    \* posts a page
  PageCount,    \* page links of the pager
  Queries,      \* searches of readers: a keyword and the field it is scoped to
  LastPost      \* bound of the exploration: posts written

ASSUME ListAssumption ==
  /\ Searchable \subseteq Fields /\ TextColumns \subseteq Fields
  /\ ListCount \in Nat \ {0} /\ PageCount \in Nat \ {0}
  /\ Queries \subseteq [word: Words \cup {""}, field: Fields \cup {""}]
  /\ LastPost \in Nat

VARIABLES
  posts,      \* the board's posts by number; a younger post has a larger one
  newest,     \* posts written so far
  oldestFirst,\* boards.sortOrder
  reader,     \* the reader: query, page under view, posts seen, at the end
  left        \* history: a post left the reader's list while it was read

listVars == <<posts, newest, oldestFirst, reader, left>>

\* A post: whether it is secret or of the security-document class, whether it is
\* a notice whose window is open or shut now, and its field values.
Post == [hidden: BOOLEAN, notice: {"no", "open", "shut"}, text: [Fields -> Words]]

NoSearch == [word |-> "", field |-> ""]

-----------------------------------------------------------------------------
(* The search.                                                             *)

\* buildPostSearchWhere: the text fields a keyword is looked for in; none at
\* all leaves the keyword out.
SearchedFields(q) ==
  IF q.field = "" THEN Searchable \cap TextColumns ELSE {q.field} \cap Searchable \cap TextColumns

Found(p, q) ==
  q.word = "" \/ SearchedFields(q) = {} \/ \E f \in SearchedFields(q) : p.text[f] = q.word

-----------------------------------------------------------------------------
(* The list.                                                               *)

\* NON_SECRET and NOT_SECURITY_DOC
Public(p) == ~p.hidden

Regular(p) == Public(p) /\ p.notice = "no"

\* isActiveNotice
Pinned(p) == Public(p) /\ p.notice = "open"

Hits(table, q) == {n \in DOMAIN table : Regular(table[n]) /\ Found(table[n], q)}

\* boardSort: the place of post n among those found, oldest or youngest first.
Place(hits, n) == Cardinality({k \in hits : IF oldestFirst THEN k <= n ELSE k >= n})

\* The numbers of the regular posts found in a table of posts, sorted.
Listing(table, q) ==
  LET hits == Hits(table, q)
  IN  [i \in 1..Cardinality(hits) |-> CHOOSE n \in hits : Place(hits, n) = i]

Clamped(n, low, high) == IF n < low THEN low ELSE IF n > high THEN high ELSE n

TotalPages(total) == Clamped((total + ListCount - 1) \div ListCount, 1, LastPost + 1)

\* paginate: the page shown as current, and its block of page links.
Pager(total, requested) ==
  LET pages == TotalPages(total)
      page == Clamped(requested, 1, pages)
      block == ((page - 1) \div PageCount) * PageCount
  IN [page  |-> page,
      links |-> {p \in 1..pages : p \in (block + 1)..(block + PageCount)}
                \cup {p \in {page - 1, page + 1} : p \in 1..pages},
      next  |-> page < pages]

\* Mutant: the offset of the page after.
Slice_Late(listing, page) ==
  SubSeq(listing, (page - 1) * ListCount + 2, Min({page * ListCount + 1, Len(listing)}))

\* The database query takes the page as it was requested, not as clamped.
Slice(listing, page) ==
  SubSeq(listing, (page - 1) * ListCount + 1, Min({page * ListCount, Len(listing)}))

\* loadBoardListPage
ListPage(table, q, requested) ==
  LET listing == Listing(table, q)
      pager == Pager(Len(listing), requested)
  IN [pager   |-> pager,
      posts   |-> ToSet(Slice(listing, Clamped(requested, 1, LastPost + 1))),
      notices |-> IF pager.page = 1 THEN {n \in DOMAIN table : Pinned(table[n])} ELSE {}]

\* loadGalleryPosts as the photo board uses it: no search, no notices.
GalleryPage(table, requested) == ListPage(table, NoSearch, requested).posts

\* loadAllBoardPosts, of the FAQ and the Q&A board.
AllPosts(table) == {n \in DOMAIN table : Public(table[n])}

\* handleBoardExport for an administrator who may read the board: every post
\* of it the search finds.
Exported(table, q) == {n \in DOMAIN table : Found(table[n], q)}

-----------------------------------------------------------------------------
(* The posts.                                                              *)

Matching(table) == Hits(table, reader.query)

Changed(table) ==
  /\ posts' = table
  /\ left' = (left \/ (reader.page > 0 /\ ~(Matching(posts) \subseteq Matching(table))))
  /\ reader' = [reader EXCEPT !.all = @ \cap Matching(table)]

\* A new post: one of the fields has a word of its own.
WritePost ==
  /\ newest < LastPost /\ newest' = newest + 1
  /\ \E v, w \in Words, f \in Searchable \cap TextColumns :
       /\ v # w
       /\ Changed([n \in DOMAIN posts \cup {newest + 1} |-> IF n \in DOMAIN posts THEN posts[n]
            ELSE [hidden |-> FALSE, notice |-> "no", text |-> [g \in Fields |-> IF g = f THEN w ELSE v]]])
  /\ UNCHANGED oldestFirst

RemovePost(n) ==
  /\ n \in DOMAIN posts
  /\ Changed([k \in DOMAIN posts \ {n} |-> posts[k]])
  /\ UNCHANGED <<newest, oldestFirst>>

\* An editor hides a post, or makes it a notice, and back.
EditPost(n) ==
  /\ n \in DOMAIN posts
  /\ \E p \in {[posts[n] EXCEPT !.hidden = ~@]}
              \cup {[posts[n] EXCEPT !.notice = w] : w \in {"no", "open", "shut"}} :
       Changed([posts EXCEPT ![n] = p])
  /\ UNCHANGED <<newest, oldestFirst>>

\* Time opens or shuts the window of a notice.
WindowTurns(n) ==
  /\ n \in DOMAIN posts /\ posts[n].notice # "no"
  /\ Changed([posts EXCEPT ![n].notice = IF @ = "open" THEN "shut" ELSE "open"])
  /\ UNCHANGED <<newest, oldestFirst>>

-----------------------------------------------------------------------------
(* The reader.                                                             *)

NoReader == [query |-> NoSearch, page |-> 0, seen |-> {}, all |-> {}, end |-> FALSE]

\* BoardListPage: a page is rendered; the query goes along (preservedQuery).
See(query, page, seen, all) ==
  LET shown == ListPage(posts, query, page) IN
    reader' = [query |-> query, page |-> shown.pager.page, seen |-> seen \cup shown.posts,
               all |-> all, end |-> ~shown.pager.next]

StartReading ==
  /\ reader.page = 0
  /\ \E q \in Queries : See(q, 1, {}, Hits(posts, q))
  /\ UNCHANGED <<posts, newest, oldestFirst, left>>

\* The link "Next" of the page under view.
ReadOn ==
  /\ reader.page > 0 /\ ~reader.end
  /\ See(reader.query, reader.page + 1, reader.seen, reader.all)
  /\ UNCHANGED <<posts, newest, oldestFirst, left>>

ListInit ==
  /\ posts = <<>> /\ newest = 0
  /\ oldestFirst \in BOOLEAN
  /\ reader = NoReader /\ left = FALSE

ListNext ==
  \/ WritePost
  \/ \E n \in 1..LastPost : RemovePost(n) \/ EditPost(n) \/ WindowTurns(n)
  \/ StartReading
  \/ ReadOn

ListSpec == ListInit /\ [][ListNext]_listVars

-----------------------------------------------------------------------------
(* Properties.                                                             *)

\* The posts have their shape, and what the reader still has to find are posts
\* that were found from the start on.
ListTypeOK ==
  /\ DOMAIN posts \subseteq 1..newest /\ \A n \in DOMAIN posts : posts[n] \in Post
  /\ reader.all \subseteq Matching(posts)
  /\ reader.page \in 0..TotalPages(LastPost)

\* loadBoardListPage and Pager.tsx: a reader who follows "Next" to the end has
\* seen every post that was in the list all along, whatever was written in the
\* meantime, unless a post left the list and the others moved up a page.
ReaderMissesNothing == reader.end /\ ~left => reader.all \subseteq reader.seen

\* boardSearch.ts ("refuses any field outside it"): what a field holds that
\* the board does not mark searchable, or that is no text, cannot be told from
\* any search of the list or of the export.
SearchNeverProbes ==
  \A q \in Queries :
    LET hits == Hits(posts, q)
        exported == Exported(posts, q)
    IN \A n \in DOMAIN posts, f \in Fields \ (Searchable \cap TextColumns) :
         \A w \in Words \ {posts[n].text[f]} :
           LET other == [posts EXCEPT ![n].text[f] = w] IN
             Hits(other, q) = hits /\ Exported(other, q) = exported

\* loadBoardListPage: without a search, every post that is public and no notice
\* is on exactly one page, a notice is pinned on the first page while its window
\* is open and in no list, and a post of another standing is nowhere, on a board
\* of any kind.
EveryPostInItsPlace ==
  LET pages == 1..TotalPages(Cardinality(Hits(posts, NoSearch)))
      places == UNION {LET page == ListPage(posts, NoSearch, p) IN
                         (page.posts \cup page.notices) \X {p} : p \in pages}
      showing(n) == {p \in pages : <<n, p>> \in places}
      gallery == UNION {GalleryPage(posts, p) : p \in pages}
  IN \A n \in DOMAIN posts :
       /\ ~Public(posts[n]) => showing(n) = {} /\ n \notin AllPosts(posts)
       /\ Regular(posts[n]) =>
            /\ Cardinality(showing(n)) = 1
            /\ n \in gallery
       /\ Public(posts[n]) /\ posts[n].notice # "no" =>
            showing(n) = IF posts[n].notice = "open" THEN {1} ELSE {}

\* boardExport.ts: whoever may export the board gets at least what any visitor
\* finds with the same search, and without one the pinned notices too.
ExportCoversList ==
  \A q \in Queries :
    LET exported == Exported(posts, q) IN
      \A p \in 1..(LastPost + 1) :
        LET page == ListPage(posts, q, p) IN
          /\ page.posts \subseteq exported
          /\ q.word = "" => page.notices \subseteq exported

\* List, gallery, search and export of a board agree on its posts: each where it
\* belongs, missed by no reader, none found by a field that is not to be searched
\* (board.ts, boardSearch.ts, boardExport.ts).
ListsAreWhole ==
  /\ ListTypeOK /\ EveryPostInItsPlace /\ ExportCoversList
  /\ SearchNeverProbes /\ ReaderMissesNothing
=============================================================================
