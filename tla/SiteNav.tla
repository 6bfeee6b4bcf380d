------------------------------- MODULE SiteNav -------------------------------
(***************************************************************************)
(* The menu tree of a site and the public pages it opens                   *)
(* (collections/Menus.ts, collections/utils.ts, site/nav.ts, site/access.ts,*)
(* site/data.ts, site/rsc.ts, the routes under app/(frontend)).            *)
(*                                                                         *)
(* Menus form a tree by their parent column; a save walks up the ancestors *)
(* to refuse a loop, one read after the other.  Visitors get navigation,   *)
(* breadcrumbs and page gates from a copy of the menus that the framework  *)
(* keeps for five minutes; contents and boards are read afresh.            *)
(***************************************************************************)
EXTENDS Naturals, FiniteSets

CONSTANTS
  Menus,      \* menus of the site
  MenuKind,   \* what each opens: "content", "board" (the one board) or "none"
  MenuSaves,  \* saves of menus, each made once
  MaxGone,    \* bound of the exploration: menus deleted at most
  Top         \* the empty parent

ASSUME NavAssumption ==
  /\ IsFiniteSet(Menus) /\ Top \notin Menus
  /\ MenuKind \in [Menus -> {"content", "board", "none"}]

VARIABLES
  tree,       \* the rows: parent, and to whom the menu is shown
  gone,       \* menus that were deleted
  menuSaves,  \* saves in flight
  copy,       \* the cached menus
  published,  \* menus whose web content has a published version
  secure,     \* the board is of the security-document class
  overlap     \* history: some row was written while a save walked

navVars == <<tree, gone, menuSaves, copy, published, secure, overlap>>

\* active and exposureCondition of a menu.
Exposures == {"always", "loggedIn", "loggedOut", "off"}

MenuRow == [parent: Menus \cup {Top}, shown: Exposures]

-----------------------------------------------------------------------------
(* Saving a menu.                                                          *)

IdleSave == [stage |-> "idle"]

\* The save of one menu: the whole row is written, the parent or the exposure
\* is what the editor changed.
BeginMenuSave(s) ==
  /\ menuSaves[s].stage = "idle"
  /\ \E m \in Menus \ gone :
       \E row \in {[tree[m] EXCEPT !.parent = p] : p \in (Menus \ gone) \cup {Top}}
                  \cup {[tree[m] EXCEPT !.shown = e] : e \in Exposures} :
         menuSaves' = [menuSaves EXCEPT ![s] =
                         [stage |-> "walk", menu |-> m, row |-> row, at |-> row.parent, seen |-> {}]]
  /\ UNCHANGED <<tree, gone, copy, published, secure, overlap>>

\* Mutant: only the new parent itself is compared.
Climb_Once(save) == Top

\* The ancestor the walk goes to next.
Climb(save) == tree[save.at].parent

\* preventSelfReferentialCycle: one ancestor more, a refusal, or the end; it
\* ends too on a loop above that does not contain the menu.
Walk(s) ==
  LET save == menuSaves[s] IN
  /\ save.stage = "walk"
  /\ menuSaves' = [menuSaves EXCEPT ![s] =
       IF save.at = save.menu \/ save.at \in gone THEN [stage |-> "done"]
       ELSE IF save.at = Top \/ save.at \in save.seen THEN [save EXCEPT !.stage = "write"]
       ELSE [save EXCEPT !.at = Climb(save), !.seen = @ \cup {save.at}]]
  /\ UNCHANGED <<tree, gone, copy, published, secure, overlap>>

Walking(save) == save.stage \in {"walk", "write"}

\* The update; the parent's foreign key refuses one that is gone.
WriteMenu(s) ==
  LET save == menuSaves[s] IN
  /\ save.stage = "write"
  /\ IF save.menu \in gone \/ save.row.parent \in gone
       THEN UNCHANGED <<tree, overlap>>
       ELSE /\ tree' = [tree EXCEPT ![save.menu] = save.row]
            /\ overlap' = (overlap \/ \E t \in MenuSaves \ {s} : Walking(menuSaves[t]))
  /\ menuSaves' = [menuSaves EXCEPT ![s] = [stage |-> "done"]]
  /\ UNCHANGED <<gone, copy, published, secure>>

\* The foreign key of a deleted parent is set null: its children come up.
Orphaned(m) ==
  [c \in Menus |-> IF tree[c].parent = m THEN [tree[c] EXCEPT !.parent = Top] ELSE tree[c]]

DeleteMenu(m) ==
  /\ m \notin gone /\ Cardinality(gone) < MaxGone
  /\ gone' = gone \cup {m}
  /\ tree' = Orphaned(m)
  /\ overlap' = (overlap \/ \E s \in MenuSaves : Walking(menuSaves[s]))
  /\ UNCHANGED <<menuSaves, copy, published, secure>>

\* The contents and the board change on their own.
EditContent(m) ==
  /\ MenuKind[m] = "content"
  /\ published' = IF m \in published THEN published \ {m} ELSE published \cup {m}
  /\ UNCHANGED <<tree, gone, menuSaves, copy, secure, overlap>>

ReclassBoard ==
  /\ secure' = ~secure
  /\ UNCHANGED <<tree, gone, menuSaves, copy, published, overlap>>

-----------------------------------------------------------------------------
(* What a visitor sees.  t: the cached rows, in: signed in as a member.    *)

\* getActiveSiteMenus: the copy is taken anew now and then.
CopyMenus ==
  /\ copy' = [rows |-> tree, of |-> Menus \ gone]
  /\ UNCHANGED <<tree, gone, menuSaves, published, secure, overlap>>

\* isMenuVisible
ShownTo(row, in) ==
  \/ row.shown = "always"
  \/ row.shown = "loggedIn" /\ in
  \/ row.shown = "loggedOut" /\ ~in

\* The n-th ancestor of a menu, Top above the last.
Ancestor(c, m) ==
  LET up[n \in 0..Cardinality(Menus)] ==
        IF n = 0 THEN m
        ELSE LET last == up[n - 1] IN IF last \in c.of THEN c.rows[last].parent ELSE Top
  IN up

Lineage(c, m) ==
  LET up == Ancestor(c, m) IN {up[n] : n \in 0..Cardinality(Menus)} \cap c.of

\* A menu on or below a loop.
Endless(c, m) == Ancestor(c, m)[Cardinality(Menus)] \in c.of

\* Mutant: a menu is shown by its own exposure alone.
InNav_Own(c, m, in) == ShownTo(c.rows[m], in)

\* computeVisible: the menu and all above it are shown, and they end.
InNav(c, m, in) == ~Endless(c, m) /\ \A a \in Lineage(c, m) : ShownTo(c.rows[a], in)

\* buildNav, visibleMenuIds
Nav(c, in) == {m \in c.of : InNav(c, m, in)}

\* resolveContentPage: the menu's row and its content as they are now.
FreshPage(m) ==
  /\ MenuKind[m] = "content" /\ m \notin gone /\ tree[m].shown # "off"
  /\ m \in published

\* resolveVisibleContentPage
PageOpens(m, in) == FreshPage(m) /\ m \in Nav(copy, in)

Owners(c) == {m \in c.of : MenuKind[m] = "board"}

\* resolveVisibleBoard: a board no menu opens is open.
BoardOpens(in) ==
  /\ ~secure
  /\ Owners(copy) = {} \/ Owners(copy) \cap Nav(copy, in) # {}

\* buildBreadcrumb as the content page filters it.
PageTrail(m, in) == Lineage(copy, m) \cap (Nav(copy, in) \cup {m})

\* HomePage: the newest posts of the first board the navigation opens.
HomeShowsBoard(in) == Owners(copy) \cap Nav(copy, in) # {} /\ BoardOpens(in)

\* LeftNav: the section of the navigation a menu belongs to.
SideMenu(m, in) ==
  LET nav == Nav(copy, in)
  IN  {n \in nav : m \in nav /\ Lineage(copy, n) \cap Lineage(copy, m) # {}}

-----------------------------------------------------------------------------
NavInit ==
  /\ tree = [m \in Menus |-> [parent |-> Top, shown |-> "always"]]
  /\ gone = {}
  /\ menuSaves = [s \in MenuSaves |-> IdleSave]
  /\ copy = [rows |-> tree, of |-> Menus]
  /\ published = {}
  /\ secure = FALSE
  /\ overlap = FALSE

NavNext ==
  \/ \E s \in MenuSaves : BeginMenuSave(s) \/ Walk(s) \/ WriteMenu(s)
  \/ \E m \in Menus : DeleteMenu(m) \/ EditContent(m)
  \/ ReclassBoard
  \/ CopyMenus

NavSpec == NavInit /\ [][NavNext]_navVars

-----------------------------------------------------------------------------
(* Properties.                                                             *)

\* Rows and copy have their shape; the parent of a menu exists (the foreign
\* key menus.parent_id), now and in every copy.
NavTypeOK ==
  /\ tree \in [Menus -> MenuRow]
  /\ \A m \in Menus \ gone : tree[m].parent \notin gone
  /\ \A m \in copy.of : copy.rows[m].parent \in copy.of \cup {Top}

\* collections/utils.ts: as long as no menu is written while another save
\* walks the ancestors, no menu is its own ancestor, whatever the saves did.
LoopsOnlyByOverlap ==
  ~overlap => \A m \in Menus \ gone : ~Endless([rows |-> tree, of |-> Menus \ gone], m)

\* site/nav.ts: navigation, sitemap and side menu are built from a set of
\* menus that holds the parent of each of its members, so that no entry is
\* lost or shown under a hidden one, and no loop is ever entered; likewise the
\* breadcrumb of every page that opens leads up through entries of its side menu.
NavIsClosed ==
  \A in \in BOOLEAN :
    LET nav == Nav(copy, in) IN
      /\ \A m \in nav : copy.rows[m].parent \in nav \cup {Top}
      /\ \A m \in Menus : PageOpens(m, in) => PageTrail(m, in) \subseteq SideMenu(m, in)

\* site/data.ts: a content page that is switched off, deleted or withdrawn is
\* refused at once, although the navigation still shows its copy.
OffIsImmediate ==
  \A m \in Menus, in \in BOOLEAN :
    PageOpens(m, in) => m \notin gone /\ tree[m].shown # "off" /\ m \in published

\* site/board.ts: a board of the security-document class opens to nobody, and
\* neither does the home page show its posts, whatever menus open it.
SecureBoardStaysShut ==
  secure => \A in \in BOOLEAN : ~BoardOpens(in) /\ ~HomeShowsBoard(in)

\* The navigation may be old but never does harm: it is closed under parents in
\* every copy, and what was switched off or classified is refused at once.
StaleNavIsHarmless == NavTypeOK /\ NavIsClosed /\ OffIsImmediate /\ SecureBoardStaysShut
=============================================================================
