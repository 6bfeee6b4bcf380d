------------------------------- MODULE Display -------------------------------
(***************************************************************************)
(* Banners, notification areas and popups (collections/display,            *)
(* content/display.ts, site/rsc.ts, site/data.ts, and the components that  *)
(* render them), with the popups a visitor closed (PopupLayer.tsx).        *)
(*                                                                         *)
(* The rows a page is built from are a copy the framework keeps; whether a *)
(* row is live is decided when the page is rendered.  A closed popup stays *)
(* away from the tab until it is loaded anew, and from every tab of the    *)
(* browser for a day when the popup says so and the storage takes it.      *)
(***************************************************************************)
EXTENDS Naturals, FiniteSets

CONSTANTS
  Items,     \* popups, banners, areas of the site
  Windows,   \* exposure windows an editor may enter, pairs of hours
  Tabs,      \* tabs of one browser
  Day,       \* DISMISS_TTL_MS, in hours of the model
  LastHour   \* bound of the exploration: the clock stops here

ASSUME DisplayAssumption == Day \in Nat \ {0} /\ LastHour \in Nat /\ Windows \subseteq Nat \X Nat

VARIABLES
  items,     \* the rows; <<>> is none
  held,      \* the copy pages are built from
  hour,      \* the clock
  page,      \* what each tab shows: the popups of its page, and when it was built
  until,     \* local storage: when the popup may be shown again; 0 is no entry
  shutIn,    \* sessionClosed of each tab
  edited,    \* history: items edited since the copy was taken
  closedAt   \* history: when a popup was closed for a day; LastHour + 1 is never

displayVars == <<items, held, hour, page, until, shutIn, edited, closedAt>>

Item == [active: BOOLEAN, window: Windows, closeForDay: BOOLEAN]

\* isLive: the bounds are inclusive.
InWindow(row) == row # <<>> /\ row.active /\ hour \in row.window[1]..row.window[2]

\* An editor saves or deletes a row.
PutItem(i) ==
  /\ \E row \in Item \cup {<<>>} : items' = [items EXCEPT ![i] = row]
  /\ edited' = edited \cup {i}
  /\ UNCHANGED <<held, hour, page, until, shutIn, closedAt>>

\* Mutant: only live rows go into the copy.
Copied_Live == [i \in Items |-> IF InWindow(items[i]) THEN items[i] ELSE <<>>]

\* getBanners, getNotificationAreas, getPopups: every row of the site.
Copied == items

\* The framework renews the copy.
CopyItems ==
  /\ held' = Copied /\ edited' = {}
  /\ UNCHANGED <<items, hour, page, until, shutIn, closedAt>>

HourPasses ==
  /\ hour < LastHour /\ hour' = hour + 1
  /\ UNCHANGED <<items, held, page, until, shutIn, edited, closedAt>>

\* getActiveBanners, getActiveNotificationAreas, getActivePopups
Active == {i \in Items : InWindow(held[i])}

\* A tab loads a page (FrontendLayout): the session's closings are forgotten.
LoadPage(t) ==
  /\ page' = [page EXCEPT ![t] = [popups |-> Active, forDay |-> {i \in Active : held[i].closeForDay}]]
  /\ shutIn' = [shutIn EXCEPT ![t] = {}]
  /\ UNCHANGED <<items, held, hour, until, edited, closedAt>>

\* A tab follows a link: the layout is rendered again, the session stays.
FollowLink(t) ==
  /\ page' = [page EXCEPT ![t] = [popups |-> Active, forDay |-> {i \in Active : held[i].closeForDay}]]
  /\ UNCHANGED <<items, held, hour, until, shutIn, edited, closedAt>>

\* getSnapshot: the popups a tab shows.
Visible(t) == {i \in page[t].popups : i \notin shutIn[t] /\ hour >= until[i]}

Until == hour + Day

\* close, by the button or by Escape; stores: the browser's storage works.
ClosePopup(t, i, stores) ==
  /\ i \in Visible(t)
  /\ shutIn' = [shutIn EXCEPT ![t] = @ \cup {i}]
  /\ IF i \in page[t].forDay /\ stores
       THEN until' = [until EXCEPT ![i] = Until] /\ closedAt' = [closedAt EXCEPT ![i] = hour]
       ELSE UNCHANGED <<until, closedAt>>
  /\ UNCHANGED <<items, held, hour, page, edited>>

DisplayInit ==
  /\ items = [i \in Items |-> <<>>] /\ held = items
  /\ hour = 0
  /\ page = [t \in Tabs |-> [popups |-> {}, forDay |-> {}]]
  /\ until = [i \in Items |-> 0]
  /\ shutIn = [t \in Tabs |-> {}]
  /\ edited = {}
  /\ closedAt = [i \in Items |-> LastHour + 1]

DisplayNext ==
  \/ \E i \in Items : PutItem(i)
  \/ CopyItems
  \/ HourPasses
  \/ \E t \in Tabs : LoadPage(t) \/ FollowLink(t)
  \/ \E t \in Tabs, i \in Items, stores \in BOOLEAN : ClosePopup(t, i, stores)

DisplaySpec == DisplayInit /\ [][DisplayNext]_displayVars

-----------------------------------------------------------------------------
(* Properties.                                                             *)

\* site/rsc.ts ("an exposure window is always correct even between cache
\* revalidations"): however old the copy is, a row nobody edited since is shown
\* exactly while its window is open.
ShownExactlyInWindow == \A i \in Items \ edited : i \in Active <=> InWindow(items[i])

\* PopupLayer.tsx: a popup closed for a day stays away from every tab of the
\* browser for a day, counted from the closing, and not an hour longer from a
\* tab that is loaded anew.
ClosedForOneDay ==
  \A i \in Items :
    /\ closedAt[i] <= LastHour /\ hour < closedAt[i] + Day => \A t \in Tabs : i \notin Visible(t)
    /\ closedAt[i] > LastHour \/ hour >= closedAt[i] + Day =>
         \A t \in Tabs : i \in page[t].popups \ shutIn[t] => i \in Visible(t)

\* A display item is seen when it is due: inside its window, whatever the age of
\* the copy, and again a day after the visitor closed it.
ShownWhenDue == ShownExactlyInWindow /\ ClosedForOneDay
=============================================================================
