------------------------------ MODULE Reports ------------------------------
(***************************************************************************)
(* The read-only screens of the back-office: statistics views and their    *)
(* CSV exports (src/components/statistics, src/components/standardization, *)
(* src/site/*Data.ts, src/endpoints/*Export.ts), the dashboard widgets and *)
(* the exports of one document.                                            *)
(*                                                                         *)
(* A view passes the menu gate, offers the sites its caller holds, picks   *)
(* one and loads that site's rows with the access checks switched off; the *)
(* export behind its link decides again, from the parameters of the link.  *)
(* The state is what the decisions depend on: the caller, the rows, and    *)
(* the screen that is looked at.  Both are edited freely by others.        *)
(***************************************************************************)
EXTENDS Naturals, FiniteSets, FiniteSetsExt

CONSTANTS
  Tenants,     \* tenants, numbered in the order of their names
  Tags,      \* values of the filter a screen offers (day, menu, source, ...)
  MaxRows,   \* rows at most; the newest has the largest number
  PageSize,  \* rows one page of a paged screen shows
  FileSize,  \* rows a bounded file takes
  All, Odd, NoSite, NotFound, Absent

ASSUME ReportsAssumption ==
  /\ Tenants \subseteq Nat /\ Tenants # {} /\ IsFiniteSet(Tenants)
  /\ MaxRows \in Nat /\ PageSize \in Nat \ {0} /\ FileSize \in Nat
  /\ All \notin Tags /\ Odd \notin Tags /\ All # Odd /\ NoSite \notin Tenants

VARIABLES
  screen,  \* the screen looked at
  viewer,  \* the caller: super, gate grant, assigned sites, 2FA confinement
  rows     \* the rows of the collection the screen reads, by number

reportVars == <<screen, viewer, rows>>

Numbers == 1..MaxRows

\* A row: its site, whether it is of the security-document class, its tag.
Row == [n: Numbers, site: Tenants, secret: BOOLEAN, tag: Tags]

Viewers == [super: BOOLEAN, granted: BOOLEAN, sites: SUBSET Tenants, confined: BOOLEAN]

-----------------------------------------------------------------------------
(* The screens.  sited: the rows belong to one site, picked from those of  *)
(* the caller.  odd: a filter value that is malformed or unknown is        *)
(* dropped by the view ("dropped"), or kept and matches no row ("kept");   *)
(* "none" takes no filter.  part: the view shows a page of what it loads.  *)

TrafficView       == [sited |-> TRUE,  odd |-> "dropped", part |-> FALSE]
SatisfactionView  == [sited |-> TRUE,  odd |-> "dropped", part |-> FALSE]
DownloadView      == [sited |-> TRUE,  odd |-> "none",    part |-> FALSE]
AccessibilityView == [sited |-> TRUE,  odd |-> "none",    part |-> FALSE]
DiagnosisView     == [sited |-> TRUE,  odd |-> "dropped", part |-> FALSE]
ErrorView         == [sited |-> FALSE, odd |-> "dropped", part |-> FALSE]
AccessHistoryView == [sited |-> FALSE, odd |-> "dropped", part |-> TRUE]
CodeSpecView      == [sited |-> FALSE, odd |-> "dropped", part |-> FALSE]
MetaView          == [sited |-> FALSE, odd |-> "dropped", part |-> TRUE]
CheckStatsView    == [sited |-> FALSE, odd |-> "kept",    part |-> FALSE]
SelfCheckView     == [sited |-> FALSE, odd |-> "kept",    part |-> FALSE]
TableView         == [sited |-> FALSE, odd |-> "kept",    part |-> FALSE]
OrgChartView      == [sited |-> FALSE, odd |-> "none",    part |-> FALSE]
PolicyView        == [sited |-> FALSE, odd |-> "none",    part |-> FALSE]

(* The exports.  own: how a sited export keeps to its caller: it reads     *)
(* under the caller's access, or answers an empty file for a site the      *)
(* caller does not hold.  odd: as above, or the request is refused.        *)
(* bounded: the file takes the newest rows only.                           *)

TrafficExport       == [own |-> "caller",   odd |-> "refused", bounded |-> FALSE]
SatisfactionExport  == [own |-> "assigned", odd |-> "kept",    bounded |-> FALSE]
DownloadExport      == [own |-> "assigned", odd |-> "none",    bounded |-> FALSE]
AccessibilityExport == [own |-> "assigned", odd |-> "none",    bounded |-> FALSE]
DiagnosisExport     == [own |-> "assigned", odd |-> "dropped", bounded |-> FALSE]
ErrorExport         == [own |-> "any",      odd |-> "refused", bounded |-> FALSE]
AccessHistoryExport == [own |-> "any",      odd |-> "dropped", bounded |-> TRUE]
CodeSpecExport      == [own |-> "any",      odd |-> "dropped", bounded |-> FALSE]
MetaExport          == [own |-> "any",      odd |-> "dropped", bounded |-> FALSE]
CheckStatsExport    == [own |-> "any",      odd |-> "kept",    bounded |-> FALSE]
SelfCheckExport     == [own |-> "any",      odd |-> "kept",    bounded |-> FALSE]
TableExport         == [own |-> "any",      odd |-> "kept",    bounded |-> FALSE]

Exports ==
  [traffic |-> TrafficExport, satisfaction |-> SatisfactionExport,
   downloads |-> DownloadExport, accessibility |-> AccessibilityExport,
   diagnosis |-> DiagnosisExport, errors |-> ErrorExport,
   accessHistory |-> AccessHistoryExport, codeSpec |-> CodeSpecExport,
   meta |-> MetaExport, checkStats |-> CheckStatsExport,
   selfCheck |-> SelfCheckExport, tables |-> TableExport]

Views ==
  [traffic |-> TrafficView, satisfaction |-> SatisfactionView,
   downloads |-> DownloadView, accessibility |-> AccessibilityView,
   diagnosis |-> DiagnosisView, errors |-> ErrorView,
   accessHistory |-> AccessHistoryView, codeSpec |-> CodeSpecView,
   meta |-> MetaView, checkStats |-> CheckStatsView,
   selfCheck |-> SelfCheckView, tables |-> TableView,
   orgChart |-> OrgChartView, policies |-> PolicyView]

\* The widgets of the dashboard that show rows, and the exports of one document.
Widgets == {"trafficWidget", "postsWidget", "noticesWidget", "notificationsWidget",
            "bannersWidget", "errorsWidget", "membersCard"}
Documents == {"boardExport", "surveyExport", "surveyResults", "contentDiff"}

Screens == DOMAIN Views \cup Widgets \cup Documents

\* Whether the rows of a screen belong to sites.
IsSited(s) == IF s \in DOMAIN Views THEN Views[s].sited ELSE s # "errorsWidget"

-----------------------------------------------------------------------------
(* What a request asks and what it is answered.                            *)

Filters == Tags \cup {All, Odd}

\* ?site=, the filter and the page, as a query string can carry them.
Asked == [site: Tenants \cup {NoSite}, filter: Filters, page: 1..MaxRows]

Refused(why) == [kind |-> why, rows |-> {}]
Shown(d) == [kind |-> "ok", rows |-> d]

\* hasMenuAccess: denied to the confined, else super or the grant.
Gate(v) == ~v.confined /\ (v.super \/ v.granted)

\* What a filter lets through, given what becomes of an odd value.
Through(f, odd, d) ==
  IF odd = "none" \/ f = All \/ (f = Odd /\ odd = "dropped") THEN d
  ELSE {w \in d : w.tag = f}

OfSite(d, s) == {w \in d : w.site = s}

\* The k-th page, and the newest rows up to a bound.
Rank(d, w) == Cardinality({x \in d : x.n >= w.n})
PageOf(d, k) == {w \in d : Rank(d, w) \in ((k - 1) * PageSize + 1)..(k * PageSize)}
NewestOf(d, most) == {w \in d : Rank(d, w) <= most}

\* The load of each screen, before site and filter.  Download rows and the
\* post widgets leave out the security-document class.
Loaded(s, d) ==
  IF s \in {"downloads", "postsWidget"} THEN {w \in d : ~w.secret} ELSE d

-----------------------------------------------------------------------------
(* Views.                                                                  *)

\* The sites offered: all to a super user, else the assigned ones.
SiteOptions(v) == IF v.super THEN Tenants ELSE v.sites

\* The requested site if it is offered, else the first by name.
SelectedSite(v, asked) ==
  IF asked \in SiteOptions(v) THEN asked ELSE Min(SiteOptions(v))

\* Mutant: the link repeats the filter as it was asked.
LinkFilter_Raw(s, f) == f

\* The filter the view uses and puts into the link of its export.
LinkFilter(s, f) ==
  IF Views[s].odd = "none" \/ (Views[s].odd = "dropped" /\ f = Odd) THEN All ELSE f

\* Everything a view loads for what it was asked: rows before paging.
ViewRows(s, v, d, a) ==
  LET site == SelectedSite(v, a.site)
      own == IF Views[s].sited THEN OfSite(Loaded(s, d), site) ELSE Loaded(s, d)
  IN  Through(LinkFilter(s, a.filter), Views[s].odd, own)

View(s, v, d, a) ==
  IF ~Gate(v) THEN Refused("denied")
  ELSE IF Views[s].sited /\ SiteOptions(v) = {} THEN Refused("nosite")
  ELSE IF Views[s].part THEN Shown(PageOf(ViewRows(s, v, d, a), a.page))
  ELSE Shown(ViewRows(s, v, d, a))

\* The link a page carries: its own site and filter, no page.
Link(s, v, a) ==
  [site |-> IF Views[s].sited THEN SelectedSite(v, a.site) ELSE NoSite,
   filter |-> LinkFilter(s, a.filter), page |-> 1]

-----------------------------------------------------------------------------
(* Exports.                                                                *)

\* Mutant: an export trusts the site of its query.
OwnRows_AnySite(s, v, site, d) == OfSite(d, site)

\* The rows of the requested site the caller may have: by the caller's access
\* (tenant scope) or by isAssignedToSite.
OwnRows(s, v, site, d) ==
  CASE Exports[s].own = "any" -> d
    [] Exports[s].own = "caller" -> {w \in OfSite(d, site) : v.super \/ w.site \in v.sites}
    [] OTHER -> IF v.super \/ site \in v.sites THEN OfSite(d, site) ELSE {}

Export(s, v, d, a) ==
  LET e == Exports[s]
      own == Through(a.filter, e.odd, OwnRows(s, v, a.site, Loaded(s, d)))
  IN  IF \/ e.own # "any" /\ a.site = NoSite
         \/ e.odd = "refused" /\ a.filter = Odd
      THEN Refused("badRequest")
      ELSE IF ~Gate(v) THEN Refused("denied")
      ELSE IF e.bounded THEN Shown(NewestOf(own, FileSize))
      ELSE Shown(own)

-----------------------------------------------------------------------------
(* The dashboard and the documents.                                        *)

\* ?site, the cookie of the tenant selector, the admin site, the first.
DashboardSite(v, asked, cookie, admin) ==
  LET chosen == IF asked # NoSite THEN asked ELSE cookie
  IN  IF chosen \in SiteOptions(v) THEN chosen
      ELSE IF admin \in SiteOptions(v) THEN admin
      ELSE Min(SiteOptions(v))

\* resolveGrants: a super user holds every widget; anyone else asks the gate.
WidgetVisible(v) == v.super \/ Gate(v)

Widget(s, v, d, a) ==
  IF SiteOptions(v) = {} THEN Refused("nosite")
  ELSE IF ~WidgetVisible(v) THEN Refused("hidden")
  ELSE LET site == DashboardSite(v, a.site, NoSite, Max(Tenants))
       IN  Shown(IF s = "errorsWidget" THEN Loaded(s, d) ELSE OfSite(Loaded(s, d), site))

\* The read access of the document's collection: grant and tenant scope.
Readable(v, w) == Gate(v) /\ (v.super \/ w.site \in v.sites)

\* The row of that number if there is one and its reader may see it.
FindAccessibleDoc(v, d, n) ==
  IF \E w \in d : w.n = n /\ Readable(v, w) THEN CHOOSE w \in d : w.n = n ELSE NotFound

Document(v, d, n) ==
  LET found == FindAccessibleDoc(v, d, n)
  IN  IF found = NotFound THEN Refused("notFound")
      ELSE IF found = Absent THEN Refused("denied")
      ELSE Shown({found})

-----------------------------------------------------------------------------
(* Behaviour: the screen is fixed, callers and rows change.                *)

ReportInit ==
  /\ screen \in Screens
  /\ viewer = [super |-> FALSE, granted |-> FALSE, sites |-> {}, confined |-> FALSE]
  /\ rows = {}

\* Another administrator edits the caller's roles or sites, or a site turns the
\* 2FA requirement on or off.
EditViewer ==
  /\ viewer' \in {v \in Viewers :
       Cardinality({k \in DOMAIN v : v[k] # viewer[k]}) = 1}
  /\ UNCHANGED <<screen, rows>>

NextNumber == Cardinality(rows) + 1

\* A row is written.  Rows of a global collection carry no site and only posts
\* have a class, which their screens ignore anyway.
AddRow(site, secret, tag) ==
  /\ Cardinality(rows) < MaxRows
  /\ secret => screen \in {"downloads", "postsWidget"}
  /\ site # Min(Tenants) => IsSited(screen)
  /\ rows' = rows \cup {[n |-> NextNumber, site |-> site, secret |-> secret, tag |-> tag]}
  /\ UNCHANGED <<screen, viewer>>

\* The newest row is deleted.
DropNewest ==
  /\ rows # {}
  /\ rows' = {w \in rows : w.n < Cardinality(rows)}
  /\ UNCHANGED <<screen, viewer>>

ReportNext ==
  \/ EditViewer
  \/ DropNewest
  \/ \E site \in Tenants, secret \in BOOLEAN, tag \in Tags : AddRow(site, secret, tag)

ReportSpec == ReportInit /\ [][ReportNext]_reportVars

-----------------------------------------------------------------------------
(* Properties.                                                             *)

\* Type invariant of the report screens.
ReportTypeOK == screen \in Screens /\ viewer \in Viewers /\ rows \in SUBSET Row

\* The rows an answer of screen s to viewer v may depend on.
Due(s, v) ==
  {w \in rows :
     /\ IsSited(s) => v.super \/ w.site \in v.sites
     /\ w \in Loaded(s, rows)
     /\ Gate(v) \/ (s \in Widgets /\ v.super)}

\* No screen, export or document tells its caller anything about rows beyond the
\* caller's grant and sites: every answer is the one that would be given if those
\* rows did not exist, whatever is asked.  ("An unassigned site -> empty, never
\* another tenant's rows"; "missing and forbidden collapse to the same 404".)
BlindToTheRest ==
  LET due == Due(screen, viewer)
  IN  \A a \in Asked :
        /\ screen \in DOMAIN Views =>
             View(screen, viewer, rows, a) = View(screen, viewer, due, a)
        /\ screen \in DOMAIN Exports =>
             Export(screen, viewer, rows, a) = Export(screen, viewer, due, a)
        /\ screen \in Widgets =>
             Widget(screen, viewer, rows, a) = Widget(screen, viewer, due, a)
        /\ screen \in Documents =>
             Document(viewer, rows, a.page) = Document(viewer, due, a.page)

\* The file behind a page's link has the rows of the page: all of them for a
\* screen that shows everything it loads, and at least the rows of every page a
\* bounded file reaches ("the SAME source the export endpoints use, so the view
\* and CSV never diverge").  In particular the link of a page is never refused.
LinkAnswersAlike ==
  screen \in DOMAIN Exports =>
    \A a \in Asked :
      LET page == View(screen, viewer, rows, a)
          file == Export(screen, viewer, rows, Link(screen, viewer, a))
      IN  page.kind = "ok" =>
            /\ file.kind = "ok"
            /\ IF ~Views[screen].part THEN file.rows = page.rows
               ELSE a.page * PageSize <= FileSize => page.rows \subseteq file.rows
=============================================================================
