------------------------------ MODULE GuideBars ------------------------------
(***************************************************************************)
(* The top and bottom link bars of a site (collections/display/GuideMenus, *)
(* orderedGuideMenus in site/nav.ts): a save of a top link counts the      *)
(* other top links first, and no constraint of the database backs it.      *)
(***************************************************************************)
EXTENDS Naturals, FiniteSets

CONSTANTS
  Guides,      \* links an administrator may make
  GuideSaves,  \* saves in flight
  MaxTop       \* MAX_TOP_GUIDE_MENUS

ASSUME GuideAssumption == IsFiniteSet(Guides) /\ MaxTop \in Nat

VARIABLES
  guides,      \* the links: none, or position and active
  guideSaves,  \* saves: idle, or counted and about to be written
  sideBySide   \* history: a save was written while another had counted

guideVars == <<guides, guideSaves, sideBySide>>

Guide == [position: {"top", "bottom"}, active: BOOLEAN]
Idle == [stage |-> "idle"]

\* Mutant: links that are switched off are not counted.
OtherTops_Active(g) == {h \in Guides \ {g} : guides[h] # <<>> /\ guides[h].position = "top" /\ guides[h].active}

OtherTops(g) == {h \in Guides \ {g} : guides[h] # <<>> /\ guides[h].position = "top"}

\* enforceMaxTopGuideMenus: the count of a create or an update.
CountTops(s) ==
  /\ guideSaves[s] = Idle
  /\ \E g \in Guides, row \in Guide :
       /\ row.position = "top" => Cardinality(OtherTops(g)) < MaxTop
       /\ guideSaves' = [guideSaves EXCEPT ![s] = [stage |-> "counted", guide |-> g, row |-> row]]
  /\ UNCHANGED <<guides, sideBySide>>

WriteGuide(s) ==
  /\ guideSaves[s].stage = "counted"
  /\ guides' = [guides EXCEPT ![guideSaves[s].guide] = guideSaves[s].row]
  /\ guideSaves' = [guideSaves EXCEPT ![s] = Idle]
  /\ sideBySide' = (sideBySide \/ \E t \in GuideSaves \ {s} : guideSaves[t].stage = "counted")

DropGuide(g) ==
  /\ guides[g] # <<>>
  /\ guides' = [guides EXCEPT ![g] = <<>>]
  /\ UNCHANGED <<guideSaves, sideBySide>>

GuideInit ==
  /\ guides = [g \in Guides |-> <<>>]
  /\ guideSaves = [s \in GuideSaves |-> Idle]
  /\ sideBySide = FALSE

GuideNext ==
  \/ \E s \in GuideSaves : CountTops(s) \/ WriteGuide(s)
  \/ \E g \in Guides : DropGuide(g)

GuideSpec == GuideInit /\ [][GuideNext]_guideVars

\* orderedGuideMenus
Bar(position) == {g \in Guides : guides[g] # <<>> /\ guides[g].position = position /\ guides[g].active}

\* GuideMenus.ts ("at most 5 top guide menus"): the top bar is never fuller than
\* the limit, whatever is moved up or switched on, unless two saves counted side
\* by side; switching a link on needs no room.
TopBarOverfullOnlyByRace ==
  ~sideBySide => /\ Cardinality(Bar("top")) <= MaxTop
                 /\ \A g \in Guides : guides[g] # <<>> /\ guides[g].position = "top" =>
                      Cardinality(OtherTops(g)) < MaxTop
=============================================================================
