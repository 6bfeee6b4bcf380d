------------------------------ MODULE ShortLinks ------------------------------
(***************************************************************************)
(* Short links: codes drawn at random and the redirect that counts its     *)
(* hits (collections/ShortUrls.ts, endpoints/shortUrlRedirect.ts).         *)
(***************************************************************************)
EXTENDS Naturals, FiniteSets

CONSTANTS
  Codes,    \* codes a draw may give
  Links,    \* rows, each created once
  Urls,     \* destinations an editor may enter
  Hitters,  \* requests to /s/:code
  Draws     \* MAX_CODE_ATTEMPTS

ASSUME LinksAssumption == IsFiniteSet(Codes) /\ Draws \in Nat \ {0}

VARIABLES
  links,    \* rows: stage, code, url, hits, draws made
  hitters,  \* requests and the updates they become
  meant,    \* history: the url the last editor of a row meant
  counted,  \* history: hits whose update was written
  crossedLinks  \* history: rows written back over a newer version

linkVars == <<links, hitters, meant, counted, crossedLinks>>

LiveLinks == {l \in Links : links[l].stage = "live"}
CodesInUse == {links[l].code : l \in LiveLinks}
Version(l) == [url |-> links[l].url, hits |-> links[l].hits]

\* assignShortCode: a draw, then up to Draws look-ups, each followed by
\* another draw when the code is taken; the last draw is not looked up.
DrawCode(l, code) ==
  /\ links[l].stage = "drawing"
  /\ links' = [links EXCEPT ![l] =
       [@ EXCEPT !.code = code, !.draws = links[l].draws + 1,
                 !.stage = IF links[l].draws < Draws THEN "look" ELSE "insert"]]
  /\ UNCHANGED <<hitters, meant, counted, crossedLinks>>

LookUpCode(l) ==
  /\ links[l].stage = "look"
  /\ links' = [links EXCEPT ![l].stage = IF links[l].code \in CodesInUse THEN "drawing" ELSE "insert"]
  /\ UNCHANGED <<hitters, meant, counted, crossedLinks>>

\* The unique index.
CodeFree(code) == code \notin CodesInUse

InsertLink(l) ==
  /\ links[l].stage = "insert"
  /\ links' = [links EXCEPT ![l].stage = IF CodeFree(links[l].code) THEN "live" ELSE "failed"]
  /\ UNCHANGED <<hitters, meant, counted, crossedLinks>>

\* An editor's update: read, merge, write in one go.
EditLink(l, url) ==
  /\ l \in LiveLinks
  /\ links' = [links EXCEPT ![l].url = url]
  /\ meant' = [meant EXCEPT ![l] = url]
  /\ UNCHANGED <<hitters, counted, crossedLinks>>

IdleHit == [stage |-> "idle"]

\* The look-up by code; the destination is checked and remembered.
FindLink(h) ==
  /\ hitters[h].stage = "idle"
  /\ \E l \in LiveLinks :
       hitters' = [hitters EXCEPT ![h] =
                     [stage |-> "found", link |-> l, target |-> links[l].url,
                      hits |-> links[l].hits, base |-> Version(l)]]
  /\ UNCHANGED <<links, meant, counted, crossedLinks>>

\* payload.update reads the row it merges into.
ReadLink(h) ==
  /\ hitters[h].stage = "found"
  /\ hitters' = [hitters EXCEPT ![h].stage = "read", ![h].base = Version(hitters[h].link)]
  /\ UNCHANGED <<links, meant, counted, crossedLinks>>

\* Mutant: the update names the destination that was looked up.
Restored_Found(hit) == hit.target

\* The update names the counter alone; the destination is the merged one.
Restored(hit) == hit.base.url

\* The counter is the one of the look-up plus one; a failure is swallowed, and
\* the visitor is sent on either way.
WriteHit(h) ==
  LET hit == hitters[h] IN
  /\ hit.stage = "read"
  /\ hitters' = [hitters EXCEPT ![h] = [stage |-> "sent", link |-> hit.link, target |-> hit.target]]
  /\ \/ /\ links' = [links EXCEPT ![hit.link].url = Restored(hit), ![hit.link].hits = hit.hits + 1]
        /\ counted' = [counted EXCEPT ![hit.link] = @ + 1]
        /\ crossedLinks' = (crossedLinks \/ Version(hit.link) # hit.base \/ hit.hits # links[hit.link].hits)
     \/ UNCHANGED <<links, counted, crossedLinks>>
  /\ UNCHANGED meant

LinksInit ==
  /\ \E url \in Urls :
       /\ links = [l \in Links |-> [stage |-> "drawing", code |-> 0, url |-> url, hits |-> 0,
                                    draws |-> 0]]
       /\ meant = [l \in Links |-> url]
  /\ hitters = [h \in Hitters |-> IdleHit]
  /\ counted = [l \in Links |-> 0]
  /\ crossedLinks = FALSE

LinksNext ==
  \/ \E l \in Links :
       \/ \E code \in Codes : DrawCode(l, code)
       \/ LookUpCode(l) \/ InsertLink(l)
       \/ \E url \in Urls : EditLink(l, url)
  \/ \E h \in Hitters : FindLink(h) \/ ReadLink(h) \/ WriteHit(h)

LinksSpec == LinksInit /\ [][LinksNext]_linkVars

\* ShortUrls.ts: a code names one link, although the last draw of a create is
\* never looked up and two creates may draw the same.
CodeNamesOneLink ==
  \A k, l \in LiveLinks : k # l => links[k].code # links[l].code

\* shortUrlRedirect.ts: as long as no update is written over a version newer
\* than the one it read, the counter shows every hit that was written and the
\* destination is the one the last editor entered.
LinksUndisturbed ==
  ~crossedLinks => \A l \in LiveLinks : links[l].hits = counted[l] /\ links[l].url = meant[l]

\* A short link is one link, with the destination and the hits it was given, as long
\* as no whole-row update crossed another.
LinksAreSound == CodeNamesOneLink /\ LinksUndisturbed
=============================================================================
