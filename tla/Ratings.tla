------------------------------- MODULE Ratings -------------------------------
(***************************************************************************)
(* Satisfaction ratings of pages (site/satisfaction.ts,                    *)
(* app/(frontend)/_components/satisfactionActions.ts).                     *)
(*                                                                         *)
(* A submit looks for an earlier rating of the page by the same person and *)
(* inserts; no index backs the look-up.  A member is known by the id, a    *)
(* guest by a hash of an address the proxies vouch for, or not at all.     *)
(***************************************************************************)
EXTENDS Naturals, FiniteSets

CONSTANTS
  Members,    \* members of the site
  Raters,     \* what the address of a guest hashes to
  Spellings,  \* page keys as forms send them
  Canonical,  \* normalizePath of each
  Submits,    \* submits, each made once
  Nobody      \* no member, or no address to hash

ASSUME RatingAssumption ==
  /\ Canonical \in [Spellings -> Spellings] /\ \A k \in Spellings : Canonical[Canonical[k]] = Canonical[k]
  /\ IsFiniteSet(Submits) /\ Nobody \notin Members \cup Raters
  /\ Members \cap Raters = {}  \* "m:" and "ip:" keep the hashes apart

VARIABLES
  rated,     \* the ratings, by the submit that made them
  rating,    \* submits under way
  enabled,   \* sites.satisfactionEnabled
  present,   \* members that exist
  raced      \* history: pairs of submits that were under way together

ratingVars == <<rated, rating, enabled, present, raced>>

Made == {s \in Submits : rated[s] # <<>>}

\* computeRatingHash: of a member the id goes in, of a guest the address.
Hashed(who, address) == IF who # Nobody THEN who ELSE address

\* Mutant: the page key is compared as the form sends it.
PageKey_Raw(sent) == sent

PageKey(sent) == Canonical[sent]

\* The earlier rating the look-up finds; without member and hash none is looked
\* for.
Earlier(who, address, page) ==
  {s \in Made : /\ rated[s].page = page
                /\ IF who # Nobody THEN rated[s].member = who
                   ELSE address # Nobody /\ rated[s].hash = address}

\* submitSatisfactionRating up to the look-up.
SubmitRating(s) ==
  /\ rating[s].stage = "new"
  /\ \E who \in present \cup {Nobody}, address \in Raters \cup {Nobody}, sent \in Spellings :
       LET asked == [page |-> PageKey(sent), spelt |-> sent, member |-> who,
                     hash |-> Hashed(who, address)]
       IN rating' = [rating EXCEPT ![s] =
            [stage |-> IF ~enabled \/ Earlier(who, address, asked.page) # {} THEN "refused" ELSE "insert",
             asked |-> asked]]
  /\ raced' = raced \cup {{s, t} : t \in {u \in Submits : rating[u].stage = "insert"}}
  /\ UNCHANGED <<rated, enabled, present>>

\* The create; the foreign key refuses a member who is gone.
InsertRating(s) ==
  /\ rating[s].stage = "insert"
  /\ rated' = [rated EXCEPT ![s] = IF rating[s].asked.member \in present \cup {Nobody}
                                   THEN rating[s].asked ELSE <<>>]
  /\ rating' = [rating EXCEPT ![s] = [stage |-> "done"]]
  /\ UNCHANGED <<enabled, present, raced>>

\* The foreign key empties the member of the rating.
Kept(r, m) == IF r # <<>> /\ r.member = m THEN [r EXCEPT !.member = Nobody] ELSE r

MemberGoes(m) ==
  /\ m \in present
  /\ present' = present \ {m}
  /\ rated' = [s \in Submits |-> Kept(rated[s], m)]
  /\ UNCHANGED <<rating, enabled, raced>>

SwitchRatings == enabled' = ~enabled /\ UNCHANGED <<rated, rating, present, raced>>

RatingInit ==
  /\ rated = [s \in Submits |-> <<>>]
  /\ rating = [s \in Submits |-> [stage |-> "new"]]
  /\ enabled = TRUE /\ present = Members /\ raced = {}

RatingNext ==
  \/ \E s \in Submits : SubmitRating(s) \/ InsertRating(s)
  \/ \E m \in Members : MemberGoes(m)
  \/ SwitchRatings

RatingSpec == RatingInit /\ [][RatingNext]_ratingVars

-----------------------------------------------------------------------------
(* Properties.                                                             *)

Submitted ==
  [page: Spellings, spelt: Spellings, member: Members \cup {Nobody},
   hash: Members \cup Raters \cup {Nobody}]

\* The ratings have their shape; only a member who exists is named.
RatingTypeOK ==
  /\ rated \in [Submits -> Submitted \cup {<<>>}]
  /\ \A s \in Made : rated[s].member \in present \cup {Nobody}
  /\ enabled \in BOOLEAN /\ present \subseteq Members

\* site/satisfaction.ts ("one-per-participant"): one person, known by the hash,
\* has two ratings of a page, however its key was spelt, only if the submits
\* were under way together.
OneRatingUnlessRaced ==
  \A s, t \in Made :
    /\ s # t /\ Canonical[rated[s].spelt] = Canonical[rated[t].spelt]
    /\ rated[s].hash = rated[t].hash /\ rated[s].hash # Nobody
    => {s, t} \in raced

\* The average of a page counts every rating that was recorded, those of
\* members who left as well: none is withdrawn or moved to another page.
RatingsOutliveMembers ==
  [][\A s \in Made : rated'[s] # <<>> /\ rated'[s].page = rated[s].page]_ratingVars

\* Ratings are one a person and page, unless raced, and stay recorded.
RatingsAreFair == [](RatingTypeOK /\ OneRatingUnlessRaced) /\ RatingsOutliveMembers
=============================================================================
