-------------------------------- MODULE MCSite --------------------------------
(***************************************************************************)
(* The public site on small sets: posts and their files, numbers, popups,  *)
(* guide links, the address gate, short links, ratings and the counting of *)
(* views and requests.  The modules share no state: part   *)
(* says which of them moves while the others rest in one initial state, so *)
(* the run explores the union of their state graphs, each under the        *)
(* initial condition and the next-state relation of its module.            *)
(***************************************************************************)
EXTENDS PostFiles, SerialIds, Display, GuideBars, IpGate, ShortLinks, Ratings,
        ViewDedup, Traffic, RateLimit, TLC

VARIABLE part

PatternsMC == {{a} : a \in Addresses} \cup {Addresses}
WindowsMC == {<<0, 4>>, <<1, 2>>}
CanonicalMC == [k \in Spellings |-> "p1"]

\* Two views of the only day that can age within the calendar.
ViewsADay == [d \in 0..LastDay |-> IF d = 0 THEN 2 ELSE 0]

siteVars == <<filesVars, serialVars, displayVars, guideVars, gateVars,
              linkVars, ratingVars, dedupVars, trafficVars, vars>>

\* What a part that does not move starts with, where its module has a choice.
Resting ==
  /\ part # "links" => \A l \in Links : meant[l] = CHOOSE url \in Urls : TRUE

SiteInit ==
  /\ part \in {"files", "serials", "display", "guides", "gate", "links",
               "ratings", "dedup", "traffic", "limit"}
  /\ FilesInit /\ SerialInit /\ DisplayInit /\ GuideInit /\ GateInit
  /\ LinksInit /\ RatingInit /\ DedupInit /\ TrafficInit /\ Init /\ Resting

\* Part p moves and every other rests.
Only(p) ==
  /\ part = p /\ UNCHANGED part
  /\ p # "files" => UNCHANGED filesVars
  /\ p # "serials" => UNCHANGED serialVars
  /\ p # "display" => UNCHANGED displayVars
  /\ p # "guides" => UNCHANGED guideVars
  /\ p # "gate" => UNCHANGED gateVars
  /\ p # "links" => UNCHANGED linkVars
  /\ p # "ratings" => UNCHANGED ratingVars
  /\ p # "dedup" => UNCHANGED dedupVars
  /\ p # "traffic" => UNCHANGED trafficVars
  /\ p # "limit" => UNCHANGED vars

SiteNext ==
  \/ Only("files") /\ FilesNext
  \/ Only("serials") /\ SerialNext
  \/ Only("display") /\ DisplayNext
  \/ Only("guides") /\ GuideNext
  \/ Only("gate") /\ GateNext
  \/ Only("links") /\ LinksNext
  \/ Only("ratings") /\ RatingNext
  \/ Only("dedup") /\ DedupNext
  \/ Only("traffic") /\ TrafficNext
  \/ Only("limit") /\ Next

SiteSpec == SiteInit /\ [][SiteNext]_<<part, siteVars>>

\* One pair of model values stands for the interchangeable ids of every part.
Symmetry == Permutations(Keys)
=============================================================================
