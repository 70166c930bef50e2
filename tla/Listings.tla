------------------------------- MODULE Listings -------------------------------
(* What the importer makes of public data (app/services/opendata.py,         *)
(* scripts/import_reference_data.py): the stops near a property, the areas   *)
(* and their codes, the listings of estate agents and the slugs their pages  *)
(* are addressed by.  Pure operators; each import is one transaction.        *)
(*                                                                           *)
(* Points lie on a line; names are compared as the code compares them, in    *)
(* lower case, and are values here.                                          *)
EXTENDS Integers, Sequences, FiniteSets, FiniteSetsExt, SequencesExt, TLC

CONSTANTS NoName, NoPoint,
          StopSpread,   \* 120 m: two stops of a kind nearer than this are one
          StopsListed,  \* 6: how many a property lists
          LongestSlug   \* 60 characters: in words

Dist(a, b) == IF a < b THEN b - a ELSE a - b

First(s, n) == SubSeq(s, 1, IF Len(s) < n THEN Len(s) ELSE n)

-----------------------------------------------------------------------------
(* transit_near and import_transit                                          *)

Kind(e) ==
  CASE e.amenity = "ferry_terminal" -> "ferry" [] e.railway = "station" -> "rail" [] OTHER -> "bus"

\* Every unnamed stop of a kind gets the same name.
Unnamed(kind) == <<"Unnamed", kind, "stop">>
Stop(p, e) ==
  [kind |-> Kind(e), name |-> IF e.name = NoName THEN Unnamed(Kind(e)) ELSE <<e.name>>,
   at |-> e.at, away |-> Dist(p, e.at)]

Stops(p, elements) ==
  LET placed == SelectSeq(elements, LAMBDA e : e.at # NoPoint)
  IN  [n \in DOMAIN placed |-> Stop(p, placed[n])]

\* The sort is stable.
ByDistance(s) ==
  LET order == SetToSortSeq(DOMAIN s, LAMBDA i, j : \/ s[i].away < s[j].away
                                                    \/ s[i].away = s[j].away /\ i < j)
  IN  [n \in DOMAIN s |-> s[order[n]]]

SameStopOfAnyKind(k, s) == k.name = s.name \/ Dist(k.at, s.at) < StopSpread
SameStop(k, s) == k.name = s.name \/ (k.kind = s.kind /\ Dist(k.at, s.at) < StopSpread)

Deduped(s) ==
  FoldLeft(LAMBDA kept, stop : IF \E k \in ToSet(kept) : SameStop(k, stop) THEN kept
                               ELSE Append(kept, stop), <<>>, s)

TransitNear(p, elements) == Deduped(ByDistance(Stops(p, elements)))

\* A property with no mapped stop keeps the list it had.
ImportTransit(old, found) == IF found = <<>> THEN old ELSE First(found, StopsListed)

-----------------------------------------------------------------------------
(* import_neighbourhoods.  A code is letters and a number, 0 for none.      *)

Letters(name) == IF name.letters = <<>> THEN <<"X", "X", "X">> ELSE First(name.letters, 3)

AreaCodeUnchecked(name, taken) == <<Letters(name), 0>>
AreaCode(name, taken) ==
  LET plain == <<Letters(name), 0>>
      numbered(n) == <<First(Letters(name), 2), n>>
      free == {n \in 2..(Cardinality(taken) + 2) : numbered(n) \notin taken}
  IN  IF plain \notin taken THEN plain ELSE numbered(Min(free))

\* The first of the nearest LGAs whose centroid is known.
Nearest(places, at) ==
  LET known == SelectSeq(places, LAMBDA l : l.at # NoPoint)
  IN  IF known = <<>> THEN NoName
      ELSE known[CHOOSE i \in DOMAIN known :
                   /\ \A j \in DOMAIN known : Dist(at, known[i].at) <= Dist(at, known[j].at)
                   /\ \A j \in 1..(i - 1) : Dist(at, known[j].at) > Dist(at, known[i].at)].code

Codes(areas) == {areas[n].code : n \in DOMAIN areas}

\* Names are compared with the areas there were before the run.
ImportAreas(areas, lgas, rows) ==
  LET there == {areas[n].name : n \in DOMAIN areas}
      new   == SelectSeq(rows, LAMBDA r : r.name \notin there)
  IN  FoldLeft(LAMBDA all, r : Append(all, [code |-> AreaCode(r, Codes(all)), name |-> r.name,
                                            lga |-> Nearest(lgas, r.at)]), areas, new)

-----------------------------------------------------------------------------
(* import_agents.  A slug is its words, the number of a second one among    *)
(* them; an agent a review named before has no slug.                        *)

AgentSlug(name, taken) ==
  LET base == IF name.words = <<>> THEN <<"agent">> ELSE First(name.words, LongestSlug)
      numbered(n) == Append(base, ToString(n))
      free == {n \in 2..(Cardinality(taken) + 2) : numbered(n) \notin taken}
  IN  IF base \notin taken THEN base ELSE numbered(Min(free))

NoSlug == <<>>
Slugs(agents) == {agents[n].slug : n \in DOMAIN agents} \ {NoSlug}
Named(agents) == {agents[n].name : n \in DOMAIN agents}

ImportAgents(agents, areas, rows) ==
  FoldLeft(LAMBDA all, r :
             IF r.name \in Named(all) THEN all
             ELSE Append(all, [name |-> r.name, slug |-> AgentSlug(r, Slugs(all)),
                               operating |-> IF r.at = NoPoint THEN NoName
                                             ELSE Nearest(areas, r.at)]), agents, rows)
=============================================================================
