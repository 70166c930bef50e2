-------------------------------- MODULE Rules --------------------------------
(* The pure computations of the service whose answers a reader acts on: the  *)
(* score of a property (app/core/scoring.py), the alerts feed and its unread *)
(* counts (app/api/v1/alerts.py), the widening address search                *)
(* (app/services/opendata.py), the page that compares commutes               *)
(* (app/api/v1/commute.py), and what Listings imports.  A state of this      *)
(* module is one question put to one of them (and, for a search, its         *)
(* answer); an instance enumerates the questions.                            *)
(*                                                                           *)
(* Rounding is left out: scores are compared as fractions, <<num, den>>.     *)
EXTENDS Listings

CONSTANTS Dimensions,   \* DIMENSIONS
          Ratings,      \* what a dimension may be rated, NoRating included
          NoRating,
          Today,        \* as_of: [month, day], months counted from the epoch
          Dates,        \* when reviews were written
          Cutoffs,      \* management_change: dates, or NoDate
          NoDate,
          Watched,      \* areas the viewer watches
          Posts,        \* reviews as the feed sees them: [area, approved]
          Floods,       \* sequences of the areas of flood events, by id
          Limits,       \* page sizes
          Reads,        \* alerts_read_at: a time, or Never
          Never,
          Searches,     \* addresses, as sequences of words
          Numbers, StreetTypes,  \* words that are digits; STREET_TYPE_WORDS
          Answers,      \* what the geocoder may answer: sequences of points
          AnchorRadius, \* AREA_ANCHOR_RADIUS_M
          Anchors,      \* points of an area the caller knows, or NoAnchor
          NoAnchor,
          Reports,      \* a tenant's commute: [minutes, window, phone]
          Windows,      \* WINDOWS
          NoMinutes,
          LiveTimes,    \* what drive_estimate_min may answer: [minutes, kind]
          Mapped,       \* elements near a property: [at, amenity, railway, name]
          HandWritten,  \* the stops a property had before the import
          AreaRows, Areas, Lgas,   \* areas on the map, in the table; LGAs
          AgentRows, Agents        \* agents in the directory, in the table

VARIABLE asked

-----------------------------------------------------------------------------
(* scoring.py                                                               *)

MonthsBetween(earlier, later) ==
  LET months == later.month - earlier.month - (IF later.day < earlier.day THEN 1 ELSE 0)
  IN  IF months > 0 THEN months ELSE 0

\* In quarters.
RecencyWeight(age) ==
  CASE age <= 12 -> 4 [] age <= 24 -> 3 [] age <= 36 -> 2 [] OTHER -> 1

\* A verified tenant counts one and a half times: in eighths, then.
ReviewWeight(r) ==
  RecencyWeight(MonthsBetween(r.created, Today)) * (IF r.verified THEN 3 ELSE 2)

Rated(r) == {d \in Dimensions : r.ratings[d] # NoRating}

Total(S, f(_)) == FoldSet(LAMBDA x, sum : f(x) + sum, 0, S)

ReviewAggregate(r) ==
  IF Rated(r) = {} THEN <<0, 1>>
  ELSE <<Total(Rated(r), LAMBDA d : r.ratings[d]), Cardinality(Rated(r))>>

Before(a, b) == a.month < b.month \/ (a.month = b.month /\ a.day < b.day)

\* Indices of the reviews that count: written under the present management.
Included(rs, cutoff) ==
  {i \in DOMAIN rs : cutoff = NoDate \/ ~Before(rs[i].created, cutoff)}

\* A mean of fractions with weights w, over a common denominator.
WeightedMean(S, w(_), f(_)) ==
  LET den == FoldSet(LAMBDA x, prod : f(x)[2] * prod, 1, S)
  IN  <<Total(S, LAMBDA x : w(x) * f(x)[1] * (den \div f(x)[2])), den * Total(S, w)>>

Overall(rs, S) ==
  WeightedMean(S, LAMBDA i : ReviewWeight(rs[i]), LAMBDA i : ReviewAggregate(rs[i]))

VotersAll(rs, S, d) == S
Voters(rs, S, d) == {i \in S : rs[i].ratings[d] # NoRating}

PerDimension(rs, S, d) ==
  <<Total({i \in S : rs[i].ratings[d] # NoRating},
          LAMBDA i : ReviewWeight(rs[i]) * rs[i].ratings[d]),
    Total(Voters(rs, S, d), LAMBDA i : ReviewWeight(rs[i]))>>

Leq(p, q) == p[1] * q[2] <= q[1] * p[2]

-----------------------------------------------------------------------------
(* alerts.py.  Reviews are numbered by created_at.                          *)

ShareWhole(limit) == IF limit > 3 THEN limit ELSE 3
Share(limit) == IF limit \div 2 > 3 THEN limit \div 2 ELSE 3

NewestFirst(S) == Reverse(SetToSortSeq(S, <))

Shown(posts, areas) == {t \in DOMAIN posts : posts[t].approved /\ posts[t].area \in areas}

Unread(t, read) == read = Never \/ t > read

\* Dated items first, newest first; floods follow, latest first.
BuildFeed(posts, floods, areas, limit) ==
  LET reviews == First(NewestFirst(Shown(posts, areas)), Share(limit))
      events  == First(NewestFirst({i \in DOMAIN floods : floods[i] \in areas}), Share(limit))
  IN  First([i \in DOMAIN reviews |-> [kind |-> "review", at |-> reviews[i]]]
            \o [i \in DOMAIN events |-> [kind |-> "flood", at |-> events[i]]], limit)

UnreadCount(posts, areas, read) ==
  Cardinality({t \in Shown(posts, areas) : Unread(t, read)})

-----------------------------------------------------------------------------
(* address_variants and geocode_progressive                                 *)

StripHouseNumber(words) ==
  LET start == {k \in 1..Len(words) : \A j \in 1..(k - 1) : words[j] \in Numbers}
      k == Max(start)
  IN  IF \A j \in DOMAIN words : words[j] \in Numbers THEN words
      ELSE SubSeq(words, k, Len(words))

\* The area is a suffix, the longest first: never one that begins with a
\* street's type, never one of numbers only.
SplitBody(body) ==
  LET area(k) == SubSeq(body, k + 1, Len(body))
      starts == SelectSeq([k \in 1..(Len(body) - 1) |-> k],
                          LAMBDA k : /\ body[k + 1] \notin StreetTypes
                                     /\ ~(ToSet(area(k)) \subseteq Numbers))
  IN  [n \in DOMAIN starts |-> [street |-> SubSeq(body, 1, starts[n]), area |-> area(starts[n])]]

SplitStreetAndArea(query) == SplitBody(StripHouseNumber(query))

Variants(terms, precision) ==
  [n \in DOMAIN terms |-> [term |-> terms[n], precision |-> precision]]

Parts(splits) ==
  Variants([n \in DOMAIN splits |-> splits[n].street], "street")
  \o Variants([n \in DOMAIN splits |-> splits[n].area], "area")

\* A bare number is under three characters.
Short(term) == Len(term) = 1 /\ term[1] \in Numbers

\* A term is tried once, under the narrowest label it has.
Fresh(all, n) == ~Short(all[n].term) /\ \A m \in 1..(n - 1) : all[m].term # all[n].term

Distinct(all) ==
  FoldLeftDomain(LAMBDA kept, n : IF Fresh(all, n) THEN Append(kept, all[n]) ELSE kept, <<>>, all)

AddressVariants(query) ==
  Distinct(Variants(<<query, StripHouseNumber(query)>>, "exact") \o Parts(SplitStreetAndArea(query)))

NearOrNot(hits, anchor) == hits
Near(hits, anchor) == SelectSeq(hits, LAMBDA h : Dist(anchor, h) <= AnchorRadius)

\* The hits of the first area term that has any: the fallback, and the anchor
\* of the street matches when the caller knows no better one.
HitsOfFirst(vs, geo) == IF vs = <<>> THEN <<>> ELSE geo[Head(vs).term]

AreaHits(vs, geo) ==
  HitsOfFirst(SelectSeq(vs, LAMBDA v : v.precision = "area" /\ geo[v.term] # <<>>), geo)

AnchorOf(areaHits, known) ==
  IF known # NoAnchor \/ areaHits = <<>> THEN known ELSE Head(areaHits)

Usable(v, geo, anchor) ==
  IF anchor # NoAnchor /\ v.precision = "street" THEN Near(geo[v.term], anchor)
  ELSE geo[v.term]

Narrow(vs, geo, anchor) ==
  SelectSeq(vs, LAMBDA v : v.precision # "area" /\ Usable(v, geo, anchor) # <<>>)

\* The narrowest variant with a usable hit, the area, or nothing.
Best(narrow, areaHits, geo, anchor) ==
  IF narrow # <<>>
  THEN [hits |-> Usable(Head(narrow), geo, anchor), precision |-> Head(narrow).precision]
  ELSE [hits |-> areaHits, precision |-> IF areaHits = <<>> THEN "none" ELSE "area"]

Widen(vs, areaHits, geo, known) ==
  LET anchor == AnchorOf(areaHits, known)
  IN  Best(Narrow(vs, geo, anchor), areaHits, geo, anchor)

GeocodeProgressive(vs, geo, known) == Widen(vs, AreaHits(vs, geo), geo, known)

\* search_places: a known area beats a dead end.
OrArea(found, known) ==
  IF found.hits = <<>> /\ known # NoAnchor THEN [hits |-> <<known>>, precision |-> "area"]
  ELSE found

SearchPlaces(vs, geo, known) == OrArea(GeocodeProgressive(vs, geo, known), known)

-----------------------------------------------------------------------------
(* property_commute                                                         *)

HalfToEven(n) == IF n % 2 = 0 THEN n \div 2 ELSE (n \div 2) + ((n \div 2) % 2)

MiddleOf(ordered) ==
  LET mid == Len(ordered) \div 2
  IN  IF Len(ordered) % 2 = 1 THEN ordered[mid + 1]
      ELSE HalfToEven(ordered[mid] + ordered[mid + 1])

MedianUnsorted(values) == MiddleOf(values)
Median(values) == MiddleOf(SortSeq(values, <))

Minutes(rs) == [n \in DOMAIN rs |-> rs[n].minutes]

WindowStat(rs) ==
  LET vals == Minutes(rs)
  IN  [typical |-> Median(vals), worst |-> Max(ToSet(vals)), best |-> Min(ToSet(vals)),
       count |-> Len(vals)]

InWindow(rs, w) == SelectSeq(rs, LAMBDA r : r.window = w)

ByWindow(rs) ==
  [w \in {v \in Windows : InWindow(rs, v) # <<>>} |-> WindowStat(InWindow(rs, w))]

\* What tenants' phones said on the trip, before what a provider says now.
Estimate(rs, live) ==
  LET carried == SelectSeq(rs, LAMBDA r : r.phone # NoMinutes)
  IN  IF carried = <<>> THEN live
      ELSE [minutes |-> Median([n \in DOMAIN carried |-> carried[n].phone]), kind |-> "traffic"]

NoStat == [count |-> 0]

PropertyCommute(rs, live) ==
  [trip |-> IF rs = <<>> THEN NoStat ELSE WindowStat(rs),
   byWindow |-> ByWindow(rs), drive |-> Estimate(rs, live)]

-----------------------------------------------------------------------------
Review == [ratings: [Dimensions -> Ratings], created: Dates, verified: BOOLEAN]

Init ==
  \/ \E rs \in UNION {[1..n -> {r \in Review : Rated(r) # {}}] : n \in 0..2}, cutoff \in Cutoffs :
       asked = [rule |-> "score", reviews |-> rs, cutoff |-> cutoff]
  \/ \E posts \in [1..4 -> Posts], floods \in Floods, limit \in Limits, read \in Reads :
       asked = [rule |-> "feed", posts |-> posts, floods |-> floods, limit |-> limit,
                read |-> read]
  \/ \E query \in Searches, known \in Anchors \cup {NoAnchor} :
       LET vs == AddressVariants(query) IN
       \E geo \in [{v.term : v \in ToSet(vs)} -> Answers] :
         asked = [rule |-> "search", variants |-> vs, geo |-> geo, known |-> known,
                  answer |-> SearchPlaces(vs, geo, known)]
  \/ \E rs \in UNION {[1..n -> Reports] : n \in 0..4}, live \in LiveTimes :
       asked = [rule |-> "commute", reports |-> rs, live |-> live]
  \/ \E elements \in UNION {[1..n -> Mapped] : n \in 0..3} :
       asked = [rule |-> "transit", elements |-> elements]
  \/ \E rows \in UNION {[1..n -> AreaRows] : n \in 0..3}, areas \in Areas :
       asked = [rule |-> "areas", rows |-> rows, areas |-> areas]
  \/ \E rows \in UNION {[1..n -> AgentRows] : n \in 0..3}, agents \in Agents :
       asked = [rule |-> "agents", rows |-> rows, agents |-> agents]

Next == UNCHANGED asked

Spec == Init /\ [][Next]_asked

-----------------------------------------------------------------------------
(* Properties *)

\* The score is fair to its reviews (aggregate_property): every figure lies
\* between the lowest and the highest it averages, a dimension nobody rated drags
\* nothing down, and of two reviews the one that is no older and no less verified
\* pulls at least as hard: giving it the better ratings never lowers the score.
ScoreFair ==
  asked.rule = "score" =>
    LET rs == asked.reviews
        S  == Included(rs, asked.cutoff)
        swapped(i, j) == [rs EXCEPT ![i].ratings = rs[j].ratings, ![j].ratings = rs[i].ratings]
        stronger(i, j) == /\ ~Before(rs[i].created, rs[j].created)
                          /\ rs[j].verified => rs[i].verified
    IN  S # {} =>
        /\ \E i \in S : Leq(ReviewAggregate(rs[i]), Overall(rs, S))
        /\ \E i \in S : Leq(Overall(rs, S), ReviewAggregate(rs[i]))
        /\ \A i, j \in S : stronger(i, j) /\ Leq(ReviewAggregate(rs[j]), ReviewAggregate(rs[i]))
                             => Leq(Overall(swapped(i, j), S), Overall(rs, S))
        /\ \A d \in UNION {Rated(rs[i]) : i \in S} :
             \E i, j \in {k \in S : d \in Rated(rs[k])} :
               /\ Leq(<<rs[i].ratings[d], 1>>, PerDimension(rs, S, d))
               /\ Leq(PerDimension(rs, S, d), <<rs[j].ratings[d], 1>>)

\* The three unread counts agree: the badge is the sum of the watches' counts,
\* and what the first page of the watched feed marks unread is the badge, up to
\* the share of a page reviews may take.  That share leaves room for the floods:
\* "otherwise a busy week of reviews buries every flood report" (for a page of
\* six or more; a smaller one is all reviews).
FeedHonest ==
  asked.rule = "feed" =>
    LET feed   == BuildFeed(asked.posts, asked.floods, Watched, asked.limit)
        badge  == UnreadCount(asked.posts, Watched, asked.read)
        of(kind) == {n \in DOMAIN feed : feed[n].kind = kind}
        mine   == {i \in DOMAIN asked.floods : asked.floods[i] \in Watched}
    IN  /\ badge = Total(Watched, LAMBDA a : UnreadCount(asked.posts, {a}, asked.read))
        /\ Cardinality({n \in of("review") : Unread(feed[n].at, asked.read)})
             = Min({badge, Share(asked.limit), asked.limit})
        /\ asked.limit >= 6 =>
             Cardinality(of("flood")) = Min({Cardinality(mine), Share(asked.limit)})

\* A pin is never narrower than its label (geocode_progressive, "pinning a tenant
\* 12km from home is a worse failure than admitting we only know the area"): an
\* exact match is preferred whenever there is one; a street match is near the
\* area when the area is known; an area is the answer only when neither exists;
\* and where the area is known the search is not a dead end.
LookupHonest ==
  asked.rule = "search" =>
    LET vs     == {v \in ToSet(asked.variants) : asked.geo[v.term] # <<>>}
        anchor == AnchorOf(AreaHits(asked.variants, asked.geo), asked.known)
        answer == asked.answer
        found(precision) == UNION {ToSet(asked.geo[v.term]) : v \in {u \in vs : u.precision = precision}}
        inReach(h) == anchor = NoAnchor \/ Dist(anchor, h) <= AnchorRadius
    IN  /\ answer.precision = "exact" <=> found("exact") # {}
        /\ answer.precision = "street" => \A h \in ToSet(answer.hits) : inReach(h)
        /\ answer.precision \in {"area", "none"} => \A h \in found("street") : ~inReach(h)
        /\ anchor # NoAnchor => answer.hits # <<>>

\* A trip's figures say what the reports say (property_commute): nothing where
\* nobody reported; a typical time that half the tenants beat and half do not;
\* windows that partition the reports and none of whose typical times contradicts
\* the trip's; and a provider's number, with its kind, only until a tenant's phone
\* has one, which is shown as traffic.
CommuteHonest ==
  asked.rule = "commute" =>
    LET rs   == asked.reports
        page == PropertyCommute(rs, asked.live)
        trip == page.trip
        by   == page.byWindow
        phones == {rs[n].phone : n \in DOMAIN rs} \ {NoMinutes}
        atMost(v)  == {n \in DOMAIN rs : rs[n].minutes <= v}
        atLeast(v) == {n \in DOMAIN rs : rs[n].minutes >= v}
    IN  /\ Total(DOMAIN by, LAMBDA w : by[w].count) = trip.count /\ trip.count = Len(rs)
        /\ trip # NoStat =>
             /\ 2 * Cardinality(atMost(trip.typical)) >= Len(rs)
             /\ 2 * Cardinality(atLeast(trip.typical)) >= Len(rs)
             /\ trip.best = Min({by[w].best : w \in DOMAIN by})
             /\ trip.worst = Max({by[w].worst : w \in DOMAIN by})
             /\ \E w \in DOMAIN by : by[w].typical <= trip.typical
             /\ \E w \in DOMAIN by : by[w].typical >= trip.typical
        /\ IF phones = {} THEN page.drive = asked.live
           ELSE /\ page.drive.kind = "traffic"
                /\ Min(phones) <= page.drive.minutes /\ page.drive.minutes <= Max(phones)

HasName(s) == s.name # Unnamed(s.kind)
OnTop(k, s) == k.kind = s.kind /\ Dist(k.at, s.at) < StopSpread

\* The stops of a property (transit_near, import_transit), said of names, kinds and
\* places.  The nearest come first; no name is listed twice, nor two stops of a kind
\* on top of one another; a name is listed where it is nearest, unless that one lies
\* on top of another's.  Nothing is lost but to a list full of nearer ones: a named
\* stop gives way to its own name or to a named stop on top of it, an unnamed one to
\* what it lies on or to an unnamed one.  Nothing is claimed here of a named stop on
\* top of an unnamed one that is no farther: the code drops it (UnnamedGiveWay).
StopsHonest ==
  asked.rule = "transit" =>
    LET mapped == ToSet(Stops(0, asked.elements))
        listed == ImportTransit(HandWritten, TransitNear(0, asked.elements))
        shown  == ToSet(listed)
        before(s) == {k \in shown : k.away <= s.away}
        full(s)   == Cardinality(before(s)) = StopsListed
        clear(s)  == \A u \in mapped : OnTop(u, s) /\ u.away <= s.away => HasName(u)
    IN  IF mapped = {} THEN listed = HandWritten
        ELSE /\ \A j \in DOMAIN listed : \A i \in 1..(j - 1) :
                  /\ listed[i].away <= listed[j].away
                  /\ listed[i].name # listed[j].name /\ ~OnTop(listed[i], listed[j])
             /\ \A k \in shown, s \in mapped :
                  s.name = k.name /\ s.away < k.away => \E t \in before(s) : OnTop(t, s)
             /\ \A s \in mapped : HasName(s) /\ clear(s) =>
                  full(s) \/ \E k \in before(s) : HasName(k) /\ (k.name = s.name \/ OnTop(k, s))
             /\ \A s \in mapped : ~HasName(s) =>
                  full(s) \/ \E k \in before(s) : k.name = s.name \/ OnTop(k, s)

\* "Drop unnamed stops that sit on top of a named one" (the comment in
\* transit_near): no unnamed stop is listed where a named one of its kind is mapped.
UnnamedGiveWay ==
  asked.rule = "transit" =>
    LET shown == ToSet(ImportTransit(HandWritten, TransitNear(0, asked.elements)))
    IN  \A s \in ToSet(Stops(0, asked.elements)) : HasName(s) =>
          \A k \in shown : OnTop(k, s) => HasName(k)

\* The import can be run again (import_neighbourhoods, import_agents): nothing in
\* the tables moves or is renamed, a second run over the same data adds nothing,
\* codes and slugs address one area and one agent, and no agent is listed twice.
ImportsRepeatable ==
  /\ asked.rule = "areas" =>
       LET once == ImportAreas(asked.areas, Lgas, asked.rows)
       IN  /\ IsPrefix(asked.areas, once)
           /\ ImportAreas(once, Lgas, asked.rows) = once
           /\ Cardinality(Codes(once)) = Len(once)
  /\ asked.rule = "agents" =>
       LET once == ImportAgents(asked.agents, Lgas, asked.rows)
       IN  /\ IsPrefix(asked.agents, once)
           /\ ImportAgents(once, Lgas, asked.rows) = once
           /\ \A i, j \in DOMAIN once : i # j =>
                /\ once[i].name # once[j].name
                /\ once[i].slug # once[j].slug \/ once[i].slug = NoSlug
=============================================================================
