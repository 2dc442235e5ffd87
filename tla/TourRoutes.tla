----------------------------- MODULE TourRoutes -----------------------------
(***************************************************************************)
(* Whole routes of real tours (backend/browse/routes.py): proposals for a  *)
(* country and a number of days, and the route of one tour.  A tour is its *)
(* catalog source id, a number; a place is a number too, its position on a *)
(* line that stands for the map.  What the catalog's views say is a record *)
(*   stops   [tour, day, dest]       where a tour spends its days          *)
(*   comps   [id, tour, day, dest, look]   experiences; `look` stands for  *)
(*                                   the embedding, None without it     *)
(*   places  [tour, day, pos, dest]  what the tour's page names            *)
(*   length, upload                  a tour's days and its current tour id *)
(***************************************************************************)
EXTENDS Sequencing, FiniteSetsExt
LOCAL INSTANCE SequencesExt

CONSTANTS Land,         \* the country of a place
          JunctionKm,
          Slack, MaxProposals, ChainRowsMax   \* SLACK, MAX_PROPOSALS, CHAIN_SQL's LIMIT

(* ORDER BY: sequences of numbers compared left to right. *)
Before(a, b) ==
  \E n \in DOMAIN a : a[n] < b[n] /\ \A m \in 1..(n - 1) : a[m] = b[m]

OrderBy(rows, Key(_)) ==
  LET key == [r \in rows |-> Key(r)]
      place == [r \in rows |-> 1 + Cardinality({x \in rows : Before(key[x], key[r])})]
  IN [n \in 1..Cardinality(rows) |-> CHOOSE r \in rows : place[r] = n]

Limit(rows, n) == SubSeq(rows, 1, Min({n, Len(rows)}))

Apart(a, b) == IF a <= b THEN b - a ELSE a - b

Truth(b) == IF b THEN 1 ELSE 0

(* Only experiences with an embedding can be pinned. *)
Embedded(cat) == {c \in cat.comps : c.look # None}

(* A leg is a run of days of one tour between two of its stops. *)
DaysOf(cat, t) == {s.day : s \in {x \in cat.stops : x.tour = t}}

DestOn(cat, t, d) == (CHOOSE s \in cat.stops : s.tour = t /\ s.day = d).dest

Legs(cat) ==
  {[tour |-> t, from |-> d[1], to |-> d[2], start |-> DestOn(cat, t, d[1]), end |-> DestOn(cat, t, d[2]),
    dests |-> {s.dest : s \in {x \in cat.stops : x.tour = t /\ x.day \in d[1]..d[2]}}]
     : <<t, d>> \in UNION {{s.tour} \X {d \in DaysOf(cat, s.tour) \X DaysOf(cat, s.tour) : d[1] <= d[2]}
                           : s \in cat.stops}}

DaysIn(leg) == leg.to - leg.from + 1

Visits(leg, land) == \E d \in leg.dests : Land[d] = land

IsWhole(cat, leg) == leg.from = Min(DaysOf(cat, leg.tour)) /\ leg.to = Max(DaysOf(cat, leg.tour))

Junctions(cat) ==
  {[a |-> p[1].dest, b |-> p[2].dest, km |-> Apart(p[1].dest, p[2].dest)] :
     p \in {q \in cat.stops \X cat.stops : Apart(q[1].dest, q[2].dest) <= JunctionKm}}

(* SINGLE_SQL: of each tour the leg that fits best, the whole tour first. *)
Singles(cat, land, days) ==
  LET fits == {l \in Legs(cat) : Visits(l, land) /\ DaysIn(l) \in (days - Slack)..days}
      Key(l) == <<1 - Truth(IsWhole(cat, l)), days - DaysIn(l), l.from>>
      Best(t) == OrderBy({l \in fits : l.tour = t}, Key)[1]
  IN OrderBy({Best(t) : t \in {l.tour : l \in fits}}, LAMBDA l : <<l.tour>>)

(* CHAIN_SQL: two legs of two tours, the first from its tour's first stop,   *)
(* the second from where it ends or over a junction from there.              *)
Hop(cat, leg) ==
  {[start |-> leg.end, km |-> 0]}
    \cup {[start |-> j.b, km |-> j.km] : j \in {x \in Junctions(cat) : x.a = leg.end /\ x.b # leg.end}}

(* Mutant: the rows of CHAIN_SQL without "closest first". *)
Mut_ChainKey(c, days) ==
  <<c.km, 0 - (Cardinality(c.a.dests) + Cardinality(c.b.dests)),
    c.a.tour, c.a.from, c.a.to, c.b.tour, c.b.from, c.b.to>>

ChainKey(c, days) ==
  <<days - (DaysIn(c.a) + DaysIn(c.b)), c.km, 0 - (Cardinality(c.a.dests) + Cardinality(c.b.dests)),
    c.a.tour, c.a.from, c.a.to, c.b.tour, c.b.from, c.b.to>>

AllChains(cat, land, days) ==
  LET legs == {l \in Legs(cat) : Visits(l, land) /\ DaysIn(l) < days}
      firsts == {l \in legs : l.from = Min(DaysOf(cat, l.tour))}
  IN {[a |-> x[1], b |-> x[2], km |-> h.km] :
        <<x, h>> \in UNION {
          {<<<<a, b>>, h>> : <<b, h>> \in {p \in legs \X Hop(cat, a) :
                                            /\ p[1].start = p[2].start
                                            /\ p[1].tour # a.tour
                                            /\ DaysIn(a) + DaysIn(p[1]) \in (days - Slack)..days}}
            : a \in firsts}}

Chains(cat, land, days) ==
  Limit(OrderBy(AllChains(cat, land, days), LAMBDA c : ChainKey(c, days)), ChainRowsMax)

(* rank: one proposal per set of tours, best first. *)
OfLeg(cat, l) ==
  [legs |-> <<l>>, total |-> DaysIn(l), transfers |-> 0, km |-> 0, places |-> Cardinality(l.dests),
   whole |-> IsWhole(cat, l)]

OfChain(c) ==
  [legs |-> <<c.a, c.b>>, total |-> DaysIn(c.a) + DaysIn(c.b), transfers |-> 1, km |-> c.km,
   places |-> Cardinality(c.a.dests) + Cardinality(c.b.dests), whole |-> FALSE]

ToursOf(p) == {l.tour : l \in Range(p.legs)}

RankKey(p, days) == <<1 - Truth(p.whole), Apart(p.total, days), p.transfers, 0 - p.places, p.km>>

Rank(cands, days) ==
  LET sorted == OrderBy(DOMAIN cands, LAMBDA n : Append(RankKey(cands[n], days), n))
      OnePerTours(out, n) ==
        IF \E p \in Range(out) : ToursOf(p) = ToursOf(cands[n]) THEN out ELSE Append(out, cands[n])
  IN Limit(FoldLeft(OnePerTours, <<>>, sorted), MaxProposals)

(* day_by_day: where the traveller is, and what to pin, on each day.  A day  *)
(* without a stop keeps the place of the one before.                         *)
DayByDay(legs, stops, comps) ==
  LET all == FlattenSeq([n \in DOMAIN legs |->
               [k \in 1..DaysIn(legs[n]) |-> [tour |-> legs[n].tour, tourDay |-> legs[n].from + k - 1]]])
      On(n) == {s \in stops : s.tour = all[n].tour /\ s.day = all[n].tourDay}
      dest[n \in 0..Len(all)] ==
        IF n = 0 THEN None ELSE IF On(n) # {} THEN (CHOOSE s \in On(n) : TRUE).dest ELSE dest[n - 1]
      Pick(n) ==
        LET cs == {c \in comps : c.tour = all[n].tour /\ c.day = all[n].tourDay}
            here == {c \in cs : c.dest = dest[n]}
            ids == {c.id : c \in IF here # {} THEN here ELSE cs}
        IN IF ids = {} THEN None ELSE Min(ids)
  IN [n \in DOMAIN all |-> Over(all[n], [day |-> n, dest |-> dest[n], comp |-> Pick(n)])]

Proposals(cat, land, days) ==
  LET singles == Singles(cat, land, days)
      chains == Chains(cat, land, days)
      picked == Rank([n \in DOMAIN singles |-> OfLeg(cat, singles[n])]
                       \o [n \in DOMAIN chains |-> OfChain(chains[n])], days)
  IN [n \in DOMAIN picked |-> Over(picked[n], [days |-> DayByDay(picked[n].legs, cat.stops, Embedded(cat))])]

(* The current tour id of a link: by its source id, else the one it carries. *)
ResolveTourId(cat, link) ==
  IF link.source \in DOMAIN cat.upload THEN cat.upload[link.source] ELSE link.id

SourceOf(cat, id) ==
  LET now == {t \in DOMAIN cat.upload : cat.upload[t] = id} IN IF now = {} THEN None ELSE CHOOSE t \in now : TRUE

OneTour(tour, first, last, stops, comps, length, match) ==
  LET days == DayByDay(<<[tour |-> tour, from |-> first, to |-> last]>>, stops, comps)
      total == last - first + 1
  IN [match |-> match, tour |-> tour, total |-> total, days |-> days,
      tourDays |-> IF length = 0 THEN total ELSE length,
      pinned |-> Cardinality({n \in DOMAIN days : days[n].comp # None})]

(* _graph_route, _graph_span: the graph's stops over every day of the tour. *)
GraphRoutes(cat, t) ==
  LET stops == {s \in cat.stops : s.tour = t}
      comps == {c \in Embedded(cat) : c.tour = t}
      days == {s.day : s \in stops}
  IN IF stops = {} \/ comps = {} THEN {}
     ELSE {OneTour(t, Min(days \cup {1}), Max(days \cup {cat.length[t]}), stops, comps, cat.length[t], "tour_graph")}

(* _places_route: each day's first place with experiences, and one of them   *)
(* that no earlier day has, the tour's own first.                            *)
Experiences(cat, t, dest) ==
  LET rows == OrderBy({c \in Embedded(cat) : c.dest = dest},
                      LAMBDA c : <<1 - Truth(c.tour = t), c.tour, c.day, c.id>>)
  IN [n \in DOMAIN rows |-> rows[n].id]

FirstOr(s, else) == IF s = <<>> THEN else ELSE s[1]

PlaceDays(cat, t) ==
  LET places == {p \in cat.places : p.tour = t}
      dayOrder == OrderBy({p.day : p \in places}, LAMBDA d : <<d>>)
      Row(done, d) ==
        LET ps == OrderBy({p \in places : p.day = d}, LAMBDA p : <<p.pos>>)
            stop == FirstOr(SelectSeq(ps, LAMBDA p : Experiences(cat, t, p.dest) # <<>>), ps[1])
            cands == Experiences(cat, t, stop.dest)
            unused == SelectSeq(cands, LAMBDA c : c \notin {r.pick : r \in Range(done)})
        IN Append(done, [tour |-> t, day |-> d, dest |-> stop.dest, pick |-> FirstOr(unused, FirstOr(cands, None))])
  IN FoldLeft(Row, <<>>, dayOrder)

PlacesRoutes(cat, t) ==
  LET rows == Range(PlaceDays(cat, t))
      picked == {r \in rows : r.pick # None}
      days == {r.day : r \in rows}
      total == IF cat.length[t] = 0 THEN Cardinality(days) ELSE cat.length[t]
  IN IF picked = {} \/ 2 * Cardinality(picked) < total THEN {}
     ELSE {OneTour(t, Min(days), Max(days), rows,
                   {[id |-> r.pick, tour |-> t, day |-> r.day, dest |-> r.dest] : r \in picked},
                   cat.length[t], "places")}

(* Mutant: any graph will do. *)
Mut_TourRoute(cat, t) ==
  LET graph == GraphRoutes(cat, t) IN IF graph # {} THEN graph ELSE PlacesRoutes(cat, t)

(* tour_route: a graph that pins half of its days; else the places, when     *)
(* they pin more than the graph.                                             *)
TourRoute(cat, t) ==
  LET graph == GraphRoutes(cat, t)
      better == {p \in PlacesRoutes(cat, t) : \A g \in graph : p.pinned > g.pinned}
  IN IF \E g \in graph : 2 * g.pinned >= g.total THEN graph ELSE better

(* The handler's answer: a route, the tour's own days, or nothing. *)
AskedRoute(cat, link) ==
  LET id == ResolveTourId(cat, link)
      t == SourceOf(cat, id)
  IN IF id = None \/ t = None THEN [kind |-> "unknown"]
     ELSE IF TourRoute(cat, t) = {} THEN [kind |-> "fallback", tour |-> t, tourDays |-> cat.length[t]]
     ELSE [kind |-> "route", route |-> CHOOSE r \in TourRoute(cat, t) : TRUE]
=============================================================================
