------------------------------ MODULE Planning ------------------------------
(***************************************************************************)
(* What a traveller is told while a trip takes shape: whole routes for a   *)
(* country (GET /routes), the route of a tour whose page was left (GET     *)
(* /tour-route), places like some words (search), and what to add next     *)
(* (GET /suggestions).  The reads are stateless; the catalog is rebuilt    *)
(* and the trip edited between them, and whatever changes makes the last   *)
(* answer one about the past, so it is dropped.                            *)
(***************************************************************************)
EXTENDS Nearest
LOCAL INSTANCE SequencesExt

CONSTANTS Catalogs, MaxPinned,
          AskedDays, Links, Words, SearchLimit, Activities

VARIABLES cat,      \* what the catalog's views serve
          pinned,   \* the ids of the trip's components
          answer

vars == <<cat, pinned, answer>>

NoAnswer == [kind |-> "none"]

Lands == {Land[d] : d \in DOMAIN Land} \ {None}

(* The pinned components the catalog serves; the others stay in the trip. *)
Pinned == {c \in cat.comps : c.id \in pinned}

Init == cat \in Catalogs /\ pinned = {} /\ answer = NoAnswer

Rebuild ==
  /\ cat' \in Catalogs \ {cat}
  /\ answer' = NoAnswer
  /\ UNCHANGED pinned

Pin ==
  /\ Cardinality(pinned) < MaxPinned
  /\ \E c \in cat.comps : c.id \notin pinned /\ pinned' = pinned \cup {c.id}
  /\ answer' = NoAnswer
  /\ UNCHANGED cat

Unpin ==
  /\ \E i \in pinned : pinned' = pinned \ {i}
  /\ answer' = NoAnswer
  /\ UNCHANGED cat

(* A read changes nothing, so that one is answered after another is as if   *)
(* it were answered first.                                                  *)
Answer(a) == answer = NoAnswer /\ answer' = a /\ UNCHANGED <<cat, pinned>>

AskRoutes ==
  \E land \in Lands, days \in AskedDays :
    Answer([kind |-> "routes", land |-> land, days |-> days, given |-> Proposals(cat, land, days)])

AskTour == \E link \in Links : Answer([kind |-> "tour", link |-> link, given |-> AskedRoute(cat, link)])

(* search: the words' embedding; within one country exactly at once. *)
Found(look, lands) ==
  Rows({c \in cat.comps : lands = {} \/ Land[c.dest] \in lands}, [sum |-> look, count |-> 1])

Search ==
  \E look \in Words, lands \in {{}} \cup {{l} : l \in Lands} :
    \E found \in Ranked(Found(look, lands), SearchLimit, lands # {}) :
      Answer([kind |-> "search", rows |-> Found(look, lands), given |-> found])

AskNext ==
  \E activity \in Activities \cup {None} : \E given \in Suggest(cat, Pinned, activity) :
    Answer([kind |-> "next", activity |-> activity, given |-> given])

Next == Rebuild \/ Pin \/ Unpin \/ AskRoutes \/ AskTour \/ Search \/ AskNext

Spec == Init /\ [][Next]_vars

(***************************************************************************)
(* Properties.                                                             *)
(***************************************************************************)

(* What could be walked: a leg, or a leg from a tour's first stop and a leg  *)
(* of another tour that starts within reach of its end.                      *)
Walks(land, days) ==
  LET legs == {l \in Legs(cat) : Visits(l, land)}
      Follows(a, b) ==
        /\ a.tour # b.tour /\ a.from = Min(DaysOf(cat, a.tour))
        /\ Apart(a.end, b.start) <= JunctionKm
  IN {w \in {<<l>> : l \in legs} \cup {p \in legs \X legs : Follows(p[1], p[2])} :
        LET total == FoldLeft(LAMBDA n, l : n + DaysIn(l), 0, w) IN total >= days - Slack /\ total <= days}

Rating(w, days) ==
  <<1 - Truth(Len(w) = 1 /\ IsWhole(cat, w[1])), days - FoldLeft(LAMBDA n, l : n + DaysIn(l), 0, w)>>

(* Every proposal is a walk through the catalog, one for each set of tours   *)
(* and the best of it: a whole tour, else the closest to the asked days.     *)
(* Tours without a proposal have none that is better than what is given, and *)
(* are left out only when MAX_PROPOSALS are given; two tours also when the   *)
(* rows of CHAIN_SQL are used up by other pairs, and then no closer than any *)
(* pair that is given (routes.py: the merge of two queries, one of them cut  *)
(* by an order and a limit of its own).                                      *)
BestRoutesAreGiven ==
  answer.kind = "routes" =>
    LET days == answer.days
        walks == Walks(answer.land, days)
        Tours(w) == {l.tour : l \in Range(w)}
        Behind(p, w) == Before(Rating(w, days), Rating(p.legs, days))
        full == Len(answer.given) = MaxProposals
        cut == Cardinality(AllChains(cat, answer.land, days)) > ChainRowsMax
    IN /\ \A p \in Range(answer.given) : p.legs \in walks /\ Len(p.days) = p.total
       /\ \A i, j \in DOMAIN answer.given : ToursOf(answer.given[i]) = ToursOf(answer.given[j]) => i = j
       /\ \A w \in walks :
            LET same == {p \in Range(answer.given) : ToursOf(p) = Tours(w)}
                lost == cut /\ Len(w) = 2
            IN IF same # {} THEN \A p \in same : ~Behind(p, w)
               ELSE /\ full \/ lost
                    /\ \A p \in Range(answer.given) : ~lost \/ Len(p.legs) = 2 => ~Behind(p, w)

(* What can be pinned of a tour.  Its graph, if it has stops, shows the days  *)
(* up to the last of the tour and of these stops, and pins experiences of the *)
(* tour's own; its page's places are pinned at an experience of any tour.     *)
GraphSpan(t) == UNION {1..Max({s.day, cat.length[t]}) : s \in {x \in cat.stops : x.tour = t}}

GraphDays(t) == {c.day : c \in {x \in cat.comps : x.tour = t /\ x.look # None}} \cap GraphSpan(t)

NamedDays(t) == {p.day : p \in {x \in cat.places : x.tour = t}}

At(dest) == {c \in cat.comps : c.dest = dest /\ c.look # None}

DaysAt(t) == {p.day : p \in {x \in cat.places : x.tour = t /\ At(x.dest) # {}}}

(* The share of the days a page's places have to be good for. *)
HalfByPlaces(t, n) == 2 * n >= IF cat.length[t] > 0 THEN cat.length[t] ELSE Cardinality(NamedDays(t))

PinnedDays(route) == {route.days[n].tourDay : n \in {m \in DOMAIN route.days : route.days[m].comp # None}}

(* Whoever comes from a tour's page gets that tour, under the id it has now.  *)
(* A route from its graph has each day of the tour, and pins half or more of  *)
(* what it shows. One from its places is for a tour whose graph pins less     *)
(* than half and fewer days than this does; it pins half of the tour's days,  *)
(* or of those its page names when the tour's length is not known, each at    *)
(* one of the day's places: one on two days only when every experience there  *)
(* is pinned, another tour's only when the tour's own are. Either pins        *)
(* whatever day it can. The tour's day list is shown only when neither will   *)
(* do (routes.py: three counts of a tour's days, and two sources of what to   *)
(* pin on them).                                                              *)
TourRouteIsTheTour ==
  answer.kind = "tour" =>
    LET link == answer.link
        given == answer.given
        current == link.source \in DOMAIN cat.upload
        Rich(t) == GraphSpan(t) # {} /\ 2 * Cardinality(GraphDays(t)) >= Cardinality(GraphSpan(t))
        Better(t) == HalfByPlaces(t, Cardinality(DaysAt(t))) /\ Cardinality(DaysAt(t)) > Cardinality(GraphDays(t))
        FromGraph(route) ==
          /\ Rich(route.tour)
          /\ [n \in DOMAIN route.days |-> route.days[n].tourDay] = [n \in GraphSpan(route.tour) |-> n]
          /\ PinnedDays(route) = GraphDays(route.tour)
        FromPlaces(route) ==
          /\ ~Rich(route.tour)
          /\ PinnedDays(route) = DaysAt(route.tour)
          /\ HalfByPlaces(route.tour, Cardinality(PinnedDays(route)))
          /\ Cardinality(PinnedDays(route)) > Cardinality(GraphDays(route.tour))
          /\ \A d \in Range(route.days) : d.comp # None =>
               /\ \E p \in cat.places : p.tour = route.tour /\ p.day = d.tourDay /\ p.dest = d.dest
               /\ d.comp \in {c.id : c \in At(d.dest)}
               /\ \A c \in At(d.dest) : c.id \notin {x.comp : x \in Range(route.days)} =>
                    /\ \A e \in Range(route.days) : e.comp = d.comp => e = d
                    /\ c.tour = route.tour => d.comp \in {x.id : x \in {y \in At(d.dest) : y.tour = c.tour}}
    IN CASE given.kind = "unknown" -> ~current
         [] given.kind = "fallback" ->
              (current => given.tour = link.source) /\ ~Rich(given.tour) /\ ~Better(given.tour)
         [] given.kind = "route" ->
              /\ current => given.route.tour = link.source
              /\ IF given.route.match = "tour_graph" THEN FromGraph(given.route) ELSE FromPlaces(given.route)

(* A route that is offered pins half of the days it shows or more             *)
(* (routes.py:341, the S236 rule "a route must pin at least                   *)
(* PLACES_MIN_DAY_SHARE of its days").                                        *)
RouteKeepsTheShare ==
  answer.kind = "tour" /\ answer.given.kind = "route" =>
    2 * Cardinality(PinnedDays(answer.given.route)) >= Len(answer.given.route.days)

(* A search answers as the exact aggregate over every component would: the   *)
(* same number of places, at the same distances, whichever of equally far    *)
(* components the index scan read (vector_topk.py, first N distinct          *)
(* destinations of a top k).                                                 *)
SearchIsExact ==
  answer.kind = "search" =>
    LET exact == Exact(answer.rows, SearchLimit)
    IN /\ [n \in DOMAIN answer.given |-> answer.given[n].best] = [n \in DOMAIN exact |-> exact[n].best]
       /\ Range(answer.given) \subseteq Grouped(answer.rows)

(* What is suggested is never where the trip already goes; while some tour   *)
(* goes on from the trip's end to a new place, every suggestion is on the    *)
(* way of such a tour, before it has moved on twice; and of two suggestions  *)
(* the one that is both more to the taste and nearer comes first             *)
(* (suggestions.py: the trip's end and taste are computed from the pinned    *)
(* components the catalog still serves).                                     *)
SuggestionsGoOn ==
  answer.kind = "next" /\ answer.given.mode # "none" =>
    LET here == LastStop(Pinned)
        Elsewhere(s) == {x \in cat.stops : x.tour = s.tour /\ x.day > s.day /\ x.dest # s.dest}
        NextOn(c, s) ==
          /\ s.tour = c.tour /\ s.day < c.day /\ Apart(s.dest, here) <= JunctionKm
          /\ Elsewhere(s) # {} /\ \A x \in Elsewhere(s) : x.day >= c.day
        ahead == {c \in cat.comps : /\ c.look # None /\ Fits(c, answer.activity)
                                    /\ c.dest \notin {p.dest : p \in Pinned}
                                    /\ \E s \in cat.stops : NextOn(c, s)}
        places == answer.given.places
    IN /\ {g.dest : g \in Range(places)} \cap {p.dest : p \in Pinned} = {}
       /\ ahead # {} => places # <<>> /\ {g.dest : g \in Range(places)} \subseteq {c.dest : c \in ahead}
       /\ \A i, j \in DOMAIN places :
            places[j].best < places[i].best /\ Apart(places[j].dest, here) < Apart(places[i].dest, here) => j < i
=============================================================================
