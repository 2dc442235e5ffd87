------------------------------ MODULE Nearest ------------------------------
(***************************************************************************)
(* Places by taste: the ranking of destinations by their nearest component *)
(* (backend/shared/vector_topk.py) and what the trip may add next          *)
(* (backend/assembly/suggestions.py).  An embedding is a number, `look`,   *)
(* None where there is none; a taste is the sum of some looks with their   *)
(* count, and a distance is measured in that many parts.                   *)
(***************************************************************************)
EXTENDS TourRoutes
LOCAL INSTANCE SequencesExt

CONSTANTS Passes,                    \* TOPK_PASSES
          SuggestLimit, Multiplier,  \* SUGGEST_LIMIT, CANDIDATE_MULTIPLIER
          NearKm, FarKm, SimilarityWeight, GeographyWeight

Look(c, taste) == Apart(c.look * taste.count, taste.sum)

Rows(comps, taste) ==
  {[id |-> c.id, dest |-> c.dest, far |-> Look(c, taste)] : c \in {x \in comps : x.look # None}}

(* GROUP BY destination: its best distance; best first, then by id. *)
Grouped(rows) == {[dest |-> d, best |-> Min({r.far : r \in {x \in rows : x.dest = d}})] : d \in {r.dest : r \in rows}}

ByBest(rows, limit) == Limit(OrderBy(Grouped(rows), LAMBDA g : <<g.best, g.dest>>), limit)

Exact(rows, limit) == ByBest(rows, limit)

(* What a scan of k rows in order of distance may read: any k nearest ones. *)
Scans(rows, k) ==
  {s \in kSubset(Min({k, Cardinality(rows)}), rows) : \A r \in s, x \in rows \ s : r.far <= x.far}

(* Mutant: the first pass that finds anything. *)
Mut_Enough(found, limit) == found # <<>>

(* The first pass that fills the answer, else the exact aggregate. *)
Enough(found, limit) == Len(found) >= limit

Ranked(rows, limit, exactFirst) ==
  LET from[n \in 1..(Len(Passes) + 1)] ==
        IF n > Len(Passes) \/ exactFirst THEN {Exact(rows, limit)}
        ELSE UNION {IF Enough(ByBest(s, limit), limit) THEN {ByBest(s, limit)} ELSE from[n + 1] :
                    s \in Scans(rows, Passes[n])}
  IN from[1]

(* Where the trip ends: its components in sequence, whatever order the       *)
(* traveller gave them.                                                      *)
LastStop(pinned) ==
  Last(Sequence({[id |-> c.id, tour |-> c.tour, idx |-> c.day, at |-> c.dest] : c \in pinned})).at

Taste(pinned) ==
  LET seen == {c \in pinned : c.look # None}
  IN [count |-> Cardinality(seen), sum |-> MapThenSumSet(LAMBDA c : c.look, seen)]

(* clean_filters: an activity that is not one is no filter. *)
Fits(c, activity) == activity = None \/ c.activity = activity

(* ROUTE_CANDIDATES_SQL: what tours that stop near the trip's end do until   *)
(* their next stop somewhere else.                                           *)
NextLegs(cat, here) ==
  LET near == {s \in cat.stops : Apart(s.dest, here) <= JunctionKm}
      Onward(s) == {x.day : x \in {y \in cat.stops : y.tour = s.tour /\ y.day > s.day /\ y.dest # s.dest}}
  IN {[tour |-> s.tour, from |-> s.day, to |-> Min(Onward(s))] : s \in {x \in near : Onward(x) # {}}}

OnLeg(c, leg) == c.tour = leg.tour /\ c.day > leg.from /\ c.day <= leg.to

RouteCandidates(cat, here, excluded, taste, activity, limit) ==
  ByBest(Rows({c \in cat.comps : /\ c.dest \notin excluded
                                 /\ Fits(c, activity)
                                 /\ \E leg \in NextLegs(cat, here) : OnLeg(c, leg)}, taste), limit)

(* Without tours from here: the places of the trip's countries, else of all. *)
TasteCandidates(cat, excluded, taste, activity, lands, limit) ==
  Ranked(Rows({c \in cat.comps : /\ c.dest \notin excluded
                                 /\ Fits(c, activity)
                                 /\ lands = {} \/ Land[c.dest] \in lands}, taste), limit, lands # {})

(* The candidates again, by taste and by how near the trip's end they are. *)
Ramp == FarKm - NearKm

GeoScore(km) == IF km <= NearKm THEN 0 ELSE IF km >= FarKm THEN Ramp ELSE km - NearKm

Blend(n, count, km) ==
  IF count = 1 THEN GeographyWeight * GeoScore(km)
  ELSE SimilarityWeight * Ramp * (n - 1) + GeographyWeight * (count - 1) * GeoScore(km)

Rerank(found, here) ==
  LET Score(n) == <<Blend(n, Len(found), Apart(found[n].dest, here)), n>>
      sorted == OrderBy(DOMAIN found, Score)
  IN Limit([n \in DOMAIN sorted |-> found[sorted[n]]], SuggestLimit)

(* Mutant: only the place the trip ends at. *)
Mut_Excluded(pinned) == {LastStop(pinned)}

Excluded(pinned) == {c.dest : c \in pinned}

(* suggest: the answers it may give for the components of a trip that the    *)
(* catalog still serves.                                                     *)
Suggest(cat, pinned, activity) ==
  IF Taste(pinned).count = 0 THEN {[mode |-> "none", places |-> <<>>]}
  ELSE LET taste == Taste(pinned)
           here == LastStop(pinned)
           limit == SuggestLimit * Multiplier
           route == RouteCandidates(cat, here, Excluded(pinned), taste, activity, limit)
           lands == {Land[c.dest] : c \in pinned} \ {None}
       IN IF route # <<>> THEN {[mode |-> "route", places |-> Rerank(route, here)]}
          ELSE {[mode |-> "taste", places |-> Rerank(found, here)] :
                  found \in TasteCandidates(cat, Excluded(pinned), taste, activity, lands, limit)}
=============================================================================
