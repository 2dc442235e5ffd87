-------------------------------- MODULE Stops --------------------------------
(***************************************************************************)
(* A saved trip while the catalog under it is rebuilt: ids move, places    *)
(* are merged or dropped, tours are retired, paused and restored           *)
(* (backend/assembly/events.py, availability.py, shared/component_ids.py). *)
(* The trip is its event log; what a traveller sees is folded from it with *)
(* the ids and the tours of that moment, and the stored projection keeps   *)
(* the name and tour of a stop for when the catalog no longer has it.      *)
(*                                                                         *)
(* Requests come one at a time here; TripLog has their interleavings, over *)
(* a catalog that stands still.                                            *)
(***************************************************************************)
EXTENDS ComponentIds, DayTexts

CONSTANTS
  Tours,
  FirstCatalog,  \* id -> [tour, idx, name]: the rows of v_tour_component at first
  FirstStatus,   \* tour -> live or restored
  IdRows,        \* tripplanner.component_id_map: ids from before the flip
  At,            \* name -> where the place lies
  Books,         \* itinerary texts the tours may have: tour -> sections
  MaxEvents,     \* bound on the log
  MaxChanges     \* bound on what the catalog's side does

ASSUME HopsSuffice == MaxChanges \in Nat /\ MaxChanges + 1 <= Hops

Live == {"live", "restored"}

(* What becomes of a tour; a tour that is gone has no tombstone. *)
Fates == {"restored", "retired", "paused", "gone"}

(* The ids of the rows and those of before the flip are numbered together. *)
FirstNext == Cardinality(DOMAIN FirstCatalog \cup DOMAIN IdRows)

ASSUME CatalogAssumption ==
  /\ FirstNext \in Nat
  /\ DOMAIN FirstCatalog \cup DOMAIN IdRows = 0..(FirstNext - 1)
  /\ DOMAIN FirstCatalog \cap DOMAIN IdRows = {}
  /\ IdRows \in [DOMAIN IdRows -> DOMAIN FirstCatalog]
  /\ FirstCatalog \in [DOMAIN FirstCatalog -> [tour : Tours, idx : Nat \cup {None}, name : DOMAIN At]]
  /\ FirstStatus \in [Tours -> Live]
  /\ At \in [DOMAIN At -> Int]
  /\ None \notin Nat /\ None \notin Tours \cup DOMAIN At \cup Fates

ASSUME BooksAssumption ==
  \A b \in Books : \A t \in DOMAIN b : b[t] \in Seq([day : Nat, names : SUBSET DOMAIN At])

VARIABLES
  catalog,   \* id -> [tour, idx, name], the components there are
  redirect,  \* catalog.v_component_redirect
  status,    \* tour -> live, or what the tombstone says of it
  next,      \* the next component id
  changes,   \* how often the catalog changed
  events,    \* trip_events of the trip, oldest first
  draft,     \* the stored projection: id -> what it knows of the stop
  now,       \* (history) every id's current one
  kept,      \* (history) the ids the traveller added and has not removed
  joined,    \* (history) the ids that others were merged into
  steady     \* (history) stops shown served, and neither moved since nor
             \* hidden since by an append that could not read the redirects

cis == <<catalog, redirect, status, next, changes>>
saved == <<events, draft, kept>>
vars == <<cis, saved, now, joined, steady>>

Ids == 0..(next - 1)

IsServed(i) == i \in DOMAIN catalog /\ status[catalog[i].tour] \in Live

(* A row of COMPONENTS_SQL. *)
Row(i) == [id |-> i, tour |-> catalog[i].tour, idx |-> catalog[i].idx,
           name |-> catalog[i].name, at |-> At[catalog[i].name]]

-----------------------------------------------------------------------------
(* Folding the log.  `hops` is how many hops of the call read the redirects. *)

Current(i, hops) == IdMap(IdRows, redirect, hops, i)

(* Mutant: an add and a remove meet only under one id. *)
Mut_Present(log, hops) ==
  LET in[n \in 0..Len(log)] ==
        IF n = 0 THEN <<>>
        ELSE LET before == in[n - 1]
                 i == Current(log[n].id, hops)
             IN CASE log[n].type = "add_component" /\ i \notin Range(before) -> Append(before, i)
                  [] log[n].type = "remove_component" -> Only(before, Range(before) \ {log[n].id})
                  [] OTHER -> before
  IN in[Len(log)]

(* The trip's stops, in the order they were added. *)
Present(log, hops) ==
  LET in[n \in 0..Len(log)] ==
        IF n = 0 THEN <<>>
        ELSE LET before == in[n - 1]
                 i == Current(log[n].id, hops)
             IN CASE log[n].type = "add_component" /\ i \notin Range(before) -> Append(before, i)
                  [] log[n].type = "remove_component" -> Only(before, Range(before) \ {i})
                  [] OTHER -> before
  IN in[Len(log)]

ServedIds == {i \in DOMAIN catalog : IsServed(i)}

Served(log, hops) == Only(Present(log, hops), ServedIds)

Missing(log, hops) == Only(Present(log, hops), Range(Present(log, hops)) \ ServedIds)

Shaping(e) == e.type \in {"reorder", "add_component", "remove_component"}

(* The order of a reorder nothing was added or removed after, or none. *)
ExplicitOrder(log, hops) ==
  LET last == {n \in DOMAIN log : /\ log[n].type = "reorder"
                                  /\ \A m \in (n + 1)..Len(log) : ~Shaping(log[m])}
  IN IF last = {} THEN <<>>
     ELSE Resolve(IdRows, redirect, hops, log[CHOOSE n \in last : TRUE].order)

(* As the order says, then what it does not name; by geography without one.  *)
ProjectItinerary(served, order) ==
  LET listed == Only(order, Range(served))
      rest == Only(served, Range(served) \ Range(order))
      rows(ids) == [n \in DOMAIN ids |-> Row(ids[n])]
  IN GroupIntoDays(IF order = <<>> THEN Sequence(Range(rows(served))) ELSE rows(listed \o rest))

Itinerary(log, hops) == ProjectItinerary(Served(log, hops), ExplicitOrder(log, hops))

(* Where a suggestion goes on from: the served stops' end by geography.      *)
LastStopAt(log, hops) == Last(Sequence({Row(i) : i \in Range(Served(log, hops))})).at

(* The added days, each after the stop that its stop's id is now. *)
CustomDays(log, hops) ==
  LET removed == {log[n].day : n \in {m \in DOMAIN log : log[m].type = "remove_day"}}
      left == Only(log, {e \in Range(log) : e.type = "add_day" /\ e.day \notin removed})
  IN [n \in DOMAIN left |->
        [left[n] EXCEPT !.after = IF @ = None THEN None ELSE Current(@, hops)]]

-----------------------------------------------------------------------------
(* The stored projection, and the stops the catalog no longer serves. *)

Blank == [day |-> None, tour |-> None, idx |-> None, name |-> None]

Snapshot(e) == [day |-> e.day, tour |-> e.tour, idx |-> e.idx, name |-> e.name]

(* Mutant: only what is served is stored. *)
Mut_Projection(log, hops, previous) ==
  [i \in Range(Served(log, hops)) |->
     Snapshot(CHOOSE e \in Range(Itinerary(log, hops)) : e.id = i)]

(* Served stops as they are; the others as the stored projection had them.   *)
Projection(log, hops, previous) ==
  LET entries == Range(Itinerary(log, hops))
  IN [i \in Range(Present(log, hops)) |->
        IF IsServed(i) THEN Snapshot(CHOOSE e \in entries : e.id = i)
        ELSE IF i \in DOMAIN previous THEN previous[i]
        ELSE Blank]

(* What a read of the trip may find unreadable. *)
Views == {"v_tour", "v_tour_retired"}

(* v_tour_retired also has a row for a tour that was restored. *)
Tombstone(t) == IF status[t] \in {"live", "gone"} THEN None ELSE status[t]

(* Why a stop is not in the itinerary, from the tour key it was stored with.  *)
StopReason(t, reads) ==
  IF t = None THEN "not_served"
  ELSE IF "v_tour" \in reads /\ status[t] \in Live THEN "stop_removed"
  ELSE IF "v_tour_retired" \in reads /\ Tombstone(t) # None
       THEN IF Tombstone(t) = "retired" THEN "retired" ELSE "paused"
  ELSE "not_served"

(* The stops that are listed apart: [id, reason] and what is known of each.  *)
UnavailableStops(log, hops, reads) ==
  LET gone == Missing(log, hops)
      stop(i) == IF i \in DOMAIN draft THEN draft[i] ELSE Blank
  IN [n \in DOMAIN gone |->
        Over([id |-> gone[n], reason |-> StopReason(stop(gone[n]).tour, reads)], stop(gone[n]))]

-----------------------------------------------------------------------------
Init ==
  /\ catalog = FirstCatalog
  /\ redirect = NoRows
  /\ status = FirstStatus
  /\ changes = 0
  /\ next = FirstNext
  /\ events = <<>>
  /\ draft = NoRows
  /\ now = [i \in 0..(FirstNext - 1) |-> IF i \in DOMAIN IdRows THEN IdRows[i] ELSE i]
  /\ kept = {}
  /\ joined = {}
  /\ steady = {}

(* The traveller's requests; each reads the redirects on so many hops.       *)

Hidden == IF redirect = NoRows THEN {Hops} ELSE {0, Hops}

(* append_event, once per event that is appended.                            *)
Write(log, hops) ==
  LET more == Len(log) - Len(events)
      Upto(n) == SubSeq(log, 1, Len(events) + n)
      stored[n \in 0..more] == IF n = 0 THEN draft ELSE Projection(Upto(n), hops, stored[n - 1])
  IN /\ Len(log) + changes <= MaxEvents
     /\ events' = log
     /\ draft' = stored[more]
     /\ steady' = Range(Served(log, hops)) \cup
                   {i \in steady : \A n \in 1..more : i \in Range(Present(Upto(n), hops))}
     /\ UNCHANGED <<cis, now, joined>>

AddComponent(i) ==
  /\ \E hops \in Hidden : Write(Append(events, [type |-> "add_component", id |-> i]), hops)
  /\ kept' = kept \cup {i}

RemoveComponent(i) ==
  /\ \E hops \in Hidden : Write(Append(events, [type |-> "remove_component", id |-> i]), hops)
  /\ kept' = {j \in kept : now[j] # now[i]}

Reorder(order) ==
  /\ \E hops \in Hidden : Write(Append(events, [type |-> "reorder", order |-> order]), hops)
  /\ kept' = kept

(* A proposed route: its components are pinned, then the order is.  What the *)
(* trip had besides follows in any order: it comes out of a set.             *)
ApplyRoute(route) ==
  \E hops \in Hidden :
    LET ids == Resolve(IdRows, redirect, hops, route)
        served == Range(Served(events, hops))
        new == Only(ids, Range(ids) \ served)
    IN \E others \in SetToSeqs(served \ Range(ids)) :
       /\ Write(events \o [n \in DOMAIN new |-> [type |-> "add_component", id |-> new[n]]]
                       \o <<[type |-> "reorder", order |-> ids \o others]>>, hops)
       /\ kept' = kept \cup Range(new)

(* A night more at a pinned stop; None stands for the kinds with no stop.    *)
AddDay(after) ==
  /\ \E hops \in Hidden :
       LET at == IF after = None THEN None ELSE Current(after, hops)
       IN /\ after # None => at \in Range(Served(events, hops))
          /\ Write(Append(events, [type |-> "add_day", day |-> Len(events), after |-> at]), hops)
  /\ kept' = kept

RemoveDay ==
  /\ \E hops \in Hidden : \E d \in Range(CustomDays(events, hops)) :
       Write(Append(events, [type |-> "remove_day", day |-> d.day]), hops)
  /\ kept' = kept

(* The catalog's side. *)

Change == changes < MaxChanges /\ changes + Len(events) < MaxEvents /\ changes' = changes + 1 /\ UNCHANGED saved

Without(i) == [j \in DOMAIN catalog \ {i} |-> catalog[j]]

(* An id goes to another, new or there already. *)
Goes(i, to) ==
  /\ Change
  /\ redirect' = Over([j \in {i} |-> to], redirect)
  /\ now' = [j \in 0..(next' - 1) |-> IF j \in Ids /\ now[j] # i THEN now[j] ELSE to]
  /\ steady' = steady \ {i}
  /\ status' = status

Rebuild(i) ==
  /\ next' = next + 1
  /\ Goes(i, next)
  /\ catalog' = Over([j \in {next} |-> catalog[i]], Without(i))
  /\ joined' = joined

Merge(i, into) ==
  /\ next' = next
  /\ Goes(i, into)
  /\ catalog' = Without(i)
  /\ joined' = joined \cup {into}

Drop(i) ==
  /\ Change
  /\ catalog' = Without(i)
  /\ UNCHANGED <<redirect, status, next, now, joined, steady>>

SetStatus(t, s) ==
  /\ Change
  /\ s # status[t]
  /\ s = "restored" => status[t] \notin Live
  /\ status' = [status EXCEPT ![t] = s]
  /\ UNCHANGED <<catalog, redirect, next, now, joined, steady>>

(* The pages may show the ids of before the last moves. *)
Shown == {Present(events, hops) : hops \in Hidden}

RouteOf(t) ==
  Listing({i \in DOMAIN FirstCatalog : FirstCatalog[i].tour = t},
          LAMBDA a, b : TourOrder([id |-> a, idx |-> FirstCatalog[a].idx], [id |-> b, idx |-> FirstCatalog[b].idx]))

Next ==
  \/ \E i \in Ids : AddComponent(i)
  \/ \E i \in UNION {Range(list) : list \in Shown} : RemoveComponent(i) \/ AddDay(i)
  \/ AddDay(None)
  \/ RemoveDay
  \/ \E list \in Shown : Reorder(Reverse(list))
  \/ \E t \in Tours : ApplyRoute(RouteOf(t))
  \/ \E i \in DOMAIN catalog : Rebuild(i)
  \/ \E i, j \in DOMAIN catalog : i # j /\ Merge(i, j)
  \/ \E i \in DOMAIN catalog : Drop(i)
  \/ \E t \in Tours, s \in Fates : SetStatus(t, s)

Spec == Init /\ [][Next]_vars

-----------------------------------------------------------------------------
(* What the traveller and the advisor are shown. *)

Trip == Itinerary(events, Hops)
Apart == UnavailableStops(events, Hops, Views)
Texts(book) == LoadForTours(book, {t \in Tours : status[t] \in Live})

(* Whatever the catalog does to its ids, the stops of the trip are the ones  *)
(* the traveller added and has not removed, each once, in the itinerary or   *)
(* listed apart, and an added night names its stop by the same id.  Only     *)
(* where places were merged may a remove of one take the other along         *)
(* (events._components_and_missing, component_ids.id_map).                   *)
NothingVanishes ==
  LET IdsOf(entries) == [n \in DOMAIN entries |-> entries[n].id]
      shown == IdsOf(Trip) \o IdsOf(Apart)
      wanted == {now[i] : i \in kept}
      blurred == {now[i] : i \in joined}
      nights == {d.after : d \in Range(CustomDays(events, Hops))} \ {None}
  IN /\ Len(shown) = Cardinality(Range(shown))
     /\ Range(shown) \subseteq wanted
     /\ wanted \ blurred \subseteq Range(shown)
     /\ \A i \in nights : now[i] \in wanted \ blurred => i \in Range(shown)

(* A stop listed apart that a traveller was shown is still named after every *)
(* later edit, as long as its id stands; it is called retired only when its  *)
(* tour is, and a view that cannot be read makes the reason vaguer, not      *)
(* another one (events._carried, availability.stop_reason).  Without v_tour  *)
(* a tour that was restored may be called paused.                            *)
GoneIsExplained ==
  \A u \in Range(Apart) : u.id \in steady =>
    /\ u.name # None
    /\ u.reason = "stop_removed" <=> status[u.tour] \in Live
    /\ u.reason = "retired" <=> status[u.tour] = "retired"
    /\ \A reads \in SUBSET Views :
         (status[u.tour] = "restored" => "v_tour" \in reads)
           => StopReason(u.tour, reads) \in {"not_served", u.reason}

(* The tour days of some entries, in their order; one that goes on is one.   *)
TourDays(entries) ==
  LET said[n \in 0..Len(entries)] ==
        IF n = 0 THEN <<>>
        ELSE LET before == said[n - 1]
                 k == OwnKey(entries[n])
             IN IF k = None \/ (before # <<>> /\ Last(before) = k) THEN before ELSE Append(before, k)
  IN said[Len(entries)]

(* The tour days that some legs go over. *)
Walked(legs) ==
  LET days[n \in 0..Len(legs)] ==
        IF n = 0 THEN <<>>
        ELSE days[n - 1] \o [m \in 1..(legs[n].to - legs[n].from + 1) |-> <<legs[n].tour, legs[n].from + m - 1>>]
  IN days[Len(legs)]

(* The legs of an inquiry, walked day by day, are the tour days of the trip  *)
(* in its order, the served stops' first; its days list every stop of the    *)
(* trip once; and without an order of the traveller's, the stops of a tour   *)
(* come together, in its day order, those without a day last                 *)
(* (handoff.leg_chain, build_payload, sequencing.sequence).                  *)
LegsCoverTheTrip ==
  LET trip == Trip
      apart == Apart
      days == InquiryDays(trip, apart)
  IN /\ \A b \in Books :
          Walked(Legs(trip, apart, Texts(b)))
            = TourDays(GuardedDays(trip, Texts(b))) \o TourDays(Placed(apart, LastDay(trip)))
     /\ Len(days) = Len(Present(events, Hops))
     /\ {e.id : e \in Range(days)} = Range(Present(events, Hops))
     /\ ExplicitOrder(events, Hops) = <<>> =>
          \A m, n \in DOMAIN trip :
            m < n /\ trip[m].tour = trip[n].tour =>
              /\ trip[n].idx = None \/ (trip[m].idx # None /\ trip[m].idx <= trip[n].idx)
              /\ \A o \in m..n : trip[o].tour = trip[m].tour

(* A text that is not of a stop's own tour day names the stop, is no other    *)
(* stop's own, and is told for one day only; the hand-off moves a stop only   *)
(* to such a day (master_content.resolve_days, guarded_days).                 *)
NoTextToldTwice ==
  LET trip == Trip
  IN \A b \in Books :
       LET texts == Texts(b)
           told == ResolveDays(trip, texts)
           listed == GuardedDays(trip, texts)
           Moves(e, k) == k[1] = e.tour /\ e.name \in texts[k] /\ k \notin OwnKeys(trip)
       IN /\ \A d \in DOMAIN told : told[d] # None /\ told[d] \notin OwnKeys(OfDay(trip, d)) =>
               /\ \E e \in Range(OfDay(trip, d)) : Moves(e, told[d])
               /\ \A o \in DOMAIN told \ {d} : told[o] # told[d]
          /\ \A n \in DOMAIN trip :
               OwnKey(listed[n]) = OwnKey(trip[n]) \/ Moves(trip[n], OwnKey(listed[n]))

(* "the projection keeps, per stop, what is needed to name a stop once the   *)
(* catalog stops serving it": as long as the stored projection names a stop, *)
(* under any id it has had, it is not listed apart without a name.           *)
NamedWhenGone ==
  \A u \in Range(Apart) :
    (\E i \in DOMAIN draft : now[i] = u.id /\ draft[i].name # None) => u.name # None

(* "Sequences the pinned components the same way the itinerary is built      *)
(* (deterministic nearest-neighbor), then takes the last one's lat/lng"      *)
(* (suggestions.py:174-175): a suggestion goes on from where the trip, in    *)
(* the order the traveller gave it, ends.                                    *)
NextIsFromTheEnd == Trip # <<>> => LastStopAt(events, Hops) = Last(Trip).at
=============================================================================
