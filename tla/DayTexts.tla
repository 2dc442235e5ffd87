------------------------------ MODULE DayTexts ------------------------------
(***************************************************************************)
(* AA's own text for the days of a trip, and the legs a hand-off is made   *)
(* of (backend/assembly/master_content.py, handoff.py).  An entry of the   *)
(* itinerary is a stop of Sequencing with its trip day and its name, None  *)
(* where it has none.  A text is the set of the names it mentions; texts   *)
(* are indexed by <<tour, tour day>>.                                      *)
(***************************************************************************)
EXTENDS Sequencing, SequencesExt

(* A tour's block is the list of its sections [day, names], as their headers *)
(* split it; of two sections of one day the first counts.                    *)
ParseDays(block) ==
  [d \in {b.day : b \in Range(block)} |->
     block[CHOOSE n \in DOMAIN block : /\ block[n].day = d
                                       /\ \A o \in 1..(n - 1) : block[o].day # d].names]

(* The texts of the tours that have any; nothing when they cannot be read.   *)
LoadForTours(blocks, tours) ==
  LET read == tours \cap DOMAIN blocks
  IN [k \in UNION {{t} \X DOMAIN ParseDays(blocks[t]) : t \in read} |-> ParseDays(blocks[k[1]])[k[2]]]

OwnKey(e) == IF e.tour = None \/ e.idx = None THEN None ELSE <<e.tour, e.idx>>

OwnKeys(itinerary) == {OwnKey(e) : e \in Range(itinerary)} \ {None}

Confirms(e, text) == e.name = None \/ e.name \in text

(* Mutant: a day another entry has as its own may be taken. *)
Mut_Free(e, texts, unavailable) ==
  {k \in DOMAIN texts : k[1] = e.tour /\ k[2] # e.idx /\ e.name # None /\ e.name \in texts[k]}

(* The other days of its tour that name an entry's stop and are free. *)
Free(e, texts, unavailable) ==
  {k \in DOMAIN texts : /\ k[1] = e.tour /\ k[2] # e.idx /\ k \notin unavailable
                        /\ e.name # None /\ e.name \in texts[k]}

Off(k, e) == IF k[2] < e.idx THEN e.idx - k[2] ELSE k[2] - e.idx

(* The nearest of them, the earlier of two as near. *)
Redirect(e, texts, unavailable) ==
  IF OwnKey(e) = None \/ Free(e, texts, unavailable) = {} THEN None
  ELSE CHOOSE k \in Free(e, texts, unavailable) : \A o \in Free(e, texts, unavailable) :
         Off(k, e) < Off(o, e) \/ (Off(k, e) = Off(o, e) /\ k[2] <= o[2])

(* The first key an entry of a day has. *)
FirstKey(entries, Key(_)) ==
  LET has == {n \in DOMAIN entries : Key(entries[n]) # None}
  IN IF has = {} THEN None ELSE Key(entries[CHOOSE n \in has : \A o \in has : n <= o])

LastDay(itinerary) == IF itinerary = <<>> THEN 0 ELSE Last(itinerary).day

OfDay(itinerary, d) == Only(itinerary, {e \in Range(itinerary) : e.day = d})

Confirmed(e, texts) ==
  IF OwnKey(e) \in DOMAIN texts /\ Confirms(e, texts[OwnKey(e)]) THEN OwnKey(e) ELSE None

OwnText(e, texts) == IF OwnKey(e) \in DOMAIN texts THEN OwnKey(e) ELSE None

(* The days with a confirmed own day take their texts first; then each other *)
(* day in turn takes a free day that names one of its stops, else its own    *)
(* text as it is, else none.                                                 *)
ResolveDays(itinerary, texts) ==
  LET days == 1..LastDay(itinerary)
      sure == [d \in days |-> FirstKey(OfDay(itinerary, d), LAMBDA e : Confirmed(e, texts))]
      Pending(d, gone) ==
        LET moved == FirstKey(OfDay(itinerary, d), LAMBDA e : Redirect(e, texts, gone))
        IN IF moved # None THEN moved
           ELSE FirstKey(OfDay(itinerary, d), LAMBDA e : OwnText(e, texts))
      pick[d \in 0..LastDay(itinerary)] ==
        IF d = 0 THEN [keys |-> <<>>, taken |-> Range(sure) \ {None}]
        ELSE LET before == pick[d - 1]
                 key == IF sure[d] # None THEN sure[d]
                        ELSE Pending(d, OwnKeys(itinerary) \cup before.taken)
             IN [keys |-> Append(before.keys, key), taken |-> before.taken \cup ({key} \ {None})]
  IN pick[LastDay(itinerary)].keys

(* The days that are left to the model. *)
Untold(itinerary, texts) ==
  {d \in 1..LastDay(itinerary) : ResolveDays(itinerary, texts)[d] = None}

(* An entry as the hand-off lists it: moved to the day that names its stop. *)
Guarded(e, texts, owned) ==
  LET moved == IF OwnKey(e) \in DOMAIN texts /\ ~Confirms(e, texts[OwnKey(e)])
               THEN Redirect(e, texts, owned) ELSE None
  IN IF moved = None THEN e ELSE [e EXCEPT !.idx = moved[2]]

GuardedDays(itinerary, texts) ==
  [n \in DOMAIN itinerary |-> Guarded(itinerary[n], texts, OwnKeys(itinerary))]

-----------------------------------------------------------------------------
(* Legs. *)

(* Mutant: a leg is any run of days of one tour. *)
Mut_Continues(leg, e) == leg.tour = e.tour

(* Several activities of a tour day, or its next day. *)
Continues(leg, e) == leg.tour = e.tour /\ e.idx \in {leg.to, leg.to + 1}

(* Consecutive days of one tour are one leg; a day of no tour has none. *)
LegChain(itinerary) ==
  LET legs[n \in 0..Len(itinerary)] ==
        IF n = 0 THEN <<>>
        ELSE LET before == legs[n - 1]
                 e == itinerary[n]
             IN IF OwnKey(e) = None THEN before
                ELSE IF before # <<>> /\ Continues(Last(before), e)
                THEN [before EXCEPT ![Len(before)] = [@ EXCEPT !.to = e.idx]]
                ELSE Append(before, [tour |-> e.tour, from |-> e.idx, to |-> e.idx])
  IN legs[Len(itinerary)]

(* The stops that are no longer served keep their last day; those without    *)
(* one come after the last served day.                                       *)
Placed(unavailable, last) ==
  LET at == [n \in DOMAIN unavailable |->
               [unavailable[n] EXCEPT !.day = IF @ = None THEN last + 1 ELSE @]]
      order == Listing(DOMAIN at, LAMBDA m, n : at[m].day < at[n].day
                                                  \/ (at[m].day = at[n].day /\ m <= n))
  IN [n \in DOMAIN order |-> at[order[n]]]

(* The legs of an inquiry: those of the served stops, then the others'. *)
Legs(itinerary, unavailable, texts) ==
  LegChain(GuardedDays(itinerary, texts))
    \o LegChain(Placed(unavailable, LastDay(itinerary)))

(* Its days list the stops as they are, unguarded. *)
InquiryDays(itinerary, unavailable) ==
  itinerary \o Placed(unavailable, LastDay(itinerary))
=============================================================================
