----------------------------- MODULE Sequencing -----------------------------
(***************************************************************************)
(* The days of a trip in visiting order (backend/assembly/sequencing.py).  *)
(* A stop is a record [id, tour, idx, at]: its AA tour and tour day, None  *)
(* where it has none, and its place on a line, which stands for the map:   *)
(* the distance of two places and which of two lies further west are all   *)
(* that is asked of coordinates.                                           *)
(***************************************************************************)
EXTENDS Integers, Functions, Lists

CONSTANT None

Distance(a, b) == IF a.at <= b.at THEN b.at - a.at ELSE a.at - b.at

Westmost(a, b) == a.at < b.at \/ (a.at = b.at /\ a.id <= b.id)

(* Within a tour: by its own days, stops without one last. *)
TourOrder(a, b) ==
  IF (a.idx = None) # (b.idx = None) THEN b.idx = None
  ELSE IF a.idx = b.idx THEN a.id <= b.id
  ELSE a.idx < b.idx

(* One block per tour; a stop of no tour is a block of its own. *)
Blocks(stops) ==
  {Listing({s \in stops : s.tour = t}, TourOrder) : t \in {s.tour : s \in stops} \ {None}}
    \cup {<<s>> : s \in {x \in stops : x.tour = None}}

(* The first block starts furthest west; the next one starts nearest to     *)
(* where the last one ended, ties by id.                                     *)
Nearer(last, a, b) ==
  \/ Distance(last, a) < Distance(last, b)
  \/ Distance(last, a) = Distance(last, b) /\ a.id <= b.id

FollowUp(done, left) ==
  CHOOSE b \in left : \A c \in left :
    IF done = <<>> THEN Westmost(b[1], c[1]) ELSE Nearer(done[Len(done)], b[1], c[1])

Sequence(stops) ==
  LET blocks == Blocks(stops)
      after[n \in 0..Cardinality(blocks)] ==
        IF n = 0 THEN [done |-> <<>>, left |-> blocks]
        ELSE LET b == FollowUp(after[n - 1].done, after[n - 1].left)
             IN [done |-> after[n - 1].done \o b, left |-> after[n - 1].left \ {b}]
  IN after[Cardinality(blocks)].done

(* One stop a day; consecutive stops of one tour day share it. *)
SharesDay(a, b) == a.tour # None /\ a.idx # None /\ a.tour = b.tour /\ a.idx = b.idx

(* The day of each stop of a visiting order. *)
Days(ordered) ==
  LET day[n \in 0..Len(ordered)] ==
        IF n = 0 THEN 0
        ELSE IF n > 1 /\ SharesDay(ordered[n - 1], ordered[n]) THEN day[n - 1]
        ELSE day[n - 1] + 1
  IN [n \in DOMAIN ordered |-> day[n]]

GroupIntoDays(ordered) ==
  [n \in DOMAIN ordered |-> Over(ordered[n], [day |-> Days(ordered)[n]])]
=============================================================================
