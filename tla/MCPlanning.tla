----------------------------- MODULE MCPlanning -----------------------------
(* Small instances of Planning. *)
EXTENDS Planning, TLC

CONSTANTS laos, siam, walk, boat

MCLand == 0 :> laos @@ 1 :> laos @@ 3 :> laos @@ 7 :> siam @@ 9 :> None

MCPasses == <<2, 4>>

Stop(t, d, p) == [tour |-> t, day |-> d, dest |-> p]

Place(t, d, n, p) == [tour |-> t, day |-> d, pos |-> n, dest |-> p]

(* The n-th experience of a tour's day. *)
Comp(t, d, n, p, look, activity) ==
  [id |-> 100 * t + 10 * d + n, tour |-> t, day |-> d, dest |-> p, look |-> look, activity |-> activity]

Link(t, i) == [source |-> t, id |-> i]

(* Four tours: a short one, one that starts near its end and stays a night, *)
(* one far away whose graph knows one day of its five, and one whose graph   *)
(* has an experience without an embedding only.                              *)
Short == {Stop(1, 1, 0), Stop(1, 2, 1)}
Long == {Stop(2, 1, 1), Stop(2, 2, 1), Stop(2, 3, 3), Stop(2, 4, 7)}
Far == {Stop(3, 2, 7), Stop(3, 3, 9)}
Other == {Stop(4, 1, 3), Stop(4, 3, 0)}

Comps ==
  {Comp(1, 1, 1, 0, 0, walk), Comp(1, 1, 2, 0, 0, walk), Comp(1, 1, 3, 0, 0, boat), Comp(1, 1, 4, 0, 1, boat),
   Comp(1, 2, 1, 1, 4, boat), Comp(2, 2, 1, 1, 1, walk), Comp(2, 3, 1, 3, 2, boat), Comp(2, 4, 1, 7, 1, walk),
   Comp(3, 3, 1, 9, 3, walk), Comp(4, 3, 1, 0, None, boat)}

Places ==
  {Place(1, 1, 1, 0), Place(3, 1, 1, 7), Place(3, 2, 1, 0), Place(3, 2, 2, 7), Place(3, 3, 1, 7), Place(3, 5, 1, 9),
   Place(4, 1, 1, 9)}

Lengths == 1 :> 2 @@ 2 :> 4 @@ 3 :> 5 @@ 4 :> 5

(* Tours whose days are counted in more than one way: 5 has places on its    *)
(* days 1 and 10 and no length; the stops of 6, and its places, go on past    *)
(* its length; 7 stays three nights where there are two experiences, one of  *)
(* them of another tour; 8 has no more to pin by its places than by its      *)
(* graph; 9 has no length and one good place in three days; 10 has no stops, *)
(* and one of its two days has a place with an experience of its own.        *)
Odd ==
  [stops  |-> {Stop(6, 1, 0), Stop(6, 4, 3), Stop(7, 1, 7), Stop(8, 1, 1), Stop(8, 3, 1)},
   comps  |-> {Comp(6, 1, 1, 0, 0, walk), Comp(7, 1, 1, 7, 1, boat), Comp(7, 2, 1, 7, None, boat),
               Comp(8, 2, 1, 7, 1, walk), Comp(10, 1, 1, 0, 0, walk)},
   places |-> {Place(5, 1, 1, 0), Place(5, 10, 1, 7), Place(6, 1, 1, 0), Place(6, 4, 1, 7), Place(7, 1, 1, 7),
               Place(7, 2, 1, 7), Place(7, 3, 1, 7), Place(8, 2, 1, 0), Place(9, 1, 1, 0), Place(9, 2, 1, 1),
               Place(9, 5, 1, 9), Place(10, 2, 1, 0)},
   length |-> 5 :> 0 @@ 6 :> 2 @@ 7 :> 3 @@ 8 :> 2 @@ 9 :> 0 @@ 10 :> 2,
   upload |-> [t \in 5..10 |-> 100 + t]]

MCCatalogs ==
  {[stops |-> Short \cup Long \cup Far \cup Other, comps |-> Comps, places |-> Places, length |-> Lengths,
    upload |-> 1 :> 101 @@ 2 :> 102 @@ 3 :> 103 @@ 4 :> 104],
   [stops |-> Short \cup Far, comps |-> {c \in Comps : c.tour # 2}, places |-> Places,
    length |-> [Lengths EXCEPT ![1] = 4], upload |-> 1 :> 201 @@ 3 :> 103 @@ 4 :> 104],
   [stops |-> Long \cup Other, comps |-> {c \in Comps : c.tour # 1}, places |-> Places, length |-> Lengths,
    upload |-> 2 :> 102 @@ 3 :> 303 @@ 4 :> 104],
   [stops |-> Short \cup Long \cup Other, comps |-> {c \in Comps : c.tour \notin {3, 4}}, places |-> {},
    length |-> Lengths, upload |-> 1 :> 101 @@ 2 :> 102 @@ 4 :> 104],
   Odd}

MCLinks == {Link(t, 100 + t) : t \in 1..10} \cup {Link(None, 101), Link(None, 103)}
=============================================================================
