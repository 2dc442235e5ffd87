------------------------------ MODULE MCStops ------------------------------
(* Small instances of Stops. *)
EXTENDS Stops

CONSTANTS rajasthan, nepal, fort, lake, temple

(* Two stops on consecutive days of one tour, one of another between them;   *)
(* id 0 is an id of the first from before the flip.                          *)
MCCatalog ==
  1 :> [tour |-> rajasthan, idx |-> 1, name |-> fort]
    @@ 2 :> [tour |-> rajasthan, idx |-> 2, name |-> lake]
    @@ 3 :> [tour |-> nepal, idx |-> 1, name |-> temple]

MCStatus == rajasthan :> "live" @@ nepal :> "restored"

MCIdRows == 0 :> 1

MCAt == fort :> 0 @@ temple :> 1 @@ lake :> 2

Day(d, names) == [day |-> d, names |-> names]

(* The first tour's texts: as the catalog says; on other days; both stops on *)
(* one other day; none.                                                      *)
MCBooks ==
  {rajasthan :> <<Day(1, {fort}), Day(2, {lake}), Day(2, {fort})>> @@ nepal :> <<Day(1, {temple})>>,
   rajasthan :> <<Day(1, {}), Day(2, {fort}), Day(3, {fort, lake})>>,
   rajasthan :> <<Day(1, {lake}), Day(2, {}), Day(3, {fort}), Day(4, {lake})>>}
=============================================================================
