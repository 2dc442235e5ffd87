---------------------------- MODULE ComponentIds ----------------------------
(***************************************************************************)
(* The current id of a component that a trip's log names by an older one   *)
(* (backend/shared/component_ids.py).  Two tables move ids:                *)
(* tripplanner.component_id_map and the catalog's v_component_redirect,    *)
(* here functions from an id to the next.  Every query of a call is a hop; *)
(* the redirect view may become unreadable before any of them.             *)
(***************************************************************************)
EXTENDS Naturals, Sequences, Functions

CONSTANT Hops   \* REDIRECT_HOPS

ASSUME HopsAssumption == Hops \in Nat

(* How many hops of a call read the redirect view. *)
Readable == 0..Hops

NoRows == <<>>

(* Where an id goes next; itself when neither table moves it. *)
NextHop(map, redirects, i) ==
  IF i \in DOMAIN map THEN map[i] ELSE IF i \in DOMAIN redirects THEN redirects[i] ELSE i

(* Where an id gets to and what it has been: it stops at the end of its      *)
(* chain, before an id it has been, and after Hops hops.                     *)
Walk(map, redirects, readable, i) ==
  LET at[n \in 0..Hops] ==
        IF n = 0 THEN [id |-> i, been |-> {i}]
        ELSE LET before == at[n - 1]
                 to == NextHop(map, IF n <= readable THEN redirects ELSE NoRows, before.id)
             IN IF to \in before.been THEN before ELSE [id |-> to, been |-> before.been \cup {to}]
  IN at[Hops]

IdMap(map, redirects, readable, i) == Walk(map, redirects, readable, i).id

(* A list without what it has already said. *)
Distinct(list) ==
  LET said[n \in 0..Len(list)] ==
        IF n = 0 THEN <<>>
        ELSE LET before == said[n - 1]
             IN IF list[n] \in Range(before) THEN before ELSE Append(before, list[n])
  IN said[Len(list)]

Resolve(map, redirects, readable, ids) ==
  Distinct([n \in DOMAIN ids |-> IdMap(map, redirects, readable, ids[n])])
=============================================================================
