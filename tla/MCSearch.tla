----------------------------- MODULE MCSearch -----------------------------
(* Two models, one of them on two accounts, and two queries.          *)
EXTENDS Search

CONSTANTS A, B, x, y, blank

MCBases == {A, B}

MCQueries == {x, y, blank}

ModelRow(key, base, enabled) ==
  [key |-> key, base |-> base, enabled |-> enabled]

a2 == ModelRow("a2", A, TRUE)
a3 == ModelRow("a3", A, TRUE)
b2 == ModelRow("b2", B, TRUE)

MCRoutes == {<<a2>>, <<a2, a3>>, <<a2, b2>>, <<b2>>}
=============================================================================
