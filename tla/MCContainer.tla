----------------------------- MODULE MCContainer -----------------------------
EXTENDS Container

CONSTANTS s1, s2

Nothing == [mongo |-> Off, mysql |-> Off, redis |-> Off, cluster |-> FALSE, prom |-> Off,
            parts |-> [p \in Parts |-> IF p = "gops" THEN Off ELSE s1]]

(* Every component alone, with both settings where that matters to a       *)
(* reload, and the pairs that a request or the order of a reload can tell  *)
(* apart.                                                                  *)
MCDocs ==
  {Nothing,
   [Nothing EXCEPT !.mongo = s1], [Nothing EXCEPT !.mongo = s2],
   [Nothing EXCEPT !.mysql = s1], [Nothing EXCEPT !.mysql = s2],
   [Nothing EXCEPT !.redis = s1], [Nothing EXCEPT !.redis = s2],
   [Nothing EXCEPT !.redis = s1, !.cluster = TRUE],
   [Nothing EXCEPT !.parts = [p \in Parts |-> s2]],
   [Nothing EXCEPT !.mysql = s1, !.redis = s2],
   [Nothing EXCEPT !.mysql = s1, !.prom = s1]}
=============================================================================
