---- MODULE MCJobQueue ----
(* Two jobs, the first with three attempts and the second with one. *)
EXTENDS JobQueue

CONSTANTS j1, j2

MCMaxAttempts == [j \in Jobs |-> IF j = j1 THEN 3 ELSE 1]
====
