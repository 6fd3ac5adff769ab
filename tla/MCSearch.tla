------------------------------ MODULE MCSearch ------------------------------
(* One request slot, used again after its answer, over three episodes; a   *)
(* leg returns nothing, or two of them in an order that makes legs agree,  *)
(* disagree and tie.                                                       *)
EXTENDS Search

MCRankings == {<<>>, <<1, 2>>, <<3, 1>>}
=============================================================================
