--------------------------- MODULE MCFeedRefresh ----------------------------
(* Two workers, two jobs; version 2 does not parse in the passing run.     *)
EXTENDS FeedRefresh
=============================================================================
