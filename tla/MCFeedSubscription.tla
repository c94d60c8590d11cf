------------------------- MODULE MCFeedSubscription -------------------------
(* FeedSubscription on the instances of the configurations. *)
EXTENDS FeedSubscription
=============================================================================
