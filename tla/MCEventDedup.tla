---------------------------- MODULE MCEventDedup ----------------------------
(* EventDedup with a feed of two events: a message with one of them, one     *)
(* with both, and one with another item ahead.                               *)
EXTENDS EventDedup

MCMessages == {<<"trade">>, <<"trade", "price">>, <<"book", "trade">>}
=============================================================================
