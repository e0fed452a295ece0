------------------------------ MODULE MCUAPBus ------------------------------
(***************************************************************************)
(* UAPBus with a door that opens and is closed, with an error.  *)
(***************************************************************************)
EXTENDS UAPBus

MCHeard == {<<"opening", "no">>, <<"closed", "yes">>}
=============================================================================
