-------------------------- MODULE MCActivityBroker --------------------------
(* Two facts that are read one after the other, one device, two changes: a  *)
(* fact may change and change back, and the input class with it.            *)
EXTENDS ActivityBroker
=============================================================================
