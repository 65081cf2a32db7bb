---------------------------- MODULE MCRendezvous ----------------------------
(***************************************************************************)
(* Three provider processes for one screen.  Two are started with the same *)
(* socket path, the third with another spelling of the display.            *)
(***************************************************************************)
EXTENDS Rendezvous, TLC

CONSTANTS p1, p2, p3, s1, s2

MCSock == p1 :> s1 @@ p2 :> s1 @@ p3 :> s2
MCSamePair == p1 :> s1 @@ p2 :> s1
=============================================================================
