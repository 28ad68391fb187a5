---------------------------- MODULE MCHareHandler ----------------------------
(***************************************************************************)
(* One sender that equivocates in two layers: three distinct messages in  *)
(* one round of layer 1's session and two in layer 2's, handled           *)
(* concurrently while the two sessions open and close.                    *)
(***************************************************************************)
EXTENDS HareHandler

CONSTANTS l1, l2, sA, v1, v2, v3

MCLayers == {l1, l2}
MCSenders == {sA}
MCValues == {v1, v2, v3}
MCMsgs == {[layer |-> l1, sender |-> sA, value |-> v] : v \in MCValues}
          \cup {[layer |-> l2, sender |-> sA, value |-> v] : v \in {v1, v2}}
=============================================================================
