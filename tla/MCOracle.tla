------------------------------ MODULE MCOracle ------------------------------
(***************************************************************************)
(* Two goroutines call the oracle while the node syncs and unsyncs, the   *)
(* bootstrap updater delivers an active set and epoch 1's first block is  *)
(* stored. Two layers per epoch, genesis at layer 1, confidence 1: layers *)
(* 3 and 4 use epoch 1's active set (4 by the confidence rule), layer 5   *)
(* epoch 2's, which has no beacon. The cache holds one epoch, so a second *)
(* epoch evicts the first, and maxSupportedN is 3, so committee sizes     *)
(* above the total weight reach it.                                       *)
(***************************************************************************)
EXTENDS Oracle, TLC

CONSTANTS c1, c2, a1, a2, a3, n1, n2, b1, b2

MCCallers == {c1, c2}
MCAtxs == {a1, a2, a3}
MCNodes == {n1, n2}
MCAtxNode == (a1 :> n1 @@ a2 :> n2 @@ a3 :> n1)
MCAtxWeight == (a1 :> 1 @@ a2 :> 2 @@ a3 :> 2)
MCEpochs == {1, 2}
MCAtxKnown == (1 :> {a1, a2} @@ 2 :> {a2, a3})
\* Epoch 1: one ballot with the local beacon, one with another, one whose
\* active set is missing. Epoch 2 has no beacon.
MCBallots == (1 :> {[beacon |-> b1, actives |-> {a1}],
                    [beacon |-> b2, actives |-> {a1, a2}],
                    [beacon |-> b1, actives |-> Missing]}
              @@ 2 :> {[beacon |-> b1, actives |-> {a2, a3}]})
MCFirstBlock == (1 :> {a1, a2} @@ 2 :> {})
MCBeacon == (1 :> b1 @@ 2 :> NoBeacon)
MCFallbackSets == {{a2}, {a2, a3}}

Call(op, l, cs, id, f, count, sig) ==
  [op |-> op, layer |-> l, cs |-> cs, id |-> id, f |-> f, count |-> count, sig |-> sig]

MCCalls ==
  { Call("validate", 3, 2, n1, 2, 1, TRUE),
    Call("calc", 4, 2, n1, 1, 0, TRUE),
    Call("calc", 3, 4, n2, 0, 0, TRUE),
    Call("validate", 5, 1, n1, 1, 1, TRUE),
    Call("calc", 3, 2, n1, 1, 0, TRUE),
    Call("validate", 3, 1, n2, 0, 1, FALSE),
    Call("calc", 3, 0, n1, 0, 0, TRUE),
    Call("isactive", 1, 1, n2, 0, 0, TRUE),
    Call("isactive", 3, 1, n2, 0, 0, TRUE),
    Call("activeset", 2, 1, n1, 0, 0, TRUE) }
=============================================================================
