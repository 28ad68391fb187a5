--------------------------- MODULE MCHareScheduler ---------------------------
(* Model-checking instance of HareScheduler: two consecutive layers whose   *)
(* sessions overlap, one signer, two iterations (so that a result can come  *)
(* in an iteration before the last one and termination is checked against   *)
(* the iterations limit), and channels of capacity 1 so that a blocked send *)
(* happens.                                                                 *)
EXTENDS HareScheduler

CONSTANTS s1

MCNumLayers == 2
MCSigners == {s1}
MCIterationsLimit == 2
MCChanCap == 1
==============================================================================
