------------------------------ MODULE MCRcPool ------------------------------
(***************************************************************************)
(* Two items, three entries, at most two references per entry. FreeBit    *)
(* stands for 1 << 31 scaled down to 4: it only has to exceed every index *)
(* and count the model reaches, as 1 << 31 does in the code.              *)
(***************************************************************************)
EXTENDS RcPool

CONSTANTS i1, i2

MCItems == {i1, i2}
MCFreeBit == 4
MCMaxEntries == 3
MCMaxRefs == 2
=============================================================================
