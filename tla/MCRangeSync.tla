----------------------------- MODULE MCRangeSync -----------------------------
(***************************************************************************)
(* Four keys, every pair of initial stores and every bound: wrapped       *)
(* ranges, splits of ranges of more than MaxSendRange items, item batches  *)
(* of two keys, and a sample of three smaller than a four-item range all   *)
(* occur. MCRangeSync.cfg uses MaxSendRange 2.                            *)
(***************************************************************************)
EXTENDS RangeSync

MCKeys == 1..4

=============================================================================
