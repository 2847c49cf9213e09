--------------------------- MODULE MCMergeReceiver ---------------------------
(* Instances of MergeReceiver for TLC: two handlers that share or swap two  *)
(* universes, and one that meets a callback.                                *)
EXTENDS MergeReceiver
=============================================================================
