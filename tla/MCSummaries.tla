----------------------------- MODULE MCSummaries ------------------------------
(* Instances of Summaries for TLC: the .cfg files give all values. *)
EXTENDS Summaries, TLC
==============================================================================
