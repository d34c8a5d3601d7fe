---------------------------- MODULE MCOpencodeQueue ---------------------------
(* Instances of OpencodeQueue for TLC: the .cfg files give all values. *)
EXTENDS OpencodeQueue
==============================================================================
