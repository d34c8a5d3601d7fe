------------------------------ MODULE MCGuestRun ------------------------------
(* Instances of GuestRun for TLC: the .cfg files give all values. *)
EXTENDS GuestRun, TLC
==============================================================================
