----------------------------- MODULE MCJobServer -----------------------------
(* Instances of JobServer for TLC. *)
EXTENDS JobServer, TLC

\* df that always shows room; and df that is short, roomy, or failed (u64::MAX).
RoomyDf == {[avail |-> 50, total |-> 50]}
ShortDf == {[avail |-> 2, total |-> 9], [avail |-> 50, total |-> 50]}
VaryingDf == {[avail |-> 2, total |-> 9], [avail |-> 6, total |-> 9], [avail |-> 99, total |-> 99]}

\* A new id's directory is absent, or was left by an id of a wiped database.
NoStale == {{}}
Stale == {{}, {"logs", "bundle", "spec"}}

Symmetry == Permutations(BundleJobs)
==============================================================================
