---------------------------- MODULE JobLifecycle -----------------------------
(***************************************************************************)
(* What the job server promises about a job row, whatever its handlers,    *)
(* scheduler, runner tasks and restarts do: a job is created once, waits,  *)
(* is active in one of at most Cap places, and ends exactly once.  A       *)
(* restart of the server ends everything that had not ended.               *)
(***************************************************************************)
EXTENDS Naturals, FiniteSets

CONSTANTS Jobs, Cap

VARIABLE row   \* the status column of each job's row; "none" before it exists

Ended == {"done", "failed"}
RowStatus == {"none", "queued", "running"} \cup Ended

Active == {j \in Jobs : row[j] = "running"}

Init == row = [j \in Jobs |-> "none"]

Create(j) ==
  /\ row[j] = "none"
  /\ row' = [row EXCEPT ![j] = "queued"]

Start(j) ==
  /\ row[j] = "queued"
  /\ Cardinality(Active) < Cap
  /\ row' = [row EXCEPT ![j] = "running"]

\* A job can fail before it was ever marked running; only a running one is done.
End(j) ==
  \/ /\ row[j] \in {"queued", "running"}
     /\ row' = [row EXCEPT ![j] = "failed"]
  \/ /\ row[j] = "running"
     /\ row' = [row EXCEPT ![j] = "done"]

\* A restart fails every job that was waiting or active, in one step.
Recover ==
  row' = [j \in Jobs |-> IF row[j] \in {"queued", "running"} THEN "failed" ELSE row[j]]

Next == Recover \/ \E j \in Jobs : Create(j) \/ Start(j) \/ End(j)

Spec == Init /\ [][Next]_row
==============================================================================
