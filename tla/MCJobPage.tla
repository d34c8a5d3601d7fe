------------------------------- MODULE MCJobPage -------------------------------
(* The instance of JobPage for TLC: jobs that say much of one kind each. *)
EXTENDS JobPage, TLC

J(s, m, p, l, n) == [scaffold |-> s, model |-> m, phases |-> p, lines |-> l, samples |-> n]

MCJobs == { J(TRUE, TRUE, 1, 0, 0), J(TRUE, FALSE, 2, 1, 0), J(TRUE, FALSE, 1, 0, 2),
            J(FALSE, TRUE, 1, 0, 0) }
================================================================================
