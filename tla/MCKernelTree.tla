----------------------------- MODULE MCKernelTree -----------------------------
(* Instances of KernelTree for TLC. *)
EXTENDS KernelTree, TLC

CONSTANTS first, again, other, agent, c, fix, series, b1, b2

Ask(root, bundle, commit, patch, thread, kconf, builds) ==
  [root |-> root, bundle |-> bundle, commit |-> commit, patch |-> patch,
   thread |-> thread, kconf |-> kconf, builds |-> builds]

\* In one root a bundle with a patch and a series, that bundle again, and another
\* with fragments for the same kernel; beside them, in a job's root, an agent that
\* looks at the unpatched commit.
OneRequest ==
  first :> Ask("wt", b1, c, fix, series, FALSE, TRUE) @@
  again :> Ask("wt", b1, c, fix, series, FALSE, TRUE) @@
  other :> Ask("wt", b2, c, fix, series, TRUE, TRUE) @@
  agent :> Ask("job", b2, c, None, None, FALSE, FALSE)

==============================================================================
