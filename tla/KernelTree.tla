------------------------------ MODULE KernelTree ------------------------------
(***************************************************************************)
(* The kernel trees run-kernel.py builds in: the git repository LINUX_SRC  *)
(* that all runs share, the cached worktrees below a worktree root, the    *)
(* patch and the thread series applied there, and the configured and built *)
(* output that a later run takes over when the cache key says it may.      *)
(*                                                                         *)
(* A run is one process (a job's pipeline, its scaffold agent, or a run by *)
(* hand), an action one command it executes.  The service gives every job  *)
(* a worktree root of its own; runs by hand share a root, one after the    *)
(* other.  Left out: LINUX_SRC that is no git repository, an output        *)
(* directory outside the tree, and what follows the boot.                  *)
(***************************************************************************)
EXTENDS Naturals, FiniteSets

CONSTANTS
  Runs,
  Want,       \* what each run asks for: a Request
  Unlucky,    \* runs that may be interrupted or see a command fail
  None,       \* no commit, patch, series, key, config, image
  Head,       \* the commit LINUX_SRC has checked out
  Commits,    \* those the remote has
  FetchTries, \* FETCH_TRIES
  MaxEdits    \* bound on the edits of the scripts and kconf fragments

Changes(r) == {Want[r].patch, Want[r].thread} \ {None}
\* enforce_hardened: whatever names a kernel other than LINUX_SRC's HEAD gets url.
Remote(r) == Want[r].commit # None \/ Changes(r) # {}
Commit(r) == IF Want[r].commit = None THEN Head ELSE Want[r].commit
\* The worktree is named after the resolved commit, below the run's root.
WT(r) == <<Want[r].root, Commit(r)>>
Worktrees == {WT(r) : r \in Runs}

ASSUME TreeAssumption ==
  /\ IsFiniteSet(Runs)
  /\ \A r \in Runs : Want[r].kconf \in BOOLEAN /\ Want[r].builds \in BOOLEAN
  /\ \A r \in Runs : Want[r].bundle # None
  /\ Unlucky \subseteq Runs
  /\ None \notin Commits \cup {Head}
  /\ FetchTries \in Nat \ {0}
  /\ MaxEdits \in Nat

VARIABLES
  pc,       \* where each run is
  cause,    \* the command a run died of
  tries,    \* fetches it began
  behind,   \* another fetch updated the refs since its own began
  newkey,   \* the cache key it computed
  began,    \* the edition of the scripts when it began
  remote,   \* LINUX_SRC has the remote mk-<hash>
  present,  \* the remote's commits are in LINUX_SRC
  reg,      \* worktrees registered in LINUX_SRC/.git/worktrees
  tree,     \* the worktrees and the output in them
  edition,  \* of the scripts and kconf fragments (_repo_hash)
  booted    \* the image each run booted

shared == <<remote, present, reg>>
process == <<cause, tries, behind, newkey, began, booted>>
vars == <<pc, process, shared, tree, edition>>

NoTree == [git |-> FALSE,    \* .git is there
           src |-> {},       \* patches and series applied
           half |-> "none",  \* one of them was cut short: "apply" or "am"
           marks |-> {},     \* .mk-patched, .mk-thread-patched
           key |-> None,     \* .mk-cache-key
           config |-> None,  \* .config: [bundle, edition, whole]
           image |-> None]   \* the kernel image: [src, half, config]

Config(r, whole) == [bundle |-> Want[r].bundle, edition |-> edition, whole |-> whole]

Preparing == {"remotes", "add", "fetch", "fetching", "resolve", "prune", "worktree",
              "patch", "apply", "mark", "thread", "am", "markam"}
Building == {"key", "unlink", "writekey", "configure", "build", "boot"}
Active == Preparing \cup Building
PC == Active \cup {"idle", "died", "over"}

Init ==
  /\ pc = [r \in Runs |-> "idle"]
  /\ cause = [r \in Runs |-> "none"]
  /\ tries = [r \in Runs |-> 0]
  /\ behind = [r \in Runs |-> FALSE]
  /\ newkey = [r \in Runs |-> None]
  /\ began = [r \in Runs |-> 0]
  /\ remote = FALSE /\ present = FALSE /\ reg = {}
  /\ tree = [w \in Worktrees |-> NoTree]
  /\ edition = 0
  /\ booted = [r \in Runs |-> None]

Goto(r, to) == pc' = [pc EXCEPT ![r] = to]
Go(r, from, to) == pc[r] = from /\ Goto(r, to) /\ UNCHANGED process
\* fetch_with_retry's count begins and ends with it.
Forget(r) == tries' = [tries EXCEPT ![r] = 0] /\ behind' = [behind EXCEPT ![r] = FALSE]
\* die(), or an exception nobody catches; what an unlucky run dies of is not recorded.
Die(r, why) ==
  /\ Goto(r, "died")
  /\ cause' = IF r \in Unlucky THEN cause ELSE [cause EXCEPT ![r] = why]
  /\ Forget(r)
  /\ UNCHANGED <<newkey, began, booted>>

------------------------------------------------------------------------------
(* The shared repository.                                                  *)

\* Runs with the same worktree root come one after the other.
Begin(r) ==
  /\ pc[r] = "idle"
  /\ \A q \in Runs : Want[q].root = Want[r].root => pc[q] \notin Active
  /\ Goto(r, IF Remote(r) THEN "remotes" ELSE "resolve")
  /\ began' = [began EXCEPT ![r] = edition]
  /\ UNCHANGED <<cause, tries, behind, newkey, booted, shared, tree, edition>>

Have(commit) == commit = Head \/ (present /\ commit \in Commits)
\* Have the commit already, or fetch all refs.
AfterRemote(r) == IF Want[r].commit # None /\ Have(Want[r].commit) THEN "resolve" ELSE "fetch"

\* `git remote`, then the check for the commit.
ListRemotes(r) ==
  /\ Go(r, "remotes", IF remote THEN AfterRemote(r) ELSE "add")
  /\ UNCHANGED <<shared, tree, edition>>

\* `git remote add` with check=True: another run may have been first.
AddRemote(r) ==
  /\ pc[r] = "add"
  /\ IF remote THEN Die(r, "remote") ELSE Go(r, "add", AfterRemote(r))
  /\ remote' = TRUE
  /\ UNCHANGED <<present, reg, tree, edition>>

FetchBegins(r) ==
  /\ pc[r] = "fetch"
  /\ Goto(r, "fetching")
  /\ tries' = [tries EXCEPT ![r] = @ + 1]
  /\ behind' = [behind EXCEPT ![r] = FALSE]
  /\ UNCHANGED <<cause, newkey, began, booted, shared, tree, edition>>

\* The refs are updated, under the feet of other fetches.
FetchSucceeds(r) ==
  /\ pc[r] = "fetching"
  /\ Goto(r, "resolve")
  /\ present' = TRUE
  /\ tries' = [tries EXCEPT ![r] = 0]
  /\ behind' = [q \in Runs |-> q # r /\ (behind[q] \/ pc[q] = "fetching")]
  /\ UNCHANGED <<cause, newkey, began, booted, remote, reg, tree, edition>>

\* Mutant: the first failure is final.
FetchFails_NoRetry(r) ==
  /\ pc[r] = "fetching" /\ (behind[r] \/ r \in Unlucky)
  /\ Die(r, "fetch")
  /\ UNCHANGED <<shared, tree, edition>>

\* "Concurrent fetches into the shared LINUX_SRC lose a ref compare-and-swap".
FetchFails(r) ==
  /\ pc[r] = "fetching" /\ (behind[r] \/ r \in Unlucky)
  /\ IF tries[r] < FetchTries THEN Go(r, "fetching", "fetch") ELSE Die(r, "fetch")
  /\ UNCHANGED <<shared, tree, edition>>

Resolve(r) ==
  /\ pc[r] = "resolve"
  /\ IF Have(Commit(r)) THEN Go(r, "resolve", "prune") ELSE Die(r, "commit")
  /\ UNCHANGED <<shared, tree, edition>>

\* `git worktree prune` forgets worktrees whose directory is gone.
Existing == {w \in Worktrees : tree[w].git}

Prune(r) ==
  /\ Go(r, "prune", "worktree")
  /\ reg' = reg \cap Existing
  /\ UNCHANGED <<remote, present, tree, edition>>

\* Reuse a worktree that has .git, else `git worktree add`, which refuses a path
\* that is registered.  Git removes what an interrupted add left.
AddWorktree(r) ==
  /\ pc[r] = "worktree"
  /\ \/ tree[WT(r)].git /\ Go(r, "worktree", "patch") /\ UNCHANGED <<reg, tree>>
     \/ /\ ~tree[WT(r)].git /\ WT(r) \notin reg
        /\ Go(r, "worktree", "patch")
        /\ reg' = reg \cup {WT(r)}
        /\ tree' = [tree EXCEPT ![WT(r)] = [NoTree EXCEPT !.git = TRUE]]
     \/ /\ ~tree[WT(r)].git /\ (WT(r) \in reg \/ r \in Unlucky)
        /\ Die(r, "worktree")
        /\ UNCHANGED <<reg, tree>>
  /\ UNCHANGED <<remote, present, edition>>

------------------------------------------------------------------------------
(* The patch and the series.                                               *)

NeedsPatch(r) == Want[r].patch # None /\ "patch" \notin tree[WT(r)].marks
NeedsThread(r) == Want[r].thread # None /\ "thread" \notin tree[WT(r)].marks

LookForPatch(r) ==
  /\ Go(r, "patch", IF NeedsPatch(r) THEN "apply" ELSE "thread")
  /\ UNCHANGED <<shared, tree, edition>>

\* `git apply` checks all of the patch before it writes; what is applied already
\* or half applied does not apply again.
Apply(r) ==
  LET t == tree[WT(r)] IN
  /\ pc[r] = "apply"
  /\ \/ /\ t.half # "apply" /\ Want[r].patch \notin t.src
        /\ Go(r, "apply", "mark")
        /\ tree' = [tree EXCEPT ![WT(r)].src = @ \cup {Want[r].patch}]
     \/ /\ t.half = "apply" \/ ~(t.src \subseteq Changes(r)) \/ Want[r].patch \in t.src
        /\ Die(r, "patch") /\ UNCHANGED tree
     \/ /\ r \in Unlucky
        /\ Die(r, "patch")
        /\ tree' \in {tree, [tree EXCEPT ![WT(r)].half = "apply"]}
  /\ UNCHANGED <<shared, edition>>

Mark(r, from, to, what) ==
  /\ Go(r, from, to)
  /\ tree' = [tree EXCEPT ![WT(r)].marks = @ \cup {what}]
  /\ UNCHANGED <<shared, edition>>

MarkPatch(r) == Mark(r, "mark", "thread", "patch")

\* Where prepare_kernel_tree returns to: run_bundle, or the agent.
Prepared(r) == IF Want[r].builds THEN "key" ELSE "over"

\* Mutant: the marker is written first, so that no series is applied twice.
LookForThread_Marks(r) ==
  /\ Go(r, "thread", IF NeedsThread(r) THEN "am" ELSE Prepared(r))
  /\ tree' = IF NeedsThread(r) THEN [tree EXCEPT ![WT(r)].marks = @ \cup {"thread"}] ELSE tree
  /\ UNCHANGED <<shared, edition>>

LookForThread(r) ==
  /\ Go(r, "thread", IF NeedsThread(r) THEN "am" ELSE Prepared(r))
  /\ UNCHANGED <<shared, tree, edition>>

\* `git am -3` passes over what is in the tree already.  One that was cut short
\* blocks the next, whose failure aborts both.
Am(r) ==
  LET t == tree[WT(r)] IN
  /\ pc[r] = "am"
  /\ \/ /\ t.half # "am"
        /\ Go(r, "am", "markam")
        /\ tree' = [tree EXCEPT ![WT(r)].src = @ \cup {Want[r].thread}]
     \/ /\ t.half # "none" \/ ~(t.src \subseteq Changes(r)) \/ r \in Unlucky
        /\ Die(r, "thread")
        /\ tree' = [tree EXCEPT ![WT(r)].half = IF @ = "am" THEN "none" ELSE @]
     \/ /\ r \in Unlucky /\ t.half = "none"
        /\ Die(r, "thread")
        /\ tree' = [tree EXCEPT ![WT(r)].half = "am"]
  /\ UNCHANGED <<shared, edition>>

MarkThread(r) == Mark(r, "markam", Prepared(r), "thread")

------------------------------------------------------------------------------
(* Configure, build and boot.                                              *)

\* The key is the bundle's hash with that of the scripts and fragments.
CompareKey(r) ==
  LET k == [bundle |-> Want[r].bundle, edition |-> edition] IN
  /\ pc[r] = "key"
  /\ Goto(r, IF tree[WT(r)].key = k THEN "configure" ELSE "unlink")
  /\ newkey' = [newkey EXCEPT ![r] = k]
  /\ UNCHANGED <<cause, tries, behind, began, booted, shared, tree, edition>>

\* Mutant: the image of the previous key is kept.
Unlink_ConfigOnly(r) ==
  /\ Go(r, "unlink", "writekey")
  /\ tree' = [tree EXCEPT ![WT(r)].config = None]
  /\ UNCHANGED <<shared, edition>>

Unlink(r) ==
  /\ Go(r, "unlink", "writekey")
  /\ tree' = [tree EXCEPT ![WT(r)].config = None, ![WT(r)].image = None]
  /\ UNCHANGED <<shared, edition>>

WriteKey(r) ==
  /\ Go(r, "writekey", "configure")
  /\ tree' = [tree EXCEPT ![WT(r)].key = newkey[r]]
  /\ UNCHANGED <<shared, edition>>

\* configure-kernel.py, when there are fragments or no .config.  It writes a
\* .config with its first command and completes it with its last.
Configure(r) ==
  /\ pc[r] = "configure"
  /\ \/ /\ ~Want[r].kconf /\ tree[WT(r)].config # None
        /\ Go(r, "configure", "build") /\ UNCHANGED tree
     \/ /\ Want[r].kconf \/ tree[WT(r)].config = None
        /\ Go(r, "configure", "build")
        /\ tree' = [tree EXCEPT ![WT(r)].config = Config(r, TRUE)]
     \/ /\ Want[r].kconf \/ tree[WT(r)].config = None
        /\ r \in Unlucky
        /\ Die(r, "configure")
        /\ tree' \in {tree, [tree EXCEPT ![WT(r)].config = Config(r, FALSE)]}
  /\ UNCHANGED <<shared, edition>>

\* build-kernel.py, when there are fragments or no image; make brings the image
\* up to date with the sources and .config.
Build(r) ==
  LET t == tree[WT(r)] IN
  /\ pc[r] = "build"
  /\ \/ /\ ~Want[r].kconf /\ t.image # None
        /\ Go(r, "build", "boot") /\ UNCHANGED tree
     \/ /\ Want[r].kconf \/ t.image = None
        /\ Go(r, "build", "boot")
        /\ tree' = [tree EXCEPT ![WT(r)].image =
                      [src |-> t.src, half |-> t.half, config |-> t.config]]
     \/ /\ Want[r].kconf \/ t.image = None
        /\ r \in Unlucky
        /\ Die(r, "build")
        /\ tree' \in {tree, [tree EXCEPT ![WT(r)].image = None]}
  /\ UNCHANGED <<shared, edition>>

Boot(r) ==
  /\ pc[r] = "boot"
  /\ Goto(r, "over")
  /\ booted' = [booted EXCEPT ![r] = tree[WT(r)].image]
  /\ UNCHANGED <<cause, tries, behind, newkey, began, shared, tree, edition>>

------------------------------------------------------------------------------
(* What happens beside the runs.                                           *)

\* The run is killed between two commands.
Interrupt(r) ==
  /\ r \in Unlucky /\ pc[r] \in Active
  /\ Die(r, "killed")
  /\ UNCHANGED <<shared, tree, edition>>

\* The job's reclaim, the sweep, or the user removes a worktree nobody works in.
Clear(w) ==
  /\ tree[w].git
  /\ \A r \in Runs : Want[r].root = w[1] => pc[r] \notin Active
  /\ tree' = [tree EXCEPT ![w] = NoTree]
  /\ UNCHANGED <<pc, process, shared, edition>>

\* The server prunes after a reclaim and after a sweep.
ServerPrunes ==
  /\ reg' = reg \cap Existing
  /\ UNCHANGED <<pc, process, remote, present, tree, edition>>

\* A script or a kconf fragment is edited.
Edit ==
  /\ edition < MaxEdits
  /\ edition' = edition + 1
  /\ UNCHANGED <<pc, process, shared, tree>>

------------------------------------------------------------------------------

Prepare(r) ==
  \/ ListRemotes(r) \/ AddRemote(r) \/ FetchBegins(r) \/ FetchSucceeds(r) \/ FetchFails(r)
  \/ Resolve(r) \/ Prune(r) \/ AddWorktree(r)
  \/ LookForPatch(r) \/ Apply(r) \/ MarkPatch(r) \/ LookForThread(r) \/ Am(r) \/ MarkThread(r)

BuildBoot(r) ==
  CompareKey(r) \/ Unlink(r) \/ WriteKey(r) \/ Configure(r) \/ Build(r) \/ Boot(r)

Next ==
  \/ \E r \in Runs : Begin(r) \/ Prepare(r) \/ BuildBoot(r) \/ Interrupt(r)
  \/ \E w \in Worktrees : Clear(w)
  \/ ServerPrunes
  \/ Edit

Spec == Init /\ [][Next]_vars

------------------------------------------------------------------------------
(* Properties.                                                             *)

\* "edits to kconf/base.config, to these scripts, or a switch of arch would
\* otherwise silently reuse a stale build" (run-kernel.py:664-665): a run boots a
\* kernel configured for its own bundle by scripts and fragments no older than
\* the run, whatever the previous runs of the worktree left and wherever they
\* were killed.
NoStaleBuild ==
  \A r \in Runs : booted[r] # None =>
    /\ booted[r].config.bundle = Want[r].bundle
    /\ booted[r].config.edition >= began[r]

\* Whoever else uses r's worktree asks for the same patch and series, or looks at
\* the unpatched commit and builds nothing.
SameRequest(r) ==
  \A q \in Runs : WT(q) = WT(r) =>
    \/ Want[q].patch = Want[r].patch /\ Want[q].thread = Want[r].thread
    \/ Changes(q) = {} /\ ~Want[q].builds

\* A worktree used for one request (a job's own, or the same patch again and
\* again) boots exactly that request: neither an interrupted apply or am, nor a
\* retry, nor the agent that used the worktree before leaves a run with a half
\* or doubly patched kernel, or an unpatched one.
BootsItsRequest ==
  \A r \in Runs : booted[r] # None /\ SameRequest(r) =>
    booted[r].src = Changes(r) /\ booted[r].half = "none"

\* A run whose own commands succeed dies in the shared repository only of
\* `git remote add`, lost to the first run ever to need the remote: the fetches of
\* others cost it at most its retries (with no more runs at a time than retries, all
\* for a commit that there is, so that one fetch serves all who come later), and
\* neither runs that were killed nor directories removed behind git's back keep it
\* from its worktree.
SharedRepoHarmless ==
  /\ Cardinality({Want[r].root : r \in Runs}) <= FetchTries
  /\ \A r \in Runs : Want[r].commit \in Commits \cup {Head}
  => \A r \in Runs \ Unlucky : cause[r] \notin {"fetch", "commit", "worktree"}

==============================================================================
