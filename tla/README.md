# mackernel in TLA+

mackernel runs Linux kernel reproducers: a job server (Rust, `src/server/src`)
takes a markdown bundle, or asks a language-model agent to write one, and runs
`run-kernel.py`, which checks out a kernel tree, builds it, boots it under qemu
and runs the reproducer in the guest. The modules here model the parts of it
whose correctness depends on order, failure and concurrency. Paths below are
relative to `src/`, and `main.rs` and its siblings are in `server/src/`.

1. [The system](#the-system): components, state, operations, what makes each correct
2. [The modules](#the-modules): what models what, and how
3. [The runs](#the-runs): what is checked, with which bounds and fairness
4. [Disagreements](#disagreements-between-the-code-and-its-documents)
5. [The proofs](#the-proofs)
6. [What is not modelled](#what-is-not-modelled)
7. [Plan](#plan)

## The system

| component | state | operations | interacts with |
|---|---|---|---|
| HTTP handlers that create jobs (`main.rs` submit, run_candidate; `scaffold.rs` start, refine, refine_text) | a row in `jobs`, the directory `work/<id>`, the API key in `scaffold_creds` | insert the row, clear and fill the directory, send `New(id)` | database, scheduler channel |
| Scheduler (`main.rs` scheduler_loop, `sched.rs`) | queue of ids, running map with what each job is charged | apply a message or the 5 s tick, then admit while `can_admit` | database (peaks), tasks, `df` |
| Run task (`main.rs` run_job, `scaffold.rs` run_scaffold_stage) | one tokio task per admitted job | mark running, scaffold stage, spawn and follow run-kernel.py, finish, summaries, reclaim; error branch; `Finished(id)` | children, database, bus, channel |
| Retention (`main.rs` cleanup_loop, sweep) | the ids of the running sweep | query, remove directories, mark | database, directories |
| Start-up (`main.rs` main, `seed.rs`) | – | recover_orphans, seed the demo job, load the summary model, start the loops | everything |
| Local model (`summarize.rs` Summarizer::load, spawn_local_server) | the configured back ends, the unpacked release, a llama-server process and its port | find or download, spawn, poll, degrade to the remote back ends | llama-server, start-up |
| Summaries (`main.rs` spawn_summary, spawn_one; `summarize.rs`) | requests waiting for the model, the loaded back ends, `job_summaries`, four columns and `summary_meta` | queue or spawn, generate, store, publish; end-stage coordinator | bus, database, opencode queue |
| opencode queue (`summarize.rs` OpencodeQueue) | a list of tickets and a mutex | enqueue, run one at a time, retry | summaries, UI |
| Bus (`bus.rs`) | a broadcast channel per job and a global one | publish, subscribe, close | SSE handlers |
| Kernel tree (`run-kernel.py` prepare_kernel_tree, invalidate_stale_outputs) | the shared repository's remote, refs and worktree registrations; per worktree the sources, two marker files, the cache key, `.config`, the image | add remote, fetch, check out, patch, configure, build | git, make, other runs |
| Guest (`guestlib.py`, `run-kernel.py` build_boot_run, run_bundle) | qemu processes, ports, logs | boot, wait for ssh, stage, run, tear down; two variants in threads | qemu, ssh |
| Readers of logs and bundles (`main.rs` dmesg_reports, collect_issues, watched_patterns; `summarize.rs` curate_issues, curate_bundle; `run-kernel.py` parse_bundle) | – | cut the kernel log into reports, gather what is suspicious, tell the model; find code and metadata in a bundle | logs, bundle, prompts |
| Scaffold agent (`scaffold-repro.py`, `scaffold-proxy.py`) | worktree, container, bundle file | run opencode, check the bundle | provider, kernel tree |
| Job page (`server/ui` JobDetail) | the row, log and samples it shows, its event stream | fetch, subscribe, ask again when told, reconnect | HTTP, SSE, bus |
| The rest of the web UI | what the browser shows | fetch all at each ping | HTTP, SSE |
| Metrics, thermometer, LKML browsing, embedded files, deployment scripts | none that outlives a call | – | – |

**What is hard.** Handlers, loop, run tasks, summaries and the sweep run
concurrently on one tokio runtime and share the database, the job directories
and in-memory maps. Every `?` of a run task leaves by one error branch. Children
outlive the task or the server. A crash loses everything in memory and keeps
rows, directories and children. The loop's estimates change under it as peaks
are learned. The language model arrives at any time, or never. Concurrent jobs
work in one git repository, and a worktree outlives the run that made it, in
whatever state that run was killed.

**What correct means**, component by component:

- *scheduler and run task*: an id is run once; a slot is held exactly from
  admission to the end of its task; slots and live processes stay within
  `max_jobs`, RAM reservations within memory; a row says `running` exactly while
  a task runs it, nothing that is over changes again, nothing is left `queued`
  that nobody will pick up; every job whose id the client got ends.
- *directories*: a run starts on its own bundle; nobody removes the bundle or
  the logs of a running job; the API key does not outlive its use.
- *summaries*: the primary's text wins in every order of answers, a text that
  exists is shown, no field is generated twice, the channel is closed in the end.
- *local model*: load returns whatever the child does, leaves no process behind that
  it does not use (unless a call about that process fails), and goes on with what
  there is.
- *feed and page*: an announcement follows the write it is about, so that who asks
  when told sees it; what a page has closed or lost its stream on is not stale for
  good; its log is whole; the end of a job comes to be shown.
- *readers*: no report is lost or told twice; the prompt says that nothing was found
  exactly when that is so; server and pipeline see the same code, and each the keys of
  its own in a block both take for metadata.
- *opencode queue*: one CLI process at a time, across retries, timeouts and
  panics; the list shown is the list there is; every run returns.
- *kernel tree*: nobody boots a stale, half patched or doubly patched kernel;
  runs do not fail because of each other in the shared repository.
- *guests*: a program runs in the guest booted for it, on what was prepared for
  it; no guest outlives its process; the verdict of a comparison is the patched
  variant's; a guest that hangs does not keep a run for ever.

## The modules

| module | models | extends |
|---|---|---|
| `Admission` | `can_admit` and `estimate` as operators | – |
| `JobServer` | handlers, channel, scheduler loop, run task, children, sweep, crash and restart | `Admission` |
| `JobLifecycle` | abstract: what the `status` column promises | – |
| `Summaries` | requests, loader, one task per field and back end, coordinator | – |
| `LocalModel` | configured back ends, the search for llama-server, its process, the wait for it; across restarts | – |
| `JobFeed` | what one job writes and publishes: run_job, the tees of the agent's output, samplers, summary tasks, the channel with its buffer | – |
| `JobPage` | the effect of JobDetail.tsx on that feed | `JobFeed` |
| `IssueReports` | dmesg_reports, scan_issue_dir, collect_issues, curate_issues as operators | – |
| `BundleText` | parse_bundle, watched_patterns, curate_bundle as operators | – |
| `Text` | logs and bundles that grow, on which those are checked | `IssueReports`, `BundleText` |
| `OpencodeQueue` | tickets, list, mutex, attempts, CLI processes | – |
| `KernelTree` | shared repository, cached worktrees, markers, cache key, configure and build | – |
| `GuestRun` | ports, qemu, ssh sessions, the steps of build_boot_run, the two threads of compare mode, exit codes; for bundles with a program | – |
| `MC*` | instances for TLC | the module |
| `*_proofs` | theorems and proofs | the module and TLAPS |

An action is what the code does between two points where another thread or
task, an operating-system process, or a crash can come in. A statement executed
under the database's lock is one action. Within a module the definitions carry
the names of the code's functions where they have one; `PROJECT.json` maps every
definition to its lines. Operators whose name has an underscore
(`StartAgent_KeepsKey`) are mutated forms used to show that a property can be
broken by a plausible bug; nothing refers to them.

### JobServer

One state variable per thing that is shared or survives: `status`, `peak`,
`expired`, `reaped` are columns of `jobs`; `files` is what `work/<id>` holds
(`logs`, `bundle`, `spec`, `prev`, `wt`); `proc` the child process and how it
exited; `creds` the key map; `handler[j]` where the request creating `j` is;
`chan` the mpsc channel; `queue`, `slots`, `resv` the locals of scheduler_loop;
`task[j]` where run_job is; `sweepTodo`, `sweepAt` the locals of sweep; `up`
whether the server runs.

| action | code |
|---|---|
| CreateRow, WriteInputs, SendNew, HandlerFails | the handlers: `create_job`, writing the inputs, `tx.send`, an early `?` (submit, run_candidate, start, refine, refine_text) |
| Receive, Tick, Admit, StopAdmitting | `select!` of scheduler_loop and its `while let` |
| BeginRun, StartAgent, StageBreaks, EndAgent, StartKernel, StreamBreaks, FinishRun, Reclaim, FailRun | run_job and run_scaffold_stage between awaits, and the error branch of the task |
| Checkout, AgentExits, KernelExits | the children (external) |
| SweepBegins, SweepRemoves, SweepMarks, Expire | sweep, and time passing its cutoff |
| Crash, Restart | the process dies; `main` with recover_orphans |

`Faults` chooses what may go wrong: `"io"` any file or pipe operation whose
error the code returns or ignores, `"db"` any database write whose result the
code propagates or discards, `"crash"` the death of the server between any two
actions.

`JobLifecycle` is the abstract specification: a row is created once, is active
in at most `Cap` places, ends once, and a restart ends what had not. `JobServer`
implements it with `row <- status, Cap <- MaxJobs` (`LifecycleSpec`), which TLC
checks and TLAPS proves.

### Summaries

`loader` is the thread that loads the model; `pending` is
`AppState.summary_queue`. spawn_summary looks at the OnceLock (`Loaded`) and
pushes or spawns in a later step: `ask = "missed"` is the point between.
`task[j][f][b]` walks spawn_one for field `f` and back end `b` (`ReadBundle`,
`Generate`, `Record`, `StoreColumn`, `StoreMeta` or `Fallback`, `StoreError`).
`coord` is the end-stage coordinator. `Flaky` are the fields whose writes may fail: a
failure of `set_summary` ends the primary's task, every other one is passed over.

### LocalModel

`at` is where `load` is; its actions are the calls that may fail (`Resolve`,
`Download`, `UnpackSome` and `Unpacked` around tar, `Spawn`) and the three steps of
the polling loop (`TryWait`, `Health`, `Deadline`). `proc[r]` is the llama-server of
the `r`-th start of the server. `Crash` kills the server and perhaps its child:
`Drop` kills the child only when the value is dropped, which a killed server does
not do, so a process of an earlier start may hold the port and answer in place of
the new child, which then exits. `abandoned` says that this start's `load` gave its child up alive: `try_wait`
or the building of the poll client failed, which drops the `Child` and kills nothing,
or the `kill` at the deadline did, whose result is ignored. `"no_client"` is the end
of a `load` whose own HTTP client could not be built. `cache` is the unpacked release, `"partial"` from
the first file tar writes. `servers` is what `MK_OPENAI_SERVERS` holds;
`parse_servers` skips entries that lack something.

### JobFeed and JobPage

`JobFeed` is one job from the point of view of those who watch it. `at` is where
run_job is; every write (`status`, `phase`, `cols`, `file`, `clock`) and the message
about it are two actions, as in the code, with any other task between them. `tee[p]`,
`sampler[s]` and `task[f]` are the tasks beside run_job: two readers of the agent's
pipes, a sampler per stage, the summary tasks. `broken` are the stages that run_job
left in the middle, as a `?` does that fails between the start of their tees and
samplers and the join (`StageBreaks`: the wait for the agent; `StreamBreaks` and
`run.log`: the run's output). `conn` and `inbox` are the receiver of
the one page there is; a full receiver loses its oldest message, and the receiver of
an entry that was closed is not on the one that is re-created. `lost` records
announcements of the end that the page will not read.

`JobPage` adds the page. `Open` is the start of its effect, which asks for the log
at once; `step` is where the rest of it is: the row, the samples, then the stream. `Read` takes a message and asks for the row (`rows`) or the log (`texts`);
`ApplyJob` and `ApplyLog` apply the answers in any order, and `overtaken` records that
an older one came last. `Cut` breaks the connection, `Connect` also is the
browser's own reconnect, which fetches nothing. `close()` at `summaries_done` ends it.

### IssueReports, BundleText, Text

A log is a sequence of lines, a line the name of the marker it contains; a report is
given by the numbers of its lines. A bundle is a sequence of rules, keys that the
pipeline knows (`"meta"`), pattern keys, which only the server reads, other keys and
blank lines (`"idle"`), prose, and fences of three or four backticks. What the readers
compute is stated by sets (the first end mark after the BUG line, the first pair of
rules with only keys between, one of them the pipeline's) where the code scans, and by
a function of the line number where the scan carries a state (`OpenFence`, `InBlock`).
The properties do not mention how. `ReadersAgree` holds of bundles in which no fence
holds a shorter one (`NoShorterFence`). Its metadata part is about a block that the
first two rules make, with only keys between (`LeadingBlock`): the server has every
pattern of it and the pipeline every key of its own, but a block of patterns alone is
metadata to the server only. Where the readers part is
[listed below](#disagreements-between-the-code-and-its-documents).

### OpencodeQueue

`pc[r]` is the thread of one call of generate_opencode: `entered` the list,
`blocked` on `run_lock`, `marked` running, `attempt`, `polling` the child,
`returning`, `unlocked`, `dropped`. `live` holds the CLI processes that really
execute, which is not the same as `child`, what the thread knows of its own.
`pinged` is the list at the last notification.

### KernelTree

A run is one process: a job's pipeline, the agent's use of the same code, or a
run by hand. `Want[r]` is what it asks for (worktree root, bundle, commit, patch,
series, whether it has kconf fragments, whether it builds). `tree[w]` is a
worktree with the output in it: `src` the patches applied, `half` one cut short,
`marks` the two marker files, `key`, `config` (for which bundle, by which edition
of the scripts, whole or not) and `image` (from which sources and
configuration). `reg` are git's registrations, `present` whether the remote's
commits were fetched, `behind[r]` whether another fetch updated refs since `r`'s
began, which is when git's compare-and-swap of refs may fail. Each action is one
command: `ListRemotes`, `AddRemote`, `FetchBegins/Succeeds/Fails`, `Resolve`,
`Prune`, `AddWorktree`, `LookForPatch`, `Apply`, `MarkPatch`, `LookForThread`,
`Am`, `MarkThread`, `CompareKey`, `Unlink`, `WriteKey`, `Configure`, `Build`,
`Boot`. Runs in `Unlucky` may be killed between any two commands and may see any
of them fail; what a command that was cut short leaves behind is a choice.
`Clear` and `ServerPrunes` are the server's reclaim and sweep (and the user's
`rm`), `Edit` a change of the scripts or kconf fragments.

### GuestRun

A boot `b = <<job, variant>>` is one execution of build_boot_run. `pc[b]` is the
next command (`ssh` the wait, `clean` the rm/mkdir, `copy`, `chmod`, `insmod`,
`run`, `running`, `dmesg`, `teardown`), `port[b]` the port it chose, `rc[b]` what
the thread returns (`None` after an exception other than SystemExit). `guest[g]` is
the qemu of a boot and the guest in it, from `starting` (the process exists, the
port is not bound) to `off`; `dir`, `exec`, `mods` are what is in that guest.
`said[j]` is the last exit code on the MKPROGRESS lines of a job, which is all
the server keeps.

What the module is about is that a boot and its guest are tied by a port number
only. Each action of a boot is one ssh session, which reaches the guest that owns
the port at that moment (`Reached`), fails (`Missed`), or does not come back
(`Hangs`). `free_port` probes and lets go; `Bind` is qemu taking the port, or
exiting. `wait_for_ssh` asks the port and not qemu. `End` is the end of
run_bundle, with compare mode's last line. `Kill`, `Wedges`, `Panics`,
`QemuExits` are what the outside does to jobs in `Unlucky`. `disturbed` records
that two guests wanted one port, or that a qemu exited by itself and left its
port to others.

## The runs

Each run asks one question. Each passing run's properties
are listed in `PROJECT.json` with, for every one, a mutation of a modelled
function that violates it under the run's own configuration.

| run | instance | what it shows |
|---|---|---|
| `server_crash` | one given and one scaffolded job, 2 slots, stale directories, df that changes, retention of zero days, crashes anywhere | a pipeline starts on its own bundle; a row says running exactly while a task runs it; the key goes when it is used; live directories are kept; the abstract life cycle; under fairness every job that was sent ends, across restarts |
| `server_faults` | the same two jobs, 1 slot, any file or database operation may fail | slots and ids are accounted for on every error path; ended is final |
| `server_admission` | three jobs, 2 slots, RAM for one or two depending on the peaks learned, three df readings | reservations and reserve within memory, processes within slots, no queued row forgotten |
| `summaries` | one job, a field in each stage, two back ends, the writes of one field may fail | what the row shows, in every order of answers and of the load; under fairness the channel closes and the queue is flushed |
| `summary_lost` | violation | |
| `queue` | three runs, two attempts, one run whose child cannot be waited for, panics | one CLI; what the page was told; every run returns, also after a panic |
| `tree_cache` | three runs of two bundles for one patched kernel in one root, one of them failing or killed anywhere; an agent's run in another root; one edit | what is booted is neither stale nor half or doubly patched; runs are harmless to each other in the shared repository |
| `guest_runs` | one comparison with a module, whose steps, sessions, process and guests fail at will | no guest left; the verdict; programs run on what was prepared; under fairness a started variant ends whatever its guest does, and the process ends unless a guest hangs |
| `guest_clash` | two comparisons, nothing fails | violation |
| `local_model` | three starts, each killed anywhere; up to two entries of five kinds; binary given, missing or to be downloaded; local model switched off or not; calls about the child that fail | what load leaves behind whatever fails, a process only where a call about it failed; under fairness it returns |
| `job_page` | four jobs that say much of one kind each, a buffer of two messages, connections that break | the feed is quiet at the end; what the page shows of what it was told; its log and charts; what it has when it closed; under fairness the end is shown |
| `text` | kernel logs of 7 lines with reports of 4, logs of 3 lines in all with a prompt of 2, bundles of 6 lines | reports cover the BUG lines; the prompt tells; the readers agree |

**Bounds, and why they are enough to meet the hard cases.** Two jobs of
different kinds make every pair of a handler, task or sweep step of one with any
of the other; three jobs make a queue of two behind a full server, and an
admission after a release. Ids are used once, as the database does. The peaks
are chosen so that an estimate learned from the first job no longer fits a second
one beside it, and df both blocks and permits. One job is enough in
`Summaries`, whose jobs share only the loader and its queue, of which both
stages of the job are members; the fields share the `summary_meta` column, and
two are there. Three runs of the opencode queue are one that holds the mutex and
two that compete for it. In `KernelTree` three runs in one root are a run that
is cut short, one that takes over what it left, and one that takes over from
that; `MaxEdits = 1` puts an edit anywhere in their lives; `FetchTries` is the
code's. In `GuestRun` the two variants are two threads with a guest each, so
every pair of a step of one with a failure of the other is met; that *jobs* do
not mix up guests unless they meet at a port is proved for any number of them
(`RunIsIntactHolds`), and `guest_clash` shows what happens when they do meet. One
port is preferred and two can be assigned. In `LocalModel` three starts are a server whose child
is left, one that meets it, and one after both. In `JobPage` a buffer of two loses
messages as soon as the page is two behind, and the jobs of `MCJobs` let each kind of
message be the one that is lost, late or doubled; they are apart because together
they only multiply. In `Text` a report of at most 4 lines is cut by an end mark, by
the cap and by the end of a log of 7, with another behind it; six lines of bundle are
two fences and a metadata block in any order. Stronger bounds on the same questions are what the proofs are for.

`CHECK_DEADLOCK FALSE` is set where the system may stop: a server run whose jobs
have all ended has nothing left to do, nor have kernel runs and guests that are over,
a page whose job is, a load that returned, or texts of full length.
`Summaries` and `OpencodeQueue` have a stuttering step for that and check for
deadlock.

**Fairness.** `JobServer`: a run task that can take a step takes it (tokio runs
what is ready), children exit, the scheduler's `select!` does not pass over a
waiting message for ever (it picks among ready branches at random: strong
fairness of `Receive` and of `Admit`, whose guard the df reading may switch off
and on), and a server that is down is started again. That children exit is an
assumption: the code bounds no pipeline. Nothing is assumed of handlers (clients
may disconnect) or of the sweep. `Summaries`: run tasks, coordinators,
generation tasks and the loader's flush go on; the model may never load,
pipelines may never end, and clients may read nothing. A generation ends
because the HTTP client has a timeout and the CLI a deadline. `OpencodeQueue`:
threads go on, and nothing is assumed of the CLI, which may hang: the deadline is
what ends it. `GuestRun`: threads take the steps they can, which includes that
builds end and that a session that is answered comes back; nothing is assumed
of guests, which may never come up or hang. `KernelTree` states safety only.
`LocalModel`: the loader's thread and the clock go on; nothing is assumed of
llama-server. A download and every request have a time limit in the code; tar
is waited for as long as it runs, and that it ends is assumed. `JobPage`: run_job, the
tees, the samplers and the summary tasks take the steps they can, the page reads
what it has and applies the answers it got; the connection need not be made
again, and may break for ever.

## Disagreements between the code and its documents

Each is a run that TLC must find violated.

- `summary_lost`: a request that found no model and is pushed after the loader
  drained the queue is never flushed (`main.rs:167-168`: "flushed here on load,
  rather than silently dropped").
- `guest_clash`: ports are probed and let go before the builds of compare mode, so
  two jobs choose the same; the second qemu exits, and its boot goes on in the other
  job's guest, whose files it removes and whose kernel its result then describes
  (`run-kernel.py:967`: "a clash just fails that boot, not silently"). Without such
  a meeting it cannot happen (`RunIsIntactHolds`).

More were met while reading and modelling, and have no run of their own:

- A read error of a child's output (or output that is not UTF-8) ends run_job with
  the child alive and its slot given back, so more than `max_jobs` pipelines may execute
  ("hard cap regardless of resources", `sched.rs:12`). Without such errors and
  crashes the cap is proved (`HardCapWithoutFaults`). The run's sampler is not told
  to stop either ("Stops when the child exits", `main.rs:1000-1001`), and a wait for the
  scaffold agent that fails (`scaffold.rs:362`) leaves the agent, its tees and its sampler
  at work: these are the stages in `broken` that `FeedQuiet` excepts.
- A cached worktree is found by its commit alone, so an unpatched bundle reuses a
  patched tree (`README.md:265-267`: "so a bundle is self-contained about which kernel
  it targets"). The service gives each job a root of its own; runs by hand share one.
- End summaries that were queued while the model loads have no handles, so the
  coordinator closes the channel before they run (`main.rs:1101-1103` says it is kept open).
- A scaffold stage that fails leaves run_job before the reclaim block, so the
  worktree stays (`server/README.md:61`).
- Compare mode writes its last `done` line also when both variants died before a guest
  ran, and the server takes any `done` line for a finished run (`main.rs:1088-1090`).
- `insmod` and the other sessions before the program have no time limit, so that a
  module whose init hangs keeps its job for ever (`guestlib.py:104-109`; hence the
  premise of `EndsUnlessWedged`).
- A llama-server that outlives its server keeps the port. The next start's child
  exits, and load either takes the old process for it or gives up the local model; "the
  child and the port it listens on" (`summarize.rs:695`) are then not of one process.
- A `try_wait` or poll client that fails ends `spawn_local_server` with the llama-server
  it started still alive, and so does a `kill` that fails (`summarize.rs:747-765`). No
  later code knows of the process. `NoChildLeft` excepts these.
- load's own HTTP client is built before the back ends are read, so that its failure gives
  up summaries whatever is configured (`summarize.rs:294-297`; "degrade to remote-only
  rather than disabling summaries entirely", `302-303`, is said of the local model only).
- Two entries with `primary=true` are both kept ("Exactly one primary",
  `summarize.rs:335`); `LoadedServes` excludes that configuration.
- A release unpacked in part is found by the next load and reused ("Reuses an
  already-unpacked binary if present", `summarize.rs:884`), with no way back but by hand.
- A block that holds only `search-` and `regex-` keys is metadata to the server.
  parse_bundle knows none of them (`run-kernel.py:58-64`), skips such a block
  (`run-kernel.py:248`) and takes a later one, though `docs/reproducer-spec.md:37-40`
  lists them among the recognized keys.
- `watched_patterns` "mirrors the reproducer spec" (`main.rs:535`) but takes the first
  two rules for the metadata, where parse_bundle looks on until a pair of rules has only
  keys between, one of them its own. A shorter fence inside a longer one, an indented
  fence and a rule with trailing blanks are read differently too. curate_bundle also
  takes `~~~` for a fence, which `BundleText` leaves out.

## The proofs

`tlapm` checks every theorem to its leaves. The assumptions on the constants are
the named `ASSUME`s of the modules (finite sets of jobs, natural amounts, the
primary back end is one of the back ends, and so on), which TLC evaluates on
every run.

**JobServer** (`JobServer_proofs`). None of the properties is inductive alone:
that an id is scheduled once needs to know that its handler sends once and that
`Finished` is the last thing a task sends; that a row agrees with its task needs
both. `IInv` is their conjunction with `HandlerFresh`, `FinishedLast`,
`DownIsEmpty`, `RowsAgree` and `ChildOfTask`. It is proved in layers, each with
one lemma per kind of step: types (`TypeStep`), scheduling (`SchedulingStep`: who
holds an id), the cap (`CapStep`), what a stopped server forgets (`DownStep`),
rows (`RowsStep`, pointwise in the job), children (`ChildStep`). From
`Spec => []IInv` follow `CapHolds`, `SlotHeldHolds`, `ScheduledOnceHolds`,
`RunningIsLiveHolds`, `QueuedIsKnownHolds`, `LiveWithinSlotsHolds`, the action
property `EndedIsFinalHolds`, and `HardCapWithoutFaults`. `LifecycleRefined`
shows, assuming database writes succeed, that every step is a step of
`JobLifecycle` or leaves the status column alone; its cap comes from
`RoomToStart`: rows that say running belong to slots, and the job that starts
holds one that says queued.

`ReservationsFitHolds` needs the sum of what the running jobs are charged, which is a
fold over a set: `SumsExist` shows that the fold is a function, `ReservedRemove` that
any job can be taken out of it, whichever the fold took first (by induction on the
size of the set, `FiniteSetInduction`), `ReservedLocal` that what other jobs are charged
does not matter. So an admission adds the newcomer's charge to the very sum that
`can_admit` looked at, and a release takes one away.

`OutgrownForGoodHolds` is the other side of that gate, and no run's property: `estimate`
takes the largest `ram_peak` of all rows, so once a job has ended whose peak and the
reserve exceed physical memory, `can_admit` refuses every job, however small and with
nothing running. No step undoes it: a row that has ended keeps its status (`EndedStep`)
and its peak (`PeakSteps`), through the sweep and through a restart. Only a query for
the peaks that fails, which falls back to the configured default, lets a job in; the
theorem assumes that database calls succeed.

**Job directories** (in the same module, on top of `IInv`). `DirInv` says, job by job, that
a directory whose handler has finished holds the inputs it wrote and nothing of an
earlier job of that id, that a job still on its way has no child, that the sweep's
list has only ended jobs, and that a key is in memory only until the agent starts.
It is inductive only together with `IInv`: that the sweep leaves alone
the directory of a job that runs rests on what its row says. It gives `OwnBundleHolds`,
`KeyConsumedHolds` and the action property `LiveDirKeptHolds`, under every fault and
crash that the properties do not exclude.

**Summaries** (`Summaries_proofs`). `SInv` is `Types`, `OneRequest` (a request is
not made, in `pending` once, in `flush` once, or spawned, and never two of them)
and `Stored` (where a task is tells what was generated, stored and recorded).
From it follow `PrimaryWinsHolds`, `NeverBlankHolds`, `MetaTellsHolds` and
`SummarisedOnceHolds`.

**OpencodeQueue** (`OpencodeQueue_proofs`). `QInv`: the thread inside
`ticket.run` is the holder of the mutex; a process that executes is polled by
its run and is its current attempt, except one a failed `try_wait` left behind;
attempts are counted. From it `OneCLIHolds`, `LiveIsHoldersHolds`,
`RetriesUsedUpHolds`. `PageCatchesUpHolds` needs besides that a thread that changes the
list still has its notification before it, in every way an attempt can end (`NoNews`:
the other steps change neither the list nor who has to tell).

**KernelTree** (`KernelTree_proofs`). `KInv`: one run at a time is active in a
root (`Alone`), whatever is in a worktree was configured for the key in it
(`TreeOK`), and how far a run is tells what the worktree holds (`RunOK`). The
hard point is that the key is written after the old output is removed and before
the new one is made, so that a run killed anywhere leaves a tree whose key is
right for what is in it. `Frame` shows once that a step of a run does not touch
what the invariant says of the others. From it `NoStaleBuildHolds`.

`SourceInv` adds the sources, for a worktree whose requests all want the same: a marker
is there only when its change is, what was cut short is not marked, and an image was
made of all the changes. A killed `git apply` therefore makes the next run fail where
it would apply again, and `BootsItsRequestHolds` follows. Without the premise the
property is false, as a worktree is found by its commit alone.

`RepoInv` is about the runs whose own commands succeed, under the premise of
`SharedRepoHarmless`. Nobody can lose a fetch before one has succeeded, and from then on
no run comes to the fetches any more; so the fetches a run has begun and the runs that
still fetch are together no more than the roots (`FewInRoots`: one run at a time is
active in a root). A run that has lost `FETCH_TRIES` times would need one more root.
From it `SharedRepoIsHarmless`.

**GuestRun** (`GuestRun_proofs`). `EndInv` (a guest exists from boot to teardown,
a process ends when its boots are over, what a job said agrees with its decisive
boot) gives `NoGuestLeftHolds` and `VerdictIsPatchedHolds`. `ApartInv` adds, for
states that are not `disturbed`, that guests have different ports and that a boot
past its start has its guest, so that a session only gets to the boot's own
guest (`OwnSession`), and what is in that guest at each step (`OwnFiles`); it gives
`RunIsIntactHolds`.

**JobPage** (`JobPage_proofs`). `FeedInv` says what is still at work at each place of
run_job (`StageQuiet`, `RunQuiet`) unless it left that stage in the middle, that a job
whose scaffold stage it left has no saved log and is failing (`StageLeft`), that the saved log is the whole file
(`SavedWhole`), and that the row is written before what follows it (`RowAtEnd`). It
gives `FeedIsQuiet` for any phases, lines and samples. `AnnouncementsHold` adds that
every message in the channel is about a write the row has, and that every answer under
way was read from the row no earlier than the announcement that asked for it; neither
the size of the buffer nor what is lost matters.

**The order of the messages** (in the same module). `FeedOrder` is what the tasks keep
between them: one sampler works at a time and tells its last sample, a line told is in
the file, the end summary is asked for once. `BoxInv` says that no message in the
receiver stands behind one it must not follow (`Follows`, which depends on the stages run_job has left,
as a tee that nobody joined tells of lines after the end; `OrderOfBroken`), and that what a message
tells of is past (`Past`). With them `SamplesInv`, `LogInv` (after the end, one of the
answers under way is the whole file, or it is shown and nothing shorter since) and
`EndInv` (the end summary's announcement is in the receiver, heard or lost) give
`SamplesStayInOrder`, `LogBecomesWhole` and `ClosedStaysWhole`.

**LocalModel** (`LocalModel_proofs`). `LInv` says which back ends have been put together
at each place of `load` (`Assembled`) and that the child is gone wherever `load` gave the
local model up (`Children`), unless a failed call made it give the child up alive. `parse_servers` keeps just the usable entries
(`ParseServersKeeps`, by induction on the entries read), the last look at the list
flags the first back end when none is flagged (`WithPrimaryIs`), so one is the primary
when at most one is configured to be (`ReadyHasOnePrimary`). From it `LoadedServesHolds`,
for configurations of any length and any number of starts.

**Text** (`Text_proofs`). That a text is a sequence of lines is the whole invariant; what
is proved is what the readers compute, for texts of any length. `ReportsCoverHolds`:
`Covers` says what the scan makes of the lines from one on, and `CoversReport` that one
more report in front of it keeps that true, as the scan goes on at the end of the report
(`ReportEndIs`), all of whose lines it shows (`ReportShows`). `ReadersAgreeHolds`: where
no fence holds a shorter one, both readers have one open after the same lines
(`FencesAgree`), so that they see the same rules (`CodeAgrees`). The two of a leading
block are then the first the server meets (`FirstRules`), which reads all the patterns
between (`PatternsAreRead`), and the first pair the pipeline may take, which it does if
a key of its own is there (`MetadataIsRead`); the parity of curate_bundle is that state when names
open only (`FencesPair`). `PromptTellsHolds`: sequences put end to end are empty when all
are, and begin with the first that is not (`Flattened`), which is followed from the lines
of a log (`ThoseAre`, `HeadsAre`) to a file's section, a directory's, the job's
(`ScanIs`), and the prompt (`CuratedIs`).

**Recursion.** `dmesg_reports`, `OpenFence`, `InBlock`, `parse_servers`, `FlattenSeq` and
the fold of `Reserved` are recursive functions, which TLA+ defines by `CHOOSE`. An
equation of such a function holds only if there is a function that satisfies it, which
is proved for each (`ScanExists`, `PrimitiveRecursion`, `SumsExist`). The induction is not
the library's, whose theorems take an operator: `NatSetInduction` and
`FiniteSetInduction` say the same of sets, and follow from `WFMin`, that a well-founded
relation has minimal elements. The prover expands neither `SelectSeq` nor
`CASE`/`OTHER`, so `IssueReports`, `BundleText` and `LocalModel` do without them.

**Only model-checked.** The liveness properties (`SentEnds`, `EveryRunReturns`, `RunEnds`,
`EndsUnlessWedged`, `ChannelCloses`, `QueuedIsFlushed`, `EndIsShown`, `LoadReturns`):
fairness and `ENABLED` are out of the prover's reach. Every invariant and every action
property that a run checks is proved.

## What is not modelled

- *`run-in-kernel.py`*, whose steps are a subset of build_boot_run's, without time
  limits; `--keep-running`; a bundle of a module without a program or init script, which
  runs `dmesg` in place of the program, and one with neither, which ends the run (`GuestRun`
  has bundles with a program); a guest that reboots; the image and seed downloads.
- *The agent's process* beyond its exit and the bundle it writes; the egress
  proxy, a stateless filter.
- *The rest of the web UI*: the dashboard asks for everything again at each ping and
  keeps no state between; the rest is presentation. Of a job page, the bundle, the
  summaries' table, the phases' times and the progress of tokens are left out: they
  are fetched and applied as the row and the log are.
- *Switching jobs within a page*: the effect's `live` flag guards most answers, but not
  those of `getJob(id).then(setJob)` and the first `getLog(id, "bundle")`
  (JobDetail.tsx:148, 155), which may show one job's row on another's page; the page
  of `JobPage` shows one job all its life.
- *run.log as it is read*: stderr is drained into it by a task nobody waits for
  (`main.rs:1046-1055`), so its tail may come after the row says that the job ended.
- *Text beyond its structure*: wording and the limits in characters of prompts, the
  values of the metadata and their checks, `select_thread_patches`.
- *Metrics and the thermometer*: parsing of `/proc`, `ps`, `du`; only the peaks
  they measure are in `JobServer`, as a choice.
- *LKML browsing, embedded files, deployment scripts, demo job*: no state of
  their own that anything races with.
- *The database engine*: statements are atomic and durable; a crash between two
  is modelled, one within is DuckDB's.
- *An opencode process that leaves its pipe open* after it exits (listed as a hazard),
  and the size of tokio's blocking pool.
- *Integer width*: the sums of `can_admit` and the cutoff of the sweep
  (`retention_days * 86_400_000`, main.rs:1153) wrap only for configured values that
  no machine has; amounts are natural numbers here and the cutoff is a flag.

## Plan

What is above was built in the order `JobServer` (with `Admission`, `JobLifecycle`),
`Summaries`, `OpencodeQueue`, `KernelTree`, `GuestRun`, `JobFeed` and `JobPage`,
`IssueReports` and `BundleText`, `LocalModel`. Next, in this order:

1. The agent's process in `scaffold-repro.py`: its time limit and the bundle check.
2. A page that changes from job to job.

A run earns its place by the question it asks: a violation run gives way where a
component that is not modelled yet needs one.
