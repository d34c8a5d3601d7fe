------------------------------ MODULE JobServer ------------------------------
(***************************************************************************)
(* The mackernel job server: the HTTP handlers that create jobs, the       *)
(* scheduler loop and its message channel, the task that runs one job      *)
(* (scaffold stage, run-kernel.py pipeline, finish, reclaim), the          *)
(* retention sweep, and crash and restart of the server process.           *)
(*                                                                         *)
(* One action is what the code does between two points where another task, *)
(* an OS process or a crash can come in.  The rows of the jobs table and   *)
(* the job directories survive a crash; everything else of the server does *)
(* not; child processes are the operating system's and may outlive it.     *)
(* The live event bus and the LLM summaries are not in this module.        *)
(***************************************************************************)
EXTENDS Admission, Sequences

CONSTANTS
  BundleJobs,    \* ids created by submit or run_candidate: bundle.md is given
  ScaffoldJobs,  \* ids created by scaffold::start, refine or refine_text
  NoJob,         \* no job
  RamPeaks, DiskPeaks,  \* what the sampler of a run may measure at most
  DfReadings,    \* what df may report: records [avail, total]
  StaleDirs,     \* what an id's directory may hold before the job exists
  KeepWorktrees, \* MK_KEEP_WORKTREES
  RetentionDays, \* MK_JOB_RETENTION_DAYS
  Faults         \* what goes wrong: subset of {"io", "db", "crash"}

Jobs == BundleJobs \cup ScaffoldJobs

\* The entries of work/<id> that some decision of the server looks at.
Entry == {"logs", "bundle", "spec", "prev", "wt"}

ASSUME ServerAssumption ==
  /\ IsFiniteSet(Jobs)
  /\ BundleJobs \cap ScaffoldJobs = {}
  /\ NoJob \notin Jobs
  /\ RamPeaks \subseteq Nat /\ RamPeaks # {}
  /\ DiskPeaks \subseteq Nat /\ DiskPeaks # {}
  /\ DfReadings \subseteq [avail : Nat, total : Nat]
  /\ StaleDirs \subseteq SUBSET Entry
  /\ KeepWorktrees \in BOOLEAN
  /\ RetentionDays \in Nat
  /\ Faults \subseteq {"io", "db", "crash"}

VARIABLES
  status,   \* jobs.status; "none" while the row does not exist
  peak,     \* jobs.ram_peak and disk_peak
  expired,  \* jobs.finished_ms is before the sweep's cutoff
  reaped,   \* jobs.reaped_ms is set
  files,    \* entries present in work/<id>
  proc,     \* the job's child process and, once it exits, its result
  up,       \* the server process is running
  creds,    \* AppState.scaffold_creds: jobs whose API key is in memory
  handler,  \* where the request creating the job is
  parent,   \* the job a refine request copies from
  chan,     \* the scheduler's mpsc channel
  queue,    \* scheduler_loop's queue of admissible ids
  slots,    \* the keys of scheduler_loop's running map
  resv,     \* its values: what each running job is charged
  sched,    \* "select" (awaiting a message or the tick) or "admit"
  task,     \* where the tokio task of run_job is
  sweepTodo, \* ids the running sweep has still to remove
  sweepAt   \* id whose directory is gone and whose row is to be marked

disk == <<status, peak, expired, reaped, files>>
http == <<creds, handler, parent>>
loop == <<queue, slots, resv, sched>>
sweeper == <<sweepTodo, sweepAt>>
vars == <<disk, proc, up, http, chan, loop, task, sweeper>>

Ended == {"done", "failed"}
Status == {"none", "queued", "running"} \cup Ended
\* agent: scaffold-repro.py; kernel: run-kernel.py.  An agent exits "ok" or
\* "bad"; a pipeline exits having "reported" the guest's exit code or "died".
Alive == {"agent", "kernel"}
ProcState == Alive \cup {"none", "ok", "bad", "reported", "died"}
HandlerPC == {"none", "row", "written", "sent", "failed"}
TaskPC == {"none", "start", "scaffold", "agent", "spawn", "stream", "reclaim", "err"}
Msg == [kind : {"New", "Finished"}, job : Jobs]
New(j) == [kind |-> "New", job |-> j]
Finished(j) == [kind |-> "Finished", job |-> j]

IO == "io" \in Faults
DB == "db" \in Faults

Init ==
  /\ status = [j \in Jobs |-> "none"]
  /\ peak = [j \in Jobs |-> NoAmount]
  /\ expired = [j \in Jobs |-> FALSE]
  /\ reaped = [j \in Jobs |-> FALSE]
  /\ files \in [Jobs -> StaleDirs]
  /\ proc = [j \in Jobs |-> "none"]
  /\ up = TRUE
  /\ creds = {}
  /\ handler = [j \in Jobs |-> "none"]
  /\ parent = [j \in Jobs |-> NoJob]
  /\ chan = <<>>
  /\ queue = <<>>
  /\ slots = {}
  /\ resv = [j \in Jobs |-> NoAmount]
  /\ sched = "select"
  /\ task = [j \in Jobs |-> "none"]
  /\ sweepTodo = {}
  /\ sweepAt = NoJob

------------------------------------------------------------------------------
(* The requests that create a job.                                         *)

\* refine insists that the parent still has its bundle and its logs.
Refinable(p) == status[p] # "none" /\ {"bundle", "logs"} \subseteq files[p]

\* create_job: the row is inserted, status 'queued', under the database lock.
CreateRow(j, p) ==
  /\ up /\ handler[j] = "none" /\ status[j] = "none"
  /\ p # NoJob => j \in ScaffoldJobs /\ Refinable(p)
  /\ status' = [status EXCEPT ![j] = "queued"]
  /\ handler' = [handler EXCEPT ![j] = "row"]
  /\ parent' = [parent EXCEPT ![j] = p]
  /\ UNCHANGED <<peak, expired, reaped, files, proc, up, creds, chan, loop, task, sweeper>>

\* What the handler writes once the id's old directory is out of the way.
Inputs(j) ==
  IF j \in BundleJobs THEN {"logs", "bundle"}
  ELSE {"logs", "spec"} \cup IF parent[j] = NoJob THEN {} ELSE {"prev"}

\* Mutant: the directory of a recycled id is not cleared first.
WriteInputs_KeepsOldDir(j) ==
  /\ up /\ handler[j] = "row"
  /\ parent[j] # NoJob => {"bundle", "logs"} \subseteq files[parent[j]]
  /\ files' = [files EXCEPT ![j] = @ \cup Inputs(j)]
  /\ creds' = IF j \in ScaffoldJobs THEN creds \cup {j} ELSE creds
  /\ handler' = [handler EXCEPT ![j] = "written"]
  /\ UNCHANGED <<status, peak, expired, reaped, proc, up, parent, chan, loop, task, sweeper>>

\* remove_dir_all (its result is ignored), create_dir_all, write: the inputs of
\* refine come from the parent's directory, which the sweep may have removed
\* since CreateRow.
WriteInputs(j) ==
  /\ up /\ handler[j] = "row"
  /\ parent[j] # NoJob => {"bundle", "logs"} \subseteq files[parent[j]]
  /\ \E kept \in IF IO THEN SUBSET files[j] ELSE {{}} :
       files' = [files EXCEPT ![j] = kept \cup Inputs(j)]
  /\ creds' = IF j \in ScaffoldJobs THEN creds \cup {j} ELSE creds
  /\ handler' = [handler EXCEPT ![j] = "written"]
  /\ UNCHANGED <<status, peak, expired, reaped, proc, up, parent, chan, loop, task, sweeper>>

\* A `?` after create_job answers 500 and leaves the row as it is.
HandlerFails(j) ==
  /\ up /\ handler[j] = "row"
  /\ \/ IO
     \/ parent[j] # NoJob /\ ~({"bundle", "logs"} \subseteq files[parent[j]])
  /\ \E left \in SUBSET (files[j] \cup Inputs(j)) : files' = [files EXCEPT ![j] = left]
  /\ handler' = [handler EXCEPT ![j] = "failed"]
  /\ UNCHANGED <<status, peak, expired, reaped, proc, up, creds, parent, chan, loop, task, sweeper>>

\* tx.send(New(id)); the id goes back to the client.
SendNew(j) ==
  /\ up /\ handler[j] = "written"
  /\ chan' = Append(chan, New(j))
  /\ handler' = [handler EXCEPT ![j] = "sent"]
  /\ UNCHANGED <<disk, proc, up, creds, parent, loop, task, sweeper>>

------------------------------------------------------------------------------
(* scheduler_loop: one task, so a message is applied and then as many      *)
(* queued jobs as resources allow are admitted before the next message.    *)

Receive ==
  /\ up /\ sched = "select" /\ chan # <<>>
  /\ LET m == Head(chan) IN
       IF m.kind = "New"
         THEN queue' = Append(queue, m.job) /\ UNCHANGED <<slots, resv>>
         ELSE /\ slots' = slots \ {m.job}
              /\ resv' = [resv EXCEPT ![m.job] = NoAmount]
              /\ UNCHANGED queue
  /\ chan' = Tail(chan)
  /\ sched' = "admit"
  /\ UNCHANGED <<disk, proc, up, http, task, sweeper>>

\* The 5 s interval fires: resources may have come back without a message.
Tick ==
  /\ up /\ sched = "select" /\ queue # <<>>
  /\ sched' = "admit"
  /\ UNCHANGED <<disk, proc, up, http, chan, queue, slots, resv, task, sweeper>>

Peaks == {peak[j] : j \in {k \in Jobs : status[k] # "none"}}

\* A query that fails leaves the configured default.
Estimates == {Estimate(Peaks)} \cup IF DB THEN {Estimate({})} ELSE {}

Admissible(est, df) ==
  CanAdmit(Cardinality(slots), Reserved(slots, resv), est, df)

Admit ==
  /\ up /\ sched = "admit" /\ queue # <<>>
  /\ LET j == Head(queue) IN
       /\ \E est \in Estimates, df \in DfReadings :
            Admissible(est, df) /\ resv' = [resv EXCEPT ![j] = est]
       /\ queue' = Tail(queue)
       /\ slots' = slots \cup {j}
       /\ task' = [task EXCEPT ![j] = "start"]
  /\ UNCHANGED <<disk, proc, up, http, chan, sched, sweeper>>

\* Mutant: the head is taken off the queue before can_admit is asked.
StopAdmitting_DropsHead ==
  /\ up /\ sched = "admit"
  /\ queue = <<>> \/ \E est \in Estimates, df \in DfReadings : ~Admissible(est, df)
  /\ sched' = "select"
  /\ queue' = IF queue = <<>> THEN queue ELSE Tail(queue)
  /\ UNCHANGED <<disk, proc, up, http, chan, slots, resv, task, sweeper>>

StopAdmitting ==
  /\ up /\ sched = "admit"
  /\ queue = <<>> \/ \E est \in Estimates, df \in DfReadings : ~Admissible(est, df)
  /\ sched' = "select"
  /\ UNCHANGED <<disk, proc, up, http, chan, queue, slots, resv, task, sweeper>>

------------------------------------------------------------------------------
(* run_job: the task of an admitted job.                                   *)

\* Every `?` of run_job: the task goes on in scheduler_loop's error branch.
Raise(j) == task' = [task EXCEPT ![j] = "err"]

\* Mutant: the row is not marked running.
BeginRun_SkipsRow(j) ==
  /\ up /\ task[j] = "start"
  /\ task' = [task EXCEPT ![j] =
       IF "spec" \in files[j] /\ "bundle" \notin files[j] THEN "scaffold" ELSE "spawn"]
  /\ UNCHANGED <<disk, proc, up, http, chan, loop, sweeper>>

\* set_running, then the scaffold stage if there is a spec and no bundle yet.
BeginRun(j) ==
  /\ up /\ task[j] = "start"
  /\ \/ /\ status' = [status EXCEPT ![j] = "running"]
        /\ task' = [task EXCEPT ![j] =
             IF "spec" \in files[j] /\ "bundle" \notin files[j] THEN "scaffold" ELSE "spawn"]
     \/ DB /\ Raise(j) /\ UNCHANGED status
  /\ UNCHANGED <<peak, expired, reaped, files, proc, up, http, chan, loop, sweeper>>

\* Mutant: the stage reads the key but leaves it in the map.
StartAgent_KeepsKey(j) ==
  /\ up /\ task[j] = "scaffold" /\ j \in creds
  /\ proc' = [proc EXCEPT ![j] = "agent"]
  /\ task' = [task EXCEPT ![j] = "agent"]
  /\ UNCHANGED <<disk, up, http, chan, loop, sweeper>>

\* run_scaffold_stage up to the spawn: the API key leaves the map on the way.
StartAgent(j) ==
  /\ up /\ task[j] = "scaffold"
  /\ \/ /\ j \in creds
        /\ creds' = creds \ {j}
        /\ \/ /\ proc' = [proc EXCEPT ![j] = "agent"]
              /\ task' = [task EXCEPT ![j] = "agent"]
           \/ IO /\ Raise(j) /\ UNCHANGED proc
     \/ j \notin creds /\ Raise(j) /\ UNCHANGED <<creds, proc>>
     \/ /\ IO \/ DB   \* reading the spec, set_phase or add_event fails first
        /\ Raise(j) /\ UNCHANGED <<creds, proc>>
  /\ UNCHANGED <<disk, up, handler, parent, chan, loop, sweeper>>

\* The agent's exit is seen: a bundle and exit 0, or the stage fails.  The spec
\* is removed, if it can be, so that the stage would not run again.
EndAgent(j) ==
  /\ up /\ task[j] = "agent" /\ proc[j] \in {"ok", "bad"}
  /\ proc' = [proc EXCEPT ![j] = "none"]
  /\ IF proc[j] = "ok" /\ "bundle" \in files[j]
       THEN /\ \/ files' = [files EXCEPT ![j] = @ \ {"spec"}]
               \/ IO /\ UNCHANGED files
            /\ task' = [task EXCEPT ![j] = "spawn"]
       ELSE Raise(j) /\ UNCHANGED files
  /\ UNCHANGED <<status, peak, expired, reaped, up, http, chan, loop, sweeper>>

\* Waiting for the agent fails: the task ends, but the agent, which nothing kills,
\* goes on.
StageBreaks(j) ==
  /\ IO /\ up /\ task[j] = "agent"
  /\ Raise(j)
  /\ UNCHANGED <<disk, proc, up, http, chan, loop, sweeper>>

\* Spawn run-kernel.py, then open run.log for its output: if that fails the
\* task ends but the child, which nothing kills, goes on.
StartKernel(j) ==
  /\ up /\ task[j] = "spawn"
  /\ \/ /\ proc' = [proc EXCEPT ![j] = "kernel"]
        /\ task' = [task EXCEPT ![j] = "stream"]
     \/ IO /\ Raise(j) /\ proc' \in {proc, [proc EXCEPT ![j] = "kernel"]}
  /\ UNCHANGED <<disk, up, http, chan, loop, sweeper>>

\* next_line() fails (a read error, or output that is not UTF-8): as above.
StreamBreaks(j) ==
  /\ IO /\ up /\ task[j] = "stream"
  /\ Raise(j)
  /\ UNCHANGED <<disk, proc, up, http, chan, loop, sweeper>>

\* Mutant: a `?` after db.finish sends a finished job to the error branch.
FinishRun_ThenRaises(j) ==
  /\ up /\ task[j] = "stream" /\ proc[j] \in {"reported", "died"}
  /\ proc' = [proc EXCEPT ![j] = "none"]
  /\ status' = [status EXCEPT ![j] = IF proc[j] = "reported" THEN "done" ELSE "failed"]
  /\ Raise(j)
  /\ UNCHANGED <<peak, expired, reaped, files, up, http, chan, loop, sweeper>>

\* Mutant: the task does not wait for its child.
FinishRun_NoWait(j) ==
  /\ up /\ task[j] = "stream"
  /\ status' = [status EXCEPT ![j] = "done"]
  /\ task' = [task EXCEPT ![j] = "reclaim"]
  /\ UNCHANGED <<peak, expired, reaped, files, proc, up, http, chan, loop, sweeper>>

\* End of output, wait(), the sampler's peaks, db.finish: an exit code seen in
\* the progress lines means done, whatever its value.
FinishRun(j) ==
  /\ up /\ task[j] = "stream" /\ proc[j] \in {"reported", "died"}
  /\ proc' = [proc EXCEPT ![j] = "none"]
  /\ \/ /\ status' = [status EXCEPT ![j] = IF proc[j] = "reported" THEN "done" ELSE "failed"]
        /\ \E r \in RamPeaks, d \in DiskPeaks :
             peak' = [peak EXCEPT ![j] = [ram |-> r, disk |-> d]]
        /\ task' = [task EXCEPT ![j] = "reclaim"]
     \/ (IO \/ DB) /\ Raise(j) /\ UNCHANGED <<status, peak>>
  /\ UNCHANGED <<expired, reaped, files, up, http, chan, loop, sweeper>>

\* Remove work/<id>/wt unless it is to be kept; then the task tells the loop.
Reclaim(j) ==
  /\ up /\ task[j] = "reclaim"
  /\ \/ files' = [files EXCEPT ![j] = IF KeepWorktrees THEN @ ELSE @ \ {"wt"}]
     \/ IO /\ UNCHANGED files
  /\ task' = [task EXCEPT ![j] = "none"]
  /\ chan' = Append(chan, Finished(j))
  /\ UNCHANGED <<status, peak, expired, reaped, proc, up, http, loop, sweeper>>

\* Mutant: the error branch returns early when it has failed the row.
FailRun_Silent(j) ==
  /\ up /\ task[j] = "err"
  /\ status' = [status EXCEPT ![j] = "failed"]
  /\ peak' = [peak EXCEPT ![j] = NoAmount]
  /\ task' = [task EXCEPT ![j] = "none"]
  /\ UNCHANGED <<expired, reaped, files, proc, up, http, chan, loop, sweeper>>

\* Mutant: a failed job is sent round again before its slot is given back.
FailRun_Retries(j) ==
  /\ up /\ task[j] = "err"
  /\ status' = [status EXCEPT ![j] = "queued"]
  /\ peak' = [peak EXCEPT ![j] = NoAmount]
  /\ task' = [task EXCEPT ![j] = "none"]
  /\ chan' = chan \o <<New(j), Finished(j)>>
  /\ UNCHANGED <<expired, reaped, files, proc, up, http, loop, sweeper>>

\* The error branch of the spawned task: the row is failed with no peaks (the
\* result of that write is ignored) and the loop is told.
FailRun(j) ==
  /\ up /\ task[j] = "err"
  /\ \/ /\ status' = [status EXCEPT ![j] = "failed"]
        /\ peak' = [peak EXCEPT ![j] = NoAmount]
     \/ DB /\ UNCHANGED <<status, peak>>
  /\ task' = [task EXCEPT ![j] = "none"]
  /\ chan' = Append(chan, Finished(j))
  /\ UNCHANGED <<expired, reaped, files, proc, up, http, loop, sweeper>>

------------------------------------------------------------------------------
(* The child processes, in the job's directory.                            *)

\* Both scripts check out a kernel worktree under MK_WT_ROOT = work/<id>/wt.
Checkout(j) ==
  /\ proc[j] \in Alive /\ "wt" \notin files[j]
  /\ files' = [files EXCEPT ![j] = @ \cup {"wt"}]
  /\ UNCHANGED <<status, peak, expired, reaped, proc, up, http, chan, loop, task, sweeper>>

\* A child's exit status waits for the task that spawned it; with that task
\* gone the child just disappears.
Awaited(j) == up /\ \/ proc[j] = "agent" /\ task[j] = "agent"
                    \/ proc[j] = "kernel" /\ task[j] = "stream"

AgentExits(j) ==
  /\ proc[j] = "agent"
  /\ \E wrote \in {{}, {"bundle"}} : files' = [files EXCEPT ![j] = @ \cup wrote]
  /\ \E e \in {"ok", "bad"} : proc' = [proc EXCEPT ![j] = IF Awaited(j) THEN e ELSE "none"]
  /\ UNCHANGED <<status, peak, expired, reaped, up, http, chan, loop, task, sweeper>>

KernelExits(j) ==
  /\ proc[j] = "kernel"
  /\ \E e \in {"reported", "died"} :
       proc' = [proc EXCEPT ![j] = IF Awaited(j) THEN e ELSE "none"]
  /\ UNCHANGED <<disk, up, http, chan, loop, task, sweeper>>

------------------------------------------------------------------------------
(* Retention: sweep() runs in a task of its own, hourly.                   *)

\* Time passes: the row's finished_ms falls behind the cutoff.  A retention of
\* a day or more outlasts whatever a task still does after db.finish.
Expire(j) ==
  /\ status[j] \in Ended /\ ~expired[j]
  /\ RetentionDays = 0 \/ task[j] = "none"
  /\ expired' = [expired EXCEPT ![j] = TRUE]
  /\ UNCHANGED <<status, peak, reaped, files, proc, up, http, chan, loop, task, sweeper>>

\* Mutant: the query forgets that the job must have finished.
Reapable_AnyRow == {j \in Jobs : status[j] # "none" /\ ~reaped[j]}

Reapable == {j \in Jobs : status[j] \in Ended /\ expired[j] /\ ~reaped[j]}

SweepBegins ==
  /\ up /\ sweepTodo = {} /\ sweepAt = NoJob
  /\ Reapable # {}
  /\ sweepTodo' = Reapable
  /\ UNCHANGED <<disk, proc, up, http, chan, loop, task, sweepAt>>

\* Remove one directory, logs and all; an error skips the id until next time.
SweepRemoves(j) ==
  /\ up /\ j \in sweepTodo /\ sweepAt = NoJob
  /\ sweepTodo' = sweepTodo \ {j}
  /\ \/ files' = [files EXCEPT ![j] = {}] /\ sweepAt' = j
     \/ /\ IO /\ sweepAt' = NoJob
        /\ \E left \in SUBSET files[j] : files' = [files EXCEPT ![j] = left]
  /\ UNCHANGED <<status, peak, expired, reaped, proc, up, http, chan, loop, task>>

SweepMarks ==
  /\ up /\ sweepAt # NoJob
  /\ \/ reaped' = [reaped EXCEPT ![sweepAt] = TRUE]
     \/ DB /\ UNCHANGED reaped
  /\ sweepAt' = NoJob
  /\ UNCHANGED <<status, peak, expired, files, proc, up, http, chan, loop, task, sweepTodo>>

------------------------------------------------------------------------------
(* The server process dies and comes back.                                 *)

\* Everything in memory is gone.  Children are not killed with the server.
Crash ==
  /\ "crash" \in Faults /\ up
  /\ up' = FALSE
  /\ proc' = [j \in Jobs |-> IF proc[j] \in Alive THEN proc[j] ELSE "none"]
  /\ creds' = {}
  /\ handler' = [j \in Jobs |-> IF handler[j] \in {"row", "written"} THEN "failed" ELSE handler[j]]
  /\ chan' = <<>> /\ queue' = <<>> /\ slots' = {}
  /\ resv' = [j \in Jobs |-> NoAmount]
  /\ sched' = "select"
  /\ task' = [j \in Jobs |-> "none"]
  /\ sweepTodo' = {} /\ sweepAt' = NoJob
  /\ UNCHANGED <<disk, parent>>

\* Mutant: the rows of the prior run are left as they are.
Restart_NoRecovery ==
  /\ ~up
  /\ up' = TRUE
  /\ UNCHANGED <<disk, proc, http, chan, loop, task, sweeper>>

\* main: recover_orphans fails what a prior run left, before anything is served.
Restart ==
  /\ ~up
  /\ up' = TRUE
  /\ status' = [j \in Jobs |-> IF status[j] \in {"queued", "running"} THEN "failed" ELSE status[j]]
  /\ UNCHANGED <<peak, expired, reaped, files, proc, http, chan, loop, task, sweeper>>

------------------------------------------------------------------------------

Handler(j) == WriteInputs(j) \/ HandlerFails(j) \/ SendNew(j)

RunJob(j) ==
  \/ BeginRun(j) \/ StartAgent(j) \/ EndAgent(j) \/ StageBreaks(j) \/ StartKernel(j)
  \/ StreamBreaks(j) \/ FinishRun(j) \/ Reclaim(j) \/ FailRun(j)

Child(j) == Checkout(j) \/ AgentExits(j) \/ KernelExits(j)

Scheduler == Receive \/ Tick \/ Admit \/ StopAdmitting

Sweep == SweepBegins \/ SweepMarks \/ \E j \in Jobs : SweepRemoves(j)

Next ==
  \/ \E j \in Jobs, p \in Jobs \cup {NoJob} : CreateRow(j, p)
  \/ \E j \in Jobs : Handler(j) \/ RunJob(j) \/ Child(j) \/ Expire(j)
  \/ Scheduler
  \/ Sweep
  \/ Crash
  \/ Restart

Spec == Init /\ [][Next]_vars

------------------------------------------------------------------------------
(* Fairness.  Tasks of the tokio runtime that can run do run.  select! picks *)
(* among its ready branches at random, so a waiting message is not passed   *)
(* over for ever.  The code puts no bound on how long a child runs: that it *)
(* exits is an assumption about the children, not a fact about the server.  *)

Fairness ==
  /\ \A j \in Jobs : WF_vars(RunJob(j)) /\ WF_vars(AgentExits(j) \/ KernelExits(j))
  /\ SF_vars(Receive) /\ WF_vars(Tick) /\ SF_vars(Admit) /\ WF_vars(StopAdmitting)
  /\ WF_vars(Restart)

FairSpec == Spec /\ Fairness

------------------------------------------------------------------------------
(* Properties.                                                             *)

\* Every variable has its type (the code's columns, maps and channel).
TypeOK ==
  /\ status \in [Jobs -> Status]
  /\ peak \in [Jobs -> Amount]
  /\ expired \in [Jobs -> BOOLEAN] /\ reaped \in [Jobs -> BOOLEAN]
  /\ files \in [Jobs -> SUBSET Entry]
  /\ proc \in [Jobs -> ProcState]
  /\ up \in BOOLEAN
  /\ creds \in SUBSET Jobs
  /\ handler \in [Jobs -> HandlerPC]
  /\ parent \in [Jobs -> Jobs \cup {NoJob}]
  /\ chan \in Seq(Msg)
  /\ queue \in Seq(Jobs)
  /\ slots \in SUBSET Jobs
  /\ resv \in [Jobs -> Amount]
  /\ sched \in {"select", "admit"}
  /\ task \in [Jobs -> TaskPC]
  /\ sweepTodo \in SUBSET Jobs
  /\ sweepAt \in Jobs \cup {NoJob}

\* A job holds a slot exactly from its admission until the loop has applied its
\* Finished message: no error path of run_job leaks a slot or gives it back early.
SlotHeld ==
  \A j \in Jobs : j \in slots <=> task[j] # "none" \/ Finished(j) \in Range(chan)

\* An id is in the scheduler once: as a New message, or in the queue, or in a
\* slot.  So run_job never runs twice for one job, whatever the interleaving.
ScheduledOnce ==
  /\ IsInjective(chan) /\ IsInjective(queue)
  /\ \A j \in Range(queue) : New(j) \notin Range(chan) /\ j \notin slots
  /\ \A j \in slots : New(j) \notin Range(chan)

\* The hard cap, on what the scheduler accounts for.
SlotsCapped == Cardinality(slots) <= MaxJobs

\* Admission keeps the running jobs' RAM reservations and the host's reserve
\* within physical memory, although the estimate changes as peaks are learned.
ReservationsFit == slots # {} => Reserved(slots, resv).ram + RamReserve <= TotalRam

\* A row says running exactly while a task runs the job (or, with the server
\* down, until recover_orphans): no interleaving leaves a row stuck in running.
RunningIsLive ==
  ~DB /\ up => \A j \in Jobs :
    status[j] = "running" <=> task[j] \in {"scaffold", "agent", "spawn", "stream", "err"}

\* A row that says queued is on its way: its handler is still at work or has
\* sent it, and then the scheduler or its task has it.  Only a handler that
\* failed after create_job leaves a queued row that nothing will pick up.
QueuedIsKnown ==
  ~DB /\ up => \A j \in Jobs : status[j] = "queued" =>
    \/ handler[j] \in {"row", "written", "failed"}
    \/ New(j) \in Range(chan) \/ j \in Range(queue)
    \/ task[j] = "start"

\* While the server stays up and reads its children's output, every live child
\* process belongs to a job that holds a slot: max_jobs bounds processes too.
LiveWithinSlots ==
  Faults \cap {"io", "crash"} = {} => \A j \in Jobs : proc[j] \in Alive => j \in slots

\* run-kernel.py is started on this job's own bundle: given, or written by the
\* agent of this job (which took the key); never one left by an earlier id, as
\* long as that id's directory can be removed.
OwnBundle ==
  ~IO => \A j \in Jobs : task[j] = "stream" =>
    /\ "bundle" \in files[j] /\ "spec" \notin files[j]
    /\ j \notin creds

\* The API key of a scaffold job is in memory only until its agent starts.
KeyConsumed ==
  ~IO /\ ~DB => \A j \in creds :
    /\ status[j] \in {"queued", "running"}
    /\ task[j] \in {"none", "start", "scaffold"}

\* done and failed are final: no late finish, error branch, sweep or restart
\* changes the status of a job that has ended.
EndedIsFinal ==
  [][\A j \in Jobs : status[j] \in Ended => status'[j] = status[j]]_vars

\* No handler, sweep or reclaim takes the bundle or the logs from under a job
\* whose pipeline is running, even with a retention of zero days.
LiveDirKept ==
  [][\A j \in Jobs : task[j] \notin {"none", "reclaim"} =>
       files[j] \cap {"bundle", "logs"} \subseteq files'[j]]_vars

\* A job whose id was given to the client ends, if its estimate always fits and
\* children exit: across learned estimates, failures of the task and restarts.
SentEnds == \A j \in Jobs : handler[j] = "sent" ~> status[j] \in Ended

\* server/src/sched.rs:12 says of max_jobs: "hard cap regardless of resources".
HardCap == Cardinality({j \in Jobs : proc[j] \in Alive}) <= MaxJobs

\* The rows of this server behave as JobLifecycle promises.
Lifecycle == INSTANCE JobLifecycle WITH row <- status, Cap <- MaxJobs
LifecycleSpec == Lifecycle!Spec
------------------------------------------------------------------------------
(* The inductive invariant behind the properties above, proved to be one in *)
(* JobServer_proofs, which adds what there is to say of the directories.    *)

RunPC == {"scaffold", "agent", "spawn", "stream"}

\* Created, and neither admitted nor abandoned by its handler.
Waiting(j) ==
  \/ handler[j] \in {"row", "written"}
  \/ New(j) \in Range(chan) \/ j \in Range(queue)
  \/ task[j] = "start"

\* The scheduler hears of a job from its handler's last step and from no other.
HandlerFresh ==
  \A j \in Jobs : handler[j] # "sent" =>
    New(j) \notin Range(chan) /\ j \notin Range(queue) /\ j \notin slots

\* Finished is the last thing a task sends.
FinishedLast == \A j \in Jobs : Finished(j) \in Range(chan) => task[j] = "none"

\* A server that is down remembers nothing.
DownIsEmpty == ~up =>
  /\ chan = <<>> /\ queue = <<>> /\ slots = {}
  /\ \A j \in Jobs : task[j] = "none" /\ handler[j] \notin {"row", "written"}

\* What a job's row says, read off where the job is.
RowsAgree ==
  \A j \in Jobs :
    /\ Waiting(j) => status[j] = "queued"
    /\ task[j] \in RunPC => status[j] = "running"
    /\ task[j] = "err" => status[j] \in {"queued", "running"}
    /\ task[j] = "err" /\ ~DB => status[j] = "running"

\* A live child is its task's, as long as nothing makes a task leave one behind.
ChildOfTask ==
  Faults \cap {"io", "crash"} = {} => \A j \in Jobs :
    /\ proc[j] = "agent" => task[j] = "agent"
    /\ proc[j] = "kernel" => task[j] = "stream"

\* Whatever fails and whenever the server dies: the scheduler, the tasks and
\* the rows never disagree about where a job is.
IInv ==
  /\ TypeOK /\ SlotHeld /\ ScheduledOnce /\ SlotsCapped
  /\ HandlerFresh /\ FinishedLast /\ DownIsEmpty
  /\ RowsAgree /\ RunningIsLive /\ QueuedIsKnown /\ ChildOfTask

==============================================================================
