-------------------------------- MODULE JobFeed --------------------------------
(***************************************************************************)
(* What one job announces while it runs: the tasks that write its row, its *)
(* samples and its scaffold log, and the channel of bus.rs on which they   *)
(* tell a page of each write.                                              *)
(*                                                                         *)
(* run_job writes and then publishes, in two steps; the tees of the        *)
(* agent's output, the samplers and the summary tasks do the same beside   *)
(* it.  The channel is seen from the one page that may be subscribed: its  *)
(* entry is re-created by whoever publishes or subscribes next, so what    *)
(* counts is whether the page's receiver hangs on the entry in the map.    *)
(* Statements of the database succeed here; Summaries and JobServer have   *)
(* those that fail.  The progress of a summary's tokens is left out.       *)
(***************************************************************************)
EXTENDS Naturals, Sequences, FiniteSets

CONSTANTS
  Jobs,       \* what the job may have to say, a set of
              \* [scaffold, model: BOOLEAN, phases, lines, samples: Nat]
  Capacity    \* messages a receiver keeps (512 in the code)

ASSUME FeedAssumption ==
  /\ Jobs \subseteq [scaffold : BOOLEAN, model : BOOLEAN,
                    phases : Nat, lines : Nat, samples : Nat]
  /\ Capacity \in Nat \ {0}

Pipes == {"out", "err"}
Stages == {"scaffold", "run"}
Summary == {"start", "end"}

VARIABLES
  at,        \* where run_job is, or the error branch and the coordinator after it
  status,    \* of the jobs row: its status,
  phase,     \* which of the job's phases it shows, 0 before the first (the threads
             \* of a compare job mix theirs, so the phases are numbered as they come)
  cols,      \* and the summary columns set
  job,       \* whether it has a scaffold.json, and the summaries a loaded model; the
             \* phases, lines per pipe of the agent and samples it has at most
  tee,       \* of each pipe of the agent: what its reader is doing
  file,      \* logs/scaffold.log: the pipes its lines came from
  saved,     \* jobs.scaffold_log: no log or one
  sampler,   \* of each stage: what its sampler is doing
  stop,      \* the stages whose sampler was told to stop
  clock,     \* samples recorded; the n-th has the n-th time
  taken,     \* of each stage: its sampler's last sample
  task,      \* of each stage of the summaries: what its task is doing
  broken,    \* the stages that run_job left while their samplers were working
  conn,      \* the page's receiver: "none", "open", or "ended" once its entry is gone
  inbox,     \* what that receiver holds
  lost       \* the announcements of the job's end that the page will not read

columns == <<status, phase, cols>>
row == [status |-> status, phase |-> phase, cols |-> cols]
channel == <<conn, inbox, lost>>
log == <<tee, file, saved>>
sampling == <<sampler, stop, clock, taken>>
feedVars == <<at, columns, job, log, sampling, task, broken, channel>>

FeedInit ==
  /\ at = "queued"
  /\ status = "queued" /\ phase = 0 /\ cols = {}
  /\ job \in Jobs
  /\ tee = [p \in Pipes |-> "off"]
  /\ file = <<>>
  /\ saved = {}
  /\ sampler = [s \in Stages |-> "off"]
  /\ stop = {}
  /\ clock = 0
  /\ taken = [s \in Stages |-> 0]
  /\ task = [f \in Summary |-> "off"]
  /\ broken = {}
  /\ conn = "none"
  /\ inbox = <<>>
  /\ lost = {}

------------------------------------------------------------------------------
(* The channel.                                                            *)

Done == [kind |-> "done"]
EndSummary == [kind |-> "summary", field |-> "end"]
Final == {Done, EndSummary}
In(box) == {box[i] : i \in 1..Len(box)}

\* A full receiver loses its oldest message and is told so; filter_map hides it.
Room(box) == IF Len(box) < Capacity THEN box ELSE Tail(box)

publish(m) ==
  /\ inbox' = IF conn = "open" THEN Append(Room(inbox), m) ELSE inbox
  /\ lost' = lost \cup (Final \cap (({m} \cup In(inbox)) \ In(inbox')))
  /\ UNCHANGED conn

\* The receiver of a removed entry still hands out what it holds.
close ==
  /\ conn' = IF conn = "open" THEN "ended" ELSE conn
  /\ UNCHANGED <<inbox, lost>>

------------------------------------------------------------------------------
(* run_job up to the agent's end.                                          *)

Start ==
  /\ at = "queued"
  /\ status' = "running" /\ UNCHANGED <<phase, cols>>
  /\ at' = IF job.scaffold THEN "stage" ELSE "build"
  /\ UNCHANGED <<job, log, sampling, task, broken, channel>>

StagePhase ==
  /\ at = "stage"
  /\ phase' = phase + 1 /\ UNCHANGED <<status, cols>>
  /\ at' = "tell_stage"
  /\ UNCHANGED <<job, log, sampling, task, broken, channel>>

\* Its credentials are gone after a restart; or the agent starts.
StageStarts ==
  /\ at = "tell_stage"
  /\ publish([kind |-> "phase", phase |-> phase])
  /\ \/ at' = "error" /\ UNCHANGED <<tee, sampler>>
     \/ /\ at' = "agent"
        /\ tee' = [p \in Pipes |-> "reading"]
        /\ sampler' = [sampler EXCEPT !["scaffold"] = "idle"]
  /\ UNCHANGED <<columns, job, file, saved, stop, clock, taken, task, broken>>

\* The pipes may still hold lines when the agent has exited.
Line(p) ==
  /\ tee[p] = "reading"
  /\ Cardinality({i \in 1..Len(file) : file[i] = p}) < job.lines
  /\ file' = Append(file, p)
  /\ tee' = [tee EXCEPT ![p] = "wrote"]
  /\ UNCHANGED <<at, columns, job, saved, sampling, task, broken, channel>>

TellLine(p) ==
  /\ tee[p] = "wrote"
  /\ publish([kind |-> "scaffold_log", line |-> p])
  /\ tee' = [tee EXCEPT ![p] = "reading"]
  /\ UNCHANGED <<at, columns, job, file, saved, sampling, task, broken>>

\* At the end of the pipe, or at a line that is not UTF-8 while the agent goes on.
PipeEnds(p) ==
  /\ tee[p] = "reading"
  /\ tee' = [tee EXCEPT ![p] = "over"]
  /\ UNCHANGED <<at, columns, job, file, saved, sampling, task, broken, channel>>

AgentExits ==
  /\ at = "agent"
  /\ stop' = stop \cup {"scaffold"}
  /\ at' = "join_stage"
  /\ UNCHANGED <<columns, job, log, sampler, clock, taken, task, broken, channel>>

\* Waiting for the agent fails: nothing stops the sampler, the tees read on, and no
\* log is saved.
StageBreaks ==
  /\ at = "agent"
  /\ broken' = broken \cup {"scaffold"}
  /\ at' = "error"
  /\ UNCHANGED <<columns, job, log, sampling, task, channel>>

\* Mutant: the log is read while its pipes are still being drained.
StageEnds_NoTees ==
  /\ at = "join_stage"
  /\ sampler["scaffold"] = "over"
  /\ saved' = {file}
  /\ at' \in {"error", "build"}
  /\ UNCHANGED <<columns, job, tee, file, sampling, task, broken, channel>>

\* Mutant: the stage's sampler is told to stop but not waited for.
StageEnds_NoSampler ==
  /\ at = "join_stage"
  /\ \A p \in Pipes : tee[p] = "over"
  /\ saved' = {file}
  /\ at' \in {"error", "build"}
  /\ UNCHANGED <<columns, job, tee, file, sampling, task, broken, channel>>

\* The log is kept win or lose; the agent failed or left no bundle, or all is well.
StageEnds ==
  /\ at = "join_stage"
  /\ sampler["scaffold"] = "over"
  /\ \A p \in Pipes : tee[p] = "over"
  /\ saved' = {file}
  /\ at' \in {"error", "build"}
  /\ UNCHANGED <<columns, job, tee, file, sampling, task, broken, channel>>

------------------------------------------------------------------------------
(* Samplers and summary tasks.                                             *)

Sample(s) ==
  /\ sampler[s] = "idle" /\ s \notin stop
  /\ clock < job.samples
  /\ clock' = clock + 1
  /\ taken' = [taken EXCEPT ![s] = clock']
  /\ sampler' = [sampler EXCEPT ![s] = "recorded"]
  /\ UNCHANGED <<at, columns, job, log, stop, task, broken, channel>>

TellSample(s) ==
  /\ sampler[s] = "recorded"
  /\ publish([kind |-> "metric", ts |-> taken[s]])
  /\ sampler' = [sampler EXCEPT ![s] = "idle"]
  /\ UNCHANGED <<at, columns, job, log, stop, clock, taken, task, broken>>

SamplerEnds(s) ==
  /\ sampler[s] = "idle" /\ s \in stop
  /\ sampler' = [sampler EXCEPT ![s] = "over"]
  /\ UNCHANGED <<at, columns, job, log, stop, clock, taken, task, broken, channel>>

\* The primary's text of the stage, in its column first.
Summarise(f) ==
  /\ task[f] = "asked"
  /\ cols' = cols \cup {f} /\ UNCHANGED <<status, phase>>
  /\ task' = [task EXCEPT ![f] = "stored"]
  /\ UNCHANGED <<at, job, log, sampling, broken, channel>>

TellSummary(f) ==
  /\ task[f] = "stored"
  /\ publish([kind |-> "summary", field |-> f])
  /\ task' = [task EXCEPT ![f] = "over"]
  /\ UNCHANGED <<at, columns, job, log, sampling, broken>>

SummaryFails(f) ==
  /\ task[f] = "asked"
  /\ publish([kind |-> "summary_error", field |-> f])
  /\ task' = [task EXCEPT ![f] = "over"]
  /\ UNCHANGED <<at, columns, job, log, sampling, broken>>

------------------------------------------------------------------------------
(* run_job from the build to its end.                                      *)

\* Without a model there is no task to wait for.
Ask(f) == task' = [task EXCEPT ![f] = IF job.model THEN "asked" ELSE "over"]

\* The summaries' task is not waited for.  The child may not start; once its
\* sampler works, run.log may not open.
RunStarts ==
  /\ at = "build"
  /\ Ask("start")
  /\ \/ at' = "error" /\ UNCHANGED <<sampler, broken>>
     \/ /\ sampler' = [sampler EXCEPT !["run"] = "idle"]
        /\ \/ at' = "stream" /\ UNCHANGED broken
           \/ at' = "error" /\ broken' = broken \cup {"run"}
  /\ UNCHANGED <<columns, job, log, stop, clock, taken, channel>>

PhaseLine ==
  /\ at = "stream" /\ phase < job.phases
  /\ phase' = phase + 1 /\ UNCHANGED <<status, cols>>
  /\ at' = "tell_phase"
  /\ UNCHANGED <<job, log, sampling, task, broken, channel>>

TellPhase ==
  /\ at = "tell_phase"
  /\ publish([kind |-> "phase", phase |-> phase])
  /\ at' = "stream"
  /\ UNCHANGED <<columns, job, log, sampling, task, broken>>

\* A line that is not UTF-8: run_job returns and nothing stops the sampler.
StreamBreaks ==
  /\ at = "stream"
  /\ broken' = broken \cup {"run"}
  /\ at' = "error"
  /\ UNCHANGED <<columns, job, log, sampling, task, channel>>

ChildExits ==
  /\ at = "stream"
  /\ stop' = stop \cup {"run"}
  /\ at' = "join_run"
  /\ UNCHANGED <<columns, job, log, sampler, clock, taken, task, broken, channel>>

\* Mutant: so is the run's.
Finish_NoSampler ==
  /\ at = "join_run"
  /\ status' = "done" /\ UNCHANGED <<phase, cols>>
  /\ at' = "tell_done"
  /\ UNCHANGED <<job, log, sampling, task, broken, channel>>

Finish ==
  /\ at = "join_run"
  /\ sampler["run"] = "over"
  /\ status' \in {"done", "failed"} /\ UNCHANGED <<phase, cols>>
  /\ at' = "tell_done"
  /\ UNCHANGED <<job, log, sampling, task, broken, channel>>

TellDone ==
  /\ at = "tell_done"
  /\ publish(Done)
  /\ Ask("end")
  /\ at' = "coordinate"
  /\ UNCHANGED <<columns, job, log, sampling, broken>>

\* Mutant: the end summaries are not waited for, as the start summaries are not.
Coordinate_Detached ==
  /\ at = "coordinate"
  /\ publish([kind |-> "summaries_done"])
  /\ at' = "close"
  /\ UNCHANGED <<columns, job, log, sampling, task, broken>>

Coordinate ==
  /\ at = "coordinate" /\ task["end"] = "over"
  /\ publish([kind |-> "summaries_done"])
  /\ at' = "close"
  /\ UNCHANGED <<columns, job, log, sampling, task, broken>>

\* Mutant: the error branch only tells the page.
Fail_NotRecorded ==
  /\ at = "error"
  /\ at' = "tell_failed"
  /\ UNCHANGED <<columns, job, log, sampling, task, broken, channel>>

Fail ==
  /\ at = "error"
  /\ status' = "failed" /\ UNCHANGED <<phase, cols>>
  /\ at' = "tell_failed"
  /\ UNCHANGED <<job, log, sampling, task, broken, channel>>

\* Mutant: it does not.
TellFailed_Silent ==
  /\ at = "tell_failed"
  /\ at' = "close"
  /\ UNCHANGED <<columns, job, log, sampling, task, broken, channel>>

TellFailed ==
  /\ at = "tell_failed"
  /\ publish(Done)
  /\ at' = "close"
  /\ UNCHANGED <<columns, job, log, sampling, task, broken>>

Close ==
  /\ at = "close"
  /\ close
  /\ at' = "over"
  /\ UNCHANGED <<columns, job, log, sampling, task, broken>>

------------------------------------------------------------------------------
RunJob ==
  \/ Start \/ StagePhase \/ StageStarts \/ AgentExits \/ StageBreaks \/ StageEnds
  \/ RunStarts \/ PhaseLine \/ TellPhase \/ StreamBreaks \/ ChildExits
  \/ Finish \/ TellDone \/ Coordinate \/ Fail \/ TellFailed \/ Close
Tee(p) == Line(p) \/ TellLine(p) \/ PipeEnds(p)
Sampler(s) == Sample(s) \/ TellSample(s) \/ SamplerEnds(s)
Summarizer(f) == Summarise(f) \/ TellSummary(f) \/ SummaryFails(f)

FeedNext ==
  \/ RunJob
  \/ \E p \in Pipes : Tee(p)
  \/ \E s \in Stages : Sampler(s)
  \/ \E f \in Summary : Summarizer(f)

Ended == status \in {"done", "failed"}

\* Once the row says the job has ended, nothing samples it or writes its
\* scaffold log any more, and the saved log is the whole of it - unless run_job
\* left in the middle of a stage, where it stops no sampler and waits for no tee.
FeedQuiet ==
  Ended => /\ \A s \in Stages \ broken : sampler[s] \in {"off", "over"}
           /\ "scaffold" \notin broken => \A p \in Pipes : tee[p] \in {"off", "over"}
           /\ saved \subseteq {file}
================================================================================
