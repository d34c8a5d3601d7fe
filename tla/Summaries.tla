------------------------------ MODULE Summaries ------------------------------
(***************************************************************************)
(* The LLM summaries of a job: the requests run_job makes at its start and *)
(* end, the loader that brings the model up beside them and flushes what   *)
(* was asked for before, the tasks that generate and store one field with  *)
(* one backend, and the coordinator that closes the job's live channel.    *)
(*                                                                         *)
(* An action is what the code does between two points where another task   *)
(* can come in; a statement under the database lock is one action.  What   *)
(* a backend writes is abstracted to the backend it came from.  What a     *)
(* page hears of all this is JobPage's: here publishing changes nothing.   *)
(***************************************************************************)
EXTENDS Naturals, Sequences, FiniteSets

CONSTANTS
  Jobs,
  StartFields, EndFields,  \* title, repro; result, detail
  Backends, Primary,       \* the loaded backends and the primary one
  NULL,                    \* a summary column that is not set
  Flaky                    \* the fields whose writes to the database may fail

ASSUME SummariesAssumption ==
  /\ Primary \in Backends
  /\ NULL \notin Backends
  /\ StartFields \cap EndFields = {}
  /\ Flaky \subseteq StartFields \cup EndFields

Fields == StartFields \cup EndFields
Stage == {"start", "end"}
FieldsOf(stage) == IF stage = "start" THEN StartFields ELSE EndFields

VARIABLES
  loader,   \* the thread that loads the model: "flush" once the slot is set
  pending,  \* summary_queue: requests <<job, stage>> made before that
  flush,    \* those the loader drained and has still to spawn
  job,      \* where run_job is
  ask,      \* its last call of spawn_summary: "missed" found no model
  bundle,   \* work/<id>/bundle.md exists
  task,     \* the task of spawn_one for a job, field and backend
  text,     \* what its backend produced
  spawned,  \* how often it was spawned
  coord,    \* the coordinator of the end stage
  rows,     \* table job_summaries: <<job, field, backend>>
  column,   \* the field's column of the jobs row: whose text it holds
  meta      \* the field's entry in jobs.summary_meta

requests == <<loader, pending, flush>>
runs == <<job, ask, bundle>>
tasks == <<task, text, spawned, coord>>
db == <<rows, column, meta>>
vars == <<requests, runs, tasks, db>>

Each(val) == [j \in Jobs |-> [f \in Fields |-> [b \in Backends |-> val]]]

Init ==
  /\ loader = "loading"
  /\ pending = <<>>
  /\ flush = <<>>
  /\ job = [j \in Jobs |-> "begun"]
  /\ ask = [j \in Jobs |-> "none"]
  /\ bundle = [j \in Jobs |-> TRUE]
  /\ task = Each("none")
  /\ text = Each("none")
  /\ spawned = Each(0)
  /\ coord = [j \in Jobs |-> "none"]
  /\ rows = {}
  /\ column = [j \in Jobs |-> [f \in Fields |-> NULL]]
  /\ meta = [j \in Jobs |-> [f \in Fields |-> "none"]]

------------------------------------------------------------------------------
(* The loader.                                                             *)

\* slot.set, after which every caller finds the model.
LoaderSets ==
  /\ loader = "loading"
  /\ loader' = "set"
  /\ UNCHANGED <<pending, flush, runs, tasks, db>>

LoaderFails ==
  /\ loader = "loading"
  /\ loader' = "failed"
  /\ UNCHANGED <<pending, flush, runs, tasks, db>>

\* Mutant: only the first request is taken.
LoaderDrains_One ==
  /\ loader = "set"
  /\ flush' = IF pending = <<>> THEN <<>> ELSE <<Head(pending)>>
  /\ pending' = IF pending = <<>> THEN <<>> ELSE Tail(pending)
  /\ loader' = "flush"
  /\ UNCHANGED <<runs, tasks, db>>

LoaderDrains ==
  /\ loader = "set"
  /\ flush' = pending
  /\ pending' = <<>>
  /\ loader' = "flush"
  /\ UNCHANGED <<runs, tasks, db>>

\* spawn_summary found the model: one task for every field of the stage and
\* every backend.
SpawnAll(j, stage) ==
  /\ task' = [task EXCEPT ![j] = [f \in Fields |->
       IF f \in FieldsOf(stage) THEN [b \in Backends |-> "read"] ELSE task[j][f]]]
  /\ spawned' = [spawned EXCEPT ![j] = [f \in Fields |->
       IF f \in FieldsOf(stage) THEN [b \in Backends |-> spawned[j][f][b] + 1]
       ELSE spawned[j][f]]]
  /\ UNCHANGED text

\* The handles are dropped: nobody waits for flushed tasks.
LoaderFlushes ==
  /\ loader = "flush" /\ flush # <<>>
  /\ SpawnAll(Head(flush)[1], Head(flush)[2])
  /\ flush' = Tail(flush)
  /\ UNCHANGED <<loader, pending, runs, coord, db>>

------------------------------------------------------------------------------
(* run_job, as far as summaries are concerned.                             *)

\* `self.summarizer.get()` is Some once the slot is set.
Loaded == loader \in {"set", "flush"}
StageAt(j) == IF job[j] = "begun" THEN "start" ELSE "end"
\* What run_job does after the start request, and after the end request.
AfterAsk == [begun |-> "running", finished |-> "ended"]
\* The coordinator of an end request awaits the handles it was given.
Coordinate(j, how) == coord' = IF job[j] = "finished" THEN [coord EXCEPT ![j] = how] ELSE coord

\* spawn_summary with the model there.
AskLoaded(j) ==
  /\ job[j] \in {"begun", "finished"} /\ ask[j] = "none" /\ Loaded
  /\ SpawnAll(j, StageAt(j))
  /\ Coordinate(j, "waiting")
  /\ ask' = [ask EXCEPT ![j] = "spawned"]
  /\ job' = [job EXCEPT ![j] = AfterAsk[@]]
  /\ UNCHANGED <<requests, bundle, db>>

\* spawn_summary finds the slot empty ...
AskMisses(j) ==
  /\ job[j] \in {"begun", "finished"} /\ ask[j] = "none" /\ ~Loaded
  /\ ask' = [ask EXCEPT ![j] = "missed"]
  /\ UNCHANGED <<requests, job, bundle, tasks, db>>

\* Mutant: after queueing, the caller looks again and also spawns.
AskQueues_ThenSpawns(j) ==
  /\ ask[j] = "missed"
  /\ pending' = Append(pending, <<j, StageAt(j)>>)
  /\ IF Loaded
       THEN SpawnAll(j, StageAt(j)) /\ Coordinate(j, "waiting")
       ELSE UNCHANGED <<task, spawned, text>> /\ Coordinate(j, "empty")
  /\ ask' = [ask EXCEPT ![j] = "queued"]
  /\ job' = [job EXCEPT ![j] = AfterAsk[@]]
  /\ UNCHANGED <<loader, flush, bundle, db>>

\* ... queues the request, and returns no handle to wait for.
AskQueues(j) ==
  /\ ask[j] = "missed"
  /\ pending' = Append(pending, <<j, StageAt(j)>>)
  /\ Coordinate(j, "empty")
  /\ ask' = [ask EXCEPT ![j] = "queued"]
  /\ job' = [job EXCEPT ![j] = AfterAsk[@]]
  /\ UNCHANGED <<loader, flush, bundle, task, text, spawned, db>>

\* The pipeline is over: finish and the "done" message.
Finish(j) ==
  /\ job[j] = "running"
  /\ job' = [job EXCEPT ![j] = "finished"]
  /\ ask' = [ask EXCEPT ![j] = "none"]
  /\ UNCHANGED <<requests, bundle, tasks, db>>

\* scheduler_loop's error branch, also entered when the scaffold stage failed
\* before the start request: "done" ...
Fail(j) ==
  /\ job[j] = "running" \/ (job[j] = "begun" /\ ask[j] = "none")
  /\ job' = [job EXCEPT ![j] = "failing"]
  /\ UNCHANGED <<requests, ask, bundle, tasks, db>>

\* ... and close, without an end request.
FailCloses(j) ==
  /\ job[j] = "failing"
  /\ job' = [job EXCEPT ![j] = "failed"]
  /\ UNCHANGED <<requests, ask, bundle, tasks, db>>

Ended(j) == job[j] \in {"ended", "failed"}

\* The retention sweep removes the directory of a job that ended.
Reap(j) ==
  /\ Ended(j) /\ bundle[j]
  /\ bundle' = [bundle EXCEPT ![j] = FALSE]
  /\ UNCHANGED <<requests, job, ask, tasks, db>>

Over(j, fs) == \A f \in fs, b \in Backends : task[j][f][b] = "over"

\* Mutant: without handles there is nothing to wait for, nor to close.
TellDone_WithHandles(j) ==
  /\ coord[j] = "waiting" /\ Over(j, EndFields)
  /\ coord' = [coord EXCEPT ![j] = "told"]
  /\ UNCHANGED <<requests, runs, task, text, spawned, db>>

\* The end-summary coordinator: await every handle it has, "summaries_done" ...
TellDone(j) ==
  /\ coord[j] = "empty" \/ (coord[j] = "waiting" /\ Over(j, EndFields))
  /\ coord' = [coord EXCEPT ![j] = "told"]
  /\ UNCHANGED <<requests, runs, task, text, spawned, db>>

\* ... and close.
Close(j) ==
  /\ coord[j] = "told"
  /\ coord' = [coord EXCEPT ![j] = "closed"]
  /\ UNCHANGED <<requests, runs, task, text, spawned, db>>

------------------------------------------------------------------------------
(* spawn_one: field f of job j with backend b.                             *)

Step(j, f, b, from, to) ==
  /\ task[j][f][b] = from
  /\ task' = [task EXCEPT ![j][f][b] = to]
  /\ UNCHANGED <<requests, runs, spawned, coord>>

\* bundle.md is gone: the task ends without a word.
NoBundle(j, f, b) ==
  /\ ~bundle[j]
  /\ Step(j, f, b, "read", "over")
  /\ UNCHANGED <<text, db>>

ReadBundle(j, f, b) ==
  /\ bundle[j]
  /\ Step(j, f, b, "read", "generate")
  /\ UNCHANGED <<text, db>>

\* The model call on its blocking thread: a text, or no text, an error, a panic.
Generate(j, f, b) ==
  /\ \/ /\ Step(j, f, b, "generate", "record")
        /\ text' = [text EXCEPT ![j][f][b] = "some"]
     \/ /\ Step(j, f, b, "generate", IF b = Primary THEN "error" ELSE "over")
        /\ text' = [text EXCEPT ![j][f][b] = "failed"]
  /\ UNCHANGED db

\* set_job_summary; a failure is logged and passed over.
Record(j, f, b) ==
  /\ Step(j, f, b, "record", IF b = Primary THEN "column" ELSE "fallback")
  /\ rows' = rows \cup {<<j, f, b>>} \/ (f \in Flaky /\ rows' = rows)
  /\ UNCHANGED <<text, column, meta>>

\* Mutant: the primary, too, only fills a column that is empty.
StoreColumn_IfNull(j, f, b) ==
  /\ Step(j, f, b, "column", "meta")
  /\ column' = IF column[j][f] = NULL THEN [column EXCEPT ![j][f] = b] ELSE column
  /\ UNCHANGED <<text, rows, meta>>

\* The primary sets the column; if that fails the task ends here.
StoreColumn(j, f, b) ==
  /\ \/ /\ Step(j, f, b, "column", "meta")
        /\ column' = [column EXCEPT ![j][f] = b]
     \/ /\ f \in Flaky
        /\ Step(j, f, b, "column", "over")
        /\ UNCHANGED column
  /\ UNCHANGED <<text, rows, meta>>

\* Mutant: the JSON object is written anew, so other fields' entries are lost.
SetMeta_Clobbers(j, f, what) ==
  meta' = [meta EXCEPT ![j] = [g \in Fields |-> IF g = f THEN what ELSE "none"]]

\* Read-modify-write of summary_meta under one lock.
SetMeta(j, f, what) == meta' = [meta EXCEPT ![j][f] = what]

\* set_summary_meta, whose failure is passed over, and the "summary" message.
StoreMeta(j, f, b) ==
  /\ Step(j, f, b, "meta", "over")
  /\ SetMeta(j, f, "ok") \/ (f \in Flaky /\ UNCHANGED meta)
  /\ UNCHANGED <<text, rows, column>>

\* Mutant: the other backends leave the column alone.
Fallback_Never(j, f, b) ==
  /\ Step(j, f, b, "fallback", "over")
  /\ UNCHANGED <<text, rows, column, meta>>

\* set_summary_fallback: UPDATE ... WHERE the column IS NULL.
Fallback(j, f, b) ==
  /\ Step(j, f, b, "fallback", "over")
  /\ \/ column' = IF column[j][f] = NULL THEN [column EXCEPT ![j][f] = b] ELSE column
     \/ f \in Flaky /\ UNCHANGED column
  /\ UNCHANGED <<text, rows, meta>>

\* record_summary_failure.
StoreError(j, f, b) ==
  /\ Step(j, f, b, "error", "over")
  /\ SetMeta(j, f, "error") \/ (f \in Flaky /\ UNCHANGED meta)
  /\ UNCHANGED <<text, rows, column>>

------------------------------------------------------------------------------
Summarise(j, f, b) ==
  \/ NoBundle(j, f, b) \/ ReadBundle(j, f, b) \/ Generate(j, f, b) \/ Record(j, f, b)
  \/ StoreColumn(j, f, b) \/ StoreMeta(j, f, b) \/ Fallback(j, f, b) \/ StoreError(j, f, b)

Loader == LoaderDrains \/ LoaderFlushes
RunJob(j) == AskLoaded(j) \/ AskMisses(j) \/ AskQueues(j) \/ FailCloses(j)
Coordinator(j) == TellDone(j) \/ Close(j)

AllOver ==
  /\ loader \in {"flush", "failed"} /\ flush = <<>>
  /\ \A j \in Jobs :
       /\ Ended(j) /\ coord[j] \in {"none", "closed"}
       /\ \A f \in Fields, b \in Backends : task[j][f][b] \in {"none", "over"}
  /\ UNCHANGED vars

Next ==
  \/ Loader \/ LoaderSets \/ LoaderFails
  \/ \E j \in Jobs :
       \/ RunJob(j) \/ Finish(j) \/ Fail(j) \/ Reap(j) \/ Coordinator(j) 
       \/ \E f \in Fields, b \in Backends : Summarise(j, f, b)
  \/ AllOver

\* Tasks that can go on do.  A model call ends: the HTTP client has a timeout
\* and opencode a deadline.  Nothing is assumed of the load, of the pipelines
\* or of clients.
Fairness ==
  /\ WF_vars(Loader)
  /\ \A j \in Jobs :
       /\ WF_vars(RunJob(j)) /\ WF_vars(Coordinator(j))
       /\ \A f \in Fields, b \in Backends : WF_vars(Summarise(j, f, b))

Spec == Init /\ [][Next]_vars
FairSpec == Spec /\ Fairness

------------------------------------------------------------------------------
(* Properties.                                                             *)

TaskState == {"none", "read", "generate", "record", "column", "meta", "fallback", "error", "over"}

\* Whatever the order in which the backends answer, the page shows the primary's
\* text for a field once the primary has produced one (spawn_one's unconditional
\* write against set_summary_fallback's IS NULL).
PrimaryWins ==
  \A j \in Jobs, f \in Fields :
    \/ task[j][f][Primary] = "meta"
    \/ task[j][f][Primary] = "over" /\ text[j][f][Primary] = "some" /\ f \notin Flaky
    => column[j][f] = Primary

\* "Never-blank fallback" (main.rs:917): a text that any backend produced is in
\* job_summaries, and the field's column is set.
NeverBlank ==
  \A j \in Jobs, f \in Fields \ Flaky, b \in Backends :
    task[j][f][b] = "over" /\ text[j][f][b] = "some" =>
      column[j][f] # NULL /\ <<j, f, b>> \in rows

\* The field's entry of summary_meta says how the primary's attempt ended, also
\* when the four fields are stored at the same time (set_summary_meta and
\* set_summary_error are read-modify-writes of one JSON column).
MetaTells ==
  \A j \in Jobs, f \in Fields \ Flaky :
    task[j][f][Primary] \in {"none", "over"} =>
      meta[j][f] = CASE text[j][f][Primary] = "some" -> "ok"
                     [] text[j][f][Primary] = "failed" -> "error"
                     [] text[j][f][Primary] = "none" -> "none"

\* However a request and the load interleave, no field is generated twice.
SummarisedOnce == \A j \in Jobs, f \in Fields, b \in Backends : spawned[j][f][b] <= 1

\* A channel whose job ended normally is closed in the end, with or without a
\* model.
ChannelCloses == \A j \in Jobs : job[j] = "finished" ~> coord[j] = "closed"

\* A request that is queued when the model is ready is flushed.
QueuedIsFlushed ==
  \A j \in Jobs, s \in Stage :
    loader = "set" /\ (\E i \in DOMAIN pending : pending[i] = <<j, s>>)
      ~> \A f \in FieldsOf(s), b \in Backends : task[j][f][b] = "over"

\* Requests made before the model is ready are "flushed here on load, rather
\* than silently dropped" (main.rs:168): once the loader drained the queue,
\* which it does once, nothing is left in it.
NothingLeftBehind == loader = "flush" => pending = <<>>
==============================================================================
