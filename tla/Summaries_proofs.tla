--------------------------- MODULE Summaries_proofs ---------------------------
(***************************************************************************)
(* What the page shows of a field agrees with what the backends produced,  *)
(* for any jobs, fields and backends, however the load of the model, the   *)
(* requests and the tasks interleave.                                      *)
(***************************************************************************)
EXTENDS Summaries, TLAPS

In(s, x) == \E i \in DOMAIN s : s[i] = x
Distinct(s) == \A i, k \in DOMAIN s : s[i] = s[k] => i = k

\* The types the proofs need.
Types ==
  /\ loader \in {"loading", "set", "flush", "failed"}
  /\ pending \in Seq(Jobs \X Stage) /\ flush \in Seq(Jobs \X Stage)
  /\ job \in [Jobs -> {"begun", "running", "finished", "ended", "failing", "failed"}]
  /\ ask \in [Jobs -> {"none", "missed", "queued", "spawned"}]
  /\ task \in [Jobs -> [Fields -> [Backends -> TaskState]]]
  /\ text \in [Jobs -> [Fields -> [Backends -> {"none", "some", "failed"}]]]
  /\ spawned \in [Jobs -> [Fields -> [Backends -> Nat]]]
  /\ column \in [Jobs -> [Fields -> Backends \cup {NULL}]]
  /\ meta \in [Jobs -> [Fields -> {"none", "ok", "error"}]]

\* No task of the stage was spawned yet.
Fresh(j, s) == \A f \in FieldsOf(s), b \in Backends :
  task[j][f][b] = "none" /\ spawned[j][f][b] = 0

\* run_job has made its request for the stage.
Asked(j, s) == IF s = "start" THEN job[j] # "begun" ELSE job[j] = "ended"

\* A request is in one place: not made, queued once, to be flushed, or spawned.
OneRequest ==
  /\ Distinct(pending) /\ Distinct(flush)
  /\ loader # "flush" => flush = <<>>
  /\ \A j \in Jobs, s \in Stage :
       /\ In(pending, <<j, s>>) => ~In(flush, <<j, s>>)
       /\ In(pending, <<j, s>>) \/ In(flush, <<j, s>>) => Asked(j, s) /\ Fresh(j, s)
       /\ ~Asked(j, s) => Fresh(j, s)
  /\ \A j \in Jobs : ask[j] = "missed" => job[j] \in {"begun", "finished"}

\* Where a task is tells what it spawned, generated and stored.
TaskTells(j, f, b) ==
  /\ spawned[j][f][b] = IF task[j][f][b] = "none" THEN 0 ELSE 1
  /\ task[j][f][b] \in {"none", "read", "generate"} => text[j][f][b] = "none"
  /\ task[j][f][b] \in {"record", "column", "meta", "fallback"} => text[j][f][b] = "some"
  /\ task[j][f][b] = "error" => text[j][f][b] = "failed"
  /\ task[j][f][b] \in {"column", "meta", "error"} => b = Primary
  /\ task[j][f][b] = "fallback" => b # Primary
  /\ f \notin Flaky /\ task[j][f][b] \in {"column", "meta", "fallback", "over"}
       /\ text[j][f][b] = "some" => <<j, f, b>> \in rows
  /\ f \notin Flaky /\ task[j][f][b] = "over" /\ text[j][f][b] = "some" => column[j][f] # NULL

\* The primary's task and the row.
PrimaryTells(j, f) ==
  /\ task[j][f][Primary] = "meta" => column[j][f] = Primary
  /\ f \notin Flaky /\ task[j][f][Primary] = "over" /\ text[j][f][Primary] = "some"
       => column[j][f] = Primary
  /\ task[j][f][Primary] # "over" => meta[j][f] = "none"
  /\ f \notin Flaky /\ task[j][f][Primary] = "over" =>
       /\ text[j][f][Primary] = "none" => meta[j][f] = "none"
       /\ text[j][f][Primary] = "some" => meta[j][f] = "ok"
       /\ text[j][f][Primary] = "failed" => meta[j][f] = "error"

Stored ==
  /\ \A j \in Jobs, f \in Fields, b \in Backends : TaskTells(j, f, b)
  /\ \A j \in Jobs, f \in Fields : PrimaryTells(j, f)

SInv == Types /\ OneRequest /\ Stored

------------------------------------------------------------------------------
LEMMA StageFields == \A s \in Stage : FieldsOf(s) \subseteq Fields
  BY DEF Stage, FieldsOf, Fields

LEMMA InitSInv == Init => SInv
<1> SUFFICES ASSUME Init PROVE SInv
  OBVIOUS
<1>1. Types
  BY DEF Init, Types, Each, TaskState
<1>2. OneRequest
  BY StageFields DEF Init, Each, OneRequest, In, Distinct, Fresh, Asked
<1>3. Stored
  BY SummariesAssumption DEF Init, Each, Stored, TaskTells, PrimaryTells
<1> QED
  BY <1>1, <1>2, <1>3 DEF SInv

\* One step of a task leaves every request where it is.
LEMMA StepKeepsRequests ==
  ASSUME SInv, NEW j \in Jobs, NEW f \in Fields, NEW b \in Backends,
         NEW from \in TaskState \ {"none"}, NEW to \in TaskState \ {"none"},
         Step(j, f, b, from, to)
  PROVE  /\ OneRequest'
         /\ task' \in [Jobs -> [Fields -> [Backends -> TaskState]]]
<1> USE DEF SInv, Types, Step
<1>1. task' \in [Jobs -> [Fields -> [Backends -> TaskState]]]
  OBVIOUS
<1>2. \A k \in Jobs, g \in Fields, c \in Backends :
        task'[k][g][c] = "none" <=> task[k][g][c] = "none"
  OBVIOUS
<1>3. UNCHANGED <<loader, pending, flush, job, ask, spawned>>
  BY DEF requests, runs
<1>4. ASSUME NEW k \in Jobs, NEW s \in Stage PROVE Fresh(k, s)' <=> Fresh(k, s)
  BY <1>2, <1>3, StageFields DEF Fresh, FieldsOf
<1>5. ASSUME NEW k \in Jobs, NEW s \in Stage PROVE Asked(k, s)' <=> Asked(k, s)
  BY <1>3 DEF Asked
<1> QED
  BY <1>1, <1>3, <1>4, <1>5 DEF OneRequest, In, Distinct

\* One step of a task moves that task only.
LEMMA OneTaskMoves ==
  ASSUME Types, NEW j \in Jobs, NEW f \in Fields, NEW b \in Backends,
         NEW from, NEW to, Step(j, f, b, from, to)
  PROVE  \A k \in Jobs, g \in Fields, c \in Backends :
           <<k, g, c>> # <<j, f, b>> => task'[k][g][c] = task[k][g][c]
<1>1. task \in [Jobs -> [Fields -> [Backends -> TaskState]]]
      /\ task' = [task EXCEPT ![j][f][b] = to]
  BY DEF Types, Step
<1> QED
  BY <1>1

\* What a step of one task leaves alone: other tasks, other fields' columns and
\* entries, rows already there.
Elsewhere(j, f, b) ==
  /\ \A k \in Jobs, g \in Fields, c \in Backends : <<k, g, c>> # <<j, f, b>> =>
       task'[k][g][c] = task[k][g][c] /\ text'[k][g][c] = text[k][g][c]
  /\ \A k \in Jobs, g \in Fields : <<k, g>> # <<j, f>> =>
       column'[k][g] = column[k][g] /\ meta'[k][g] = meta[k][g]
  /\ column'[j][f] \in Backends \/ column'[j][f] = column[j][f]
  /\ rows \subseteq rows'
  /\ spawned' = spawned

LEMMA StoreElsewhere ==
  ASSUME Types, NEW j \in Jobs, NEW f \in Fields, NEW b \in Backends,
         NEW from, NEW to, Step(j, f, b, from, to), text' = text, rows' = rows,
         column' = column \/ column' = [column EXCEPT ![j][f] = b],
         NEW what, meta' = meta \/ meta' = [meta EXCEPT ![j][f] = what]
  PROVE  Elsewhere(j, f, b)
<1>1. column \in [Jobs -> [Fields -> Backends \cup {NULL}]]
      /\ meta \in [Jobs -> [Fields -> {"none", "ok", "error"}]]
  BY DEF Types
<1>2. \A k \in Jobs, g \in Fields : <<k, g>> # <<j, f>> => column'[k][g] = column[k][g]
  BY <1>1
<1>3. \A k \in Jobs, g \in Fields : <<k, g>> # <<j, f>> => meta'[k][g] = meta[k][g]
  BY <1>1
<1>4. column'[j][f] \in Backends \/ column'[j][f] = column[j][f]
  BY <1>1
<1>5. spawned' = spawned
  BY DEF Step
<1> QED
  BY <1>2, <1>3, <1>4, <1>5, OneTaskMoves DEF Elsewhere

LEMMA LocalStep ==
  ASSUME SInv, NEW j \in Jobs, NEW f \in Fields, NEW b \in Backends,
         Elsewhere(j, f, b), TaskTells(j, f, b)', PrimaryTells(j, f)'
  PROVE  Stored'
<1>1. ASSUME NEW k \in Jobs, NEW g \in Fields, NEW c \in Backends PROVE TaskTells(k, g, c)'
  <2>1. TaskTells(k, g, c)
    BY DEF SInv, Stored
  <2>2. CASE <<k, g, c>> = <<j, f, b>>
    BY <2>2
  <2>3. CASE <<k, g, c>> # <<j, f, b>>
    <3>1. column[k][g] # NULL => column'[k][g] # NULL
      BY SummariesAssumption DEF Elsewhere
    <3> QED
      BY <2>1, <2>3, <3>1 DEF Elsewhere, TaskTells
  <2> QED
    BY <2>2, <2>3
<1>2. ASSUME NEW k \in Jobs, NEW g \in Fields PROVE PrimaryTells(k, g)'
  <2>1. PrimaryTells(k, g)
    BY DEF SInv, Stored
  <2>2. CASE <<k, g>> = <<j, f>>
    BY <2>2
  <2>3. CASE <<k, g>> # <<j, f>>
    BY <2>1, <2>3, SummariesAssumption DEF Elsewhere, PrimaryTells
  <2> QED
    BY <2>2, <2>3
<1> QED
  BY <1>1, <1>2 DEF Stored

\* A step of a task preserves the invariant.
LEMMA SummariseStep ==
  ASSUME SInv, NEW j \in Jobs, NEW f \in Fields, NEW b \in Backends, Summarise(j, f, b)
  PROVE  SInv'
<1> USE SummariesAssumption DEF TaskState
<1>0. TaskTells(j, f, b) /\ PrimaryTells(j, f) /\ Types
  BY DEF SInv, Stored
<1>1. CASE NoBundle(j, f, b)
  <2>1. OneRequest'
    BY <1>1, StepKeepsRequests DEF NoBundle
  <2>2. Types'
    BY <1>0, <1>1 DEF NoBundle, requests, runs, db, Step, Types
  <2>3. Elsewhere(j, f, b)
    BY <1>0, <1>1 DEF NoBundle, requests, runs, db, Step, Types, Elsewhere
  <2>4. TaskTells(j, f, b)'
    BY <1>0, <1>1 DEF NoBundle, requests, runs, db, Step, Types, TaskTells
  <2>5. PrimaryTells(j, f)'
    BY <1>0, <1>1 DEF NoBundle, requests, runs, db, Step, Types, TaskTells, PrimaryTells
  <2> QED
    BY <2>1, <2>2, <2>3, <2>4, <2>5, LocalStep DEF SInv
<1>2. CASE ReadBundle(j, f, b)
  <2>1. OneRequest'
    BY <1>2, StepKeepsRequests DEF ReadBundle
  <2>2. Types'
    BY <1>0, <1>2 DEF ReadBundle, requests, runs, db, Step, Types
  <2>3. Elsewhere(j, f, b)
    BY <1>0, <1>2 DEF ReadBundle, requests, runs, db, Step, Types, Elsewhere
  <2>4. TaskTells(j, f, b)'
    BY <1>0, <1>2 DEF ReadBundle, requests, runs, db, Step, Types, TaskTells
  <2>5. PrimaryTells(j, f)'
    BY <1>0, <1>2 DEF ReadBundle, requests, runs, db, Step, Types, TaskTells, PrimaryTells
  <2> QED
    BY <2>1, <2>2, <2>3, <2>4, <2>5, LocalStep DEF SInv
<1>3. CASE Generate(j, f, b)
  <2>1. UNCHANGED db
    BY <1>3 DEF Generate
  <2>2. CASE /\ Step(j, f, b, "generate", "record")
             /\ text' = [text EXCEPT ![j][f][b] = "some"]
    <3>1. OneRequest'
      BY <2>1, <2>2, StepKeepsRequests DEF TaskState
    <3>2. Types'
      BY <1>0, <2>1, <2>2 DEF requests, runs, db, Step, Types
    <3>3. Elsewhere(j, f, b)
      BY <1>0, <2>1, <2>2 DEF requests, runs, db, Step, Types, Elsewhere
    <3>4. TaskTells(j, f, b)'
      BY <1>0, <2>1, <2>2 DEF requests, runs, db, Step, Types, TaskTells
    <3>5. PrimaryTells(j, f)'
      BY <1>0, <2>1, <2>2 DEF requests, runs, db, Step, Types, TaskTells, PrimaryTells
    <3> QED
      BY <3>1, <3>2, <3>3, <3>4, <3>5, LocalStep DEF SInv
  <2>3. CASE /\ Step(j, f, b, "generate", IF b = Primary THEN "error" ELSE "over")
             /\ text' = [text EXCEPT ![j][f][b] = "failed"]
    <3>1. OneRequest'
      BY <2>1, <2>3, StepKeepsRequests DEF TaskState
    <3>2. Types'
      BY <1>0, <2>1, <2>3 DEF requests, runs, db, Step, Types
    <3>3. Elsewhere(j, f, b)
      BY <1>0, <2>1, <2>3 DEF requests, runs, db, Step, Types, Elsewhere
    <3>4. TaskTells(j, f, b)'
      BY <1>0, <2>1, <2>3 DEF requests, runs, db, Step, Types, TaskTells
    <3>5. PrimaryTells(j, f)'
      BY <1>0, <2>1, <2>3 DEF requests, runs, db, Step, Types, TaskTells, PrimaryTells
    <3> QED
      BY <3>1, <3>2, <3>3, <3>4, <3>5, LocalStep DEF SInv
  <2> QED
    BY <1>3, <2>2, <2>3 DEF Generate
<1>4. CASE Record(j, f, b)
  <2>1. OneRequest'
    BY <1>4, StepKeepsRequests DEF Record
  <2>2. Types'
    BY <1>0, <1>4 DEF Record, requests, runs, Step, Types
  <2>3. Elsewhere(j, f, b)
    BY <1>0, <1>4 DEF Record, requests, runs, Step, Types, Elsewhere
  <2>4. TaskTells(j, f, b)'
    BY <1>0, <1>4 DEF Record, requests, runs, Step, Types, TaskTells
  <2>5. PrimaryTells(j, f)'
    BY <1>0, <1>4 DEF Record, requests, runs, Step, Types, TaskTells, PrimaryTells
  <2> QED
    BY <2>1, <2>2, <2>3, <2>4, <2>5, LocalStep DEF SInv
<1>5. CASE StoreColumn(j, f, b)
  <2>1. OneRequest'
    BY <1>5, StepKeepsRequests DEF StoreColumn
  <2>2. Types'
    <3>1. task' \in [Jobs -> [Fields -> [Backends -> TaskState]]]
      BY <1>5, StepKeepsRequests DEF StoreColumn
    <3>2. column' \in [Jobs -> [Fields -> Backends \cup {NULL}]]
      <4>1. column \in [Jobs -> [Fields -> Backends \cup {NULL}]]
        BY <1>0 DEF Types
      <4>2. column' = column \/ column' = [column EXCEPT ![j][f] = b]
        BY <1>5 DEF StoreColumn
      <4> QED
        BY <4>1, <4>2
    <3>3. UNCHANGED <<loader, pending, flush, job, ask, spawned, text, meta>>
      BY <1>5 DEF StoreColumn, Step, requests, runs
    <3> HIDE DEF TaskState
    <3> QED
      BY <1>0, <3>1, <3>2, <3>3 DEF Types
  <2>3. Elsewhere(j, f, b)
    BY <1>0, <1>5, StoreElsewhere DEF StoreColumn
  <2>4. TaskTells(j, f, b)'
    BY <1>0, <1>5 DEF StoreColumn, requests, runs, Step, Types, TaskTells
  <2>5. PrimaryTells(j, f)'
    BY <1>0, <1>5 DEF StoreColumn, requests, runs, Step, Types, TaskTells, PrimaryTells
  <2> QED
    BY <2>1, <2>2, <2>3, <2>4, <2>5, LocalStep DEF SInv
<1>6. CASE StoreMeta(j, f, b)
  <2>1. OneRequest'
    BY <1>6, StepKeepsRequests DEF StoreMeta
  <2>2. Types'
    <3>1. task' \in [Jobs -> [Fields -> [Backends -> TaskState]]]
      BY <1>6, StepKeepsRequests DEF StoreMeta
    <3>2. meta' \in [Jobs -> [Fields -> {"none", "ok", "error"}]]
      <4>1. meta \in [Jobs -> [Fields -> {"none", "ok", "error"}]]
        BY <1>0 DEF Types
      <4>2. meta' = meta \/ meta' = [meta EXCEPT ![j][f] = "ok"]
        BY <1>6 DEF StoreMeta, SetMeta
      <4> QED
        BY <4>1, <4>2
    <3>3. UNCHANGED <<loader, pending, flush, job, ask, spawned, text, column>>
      BY <1>6 DEF StoreMeta, Step, requests, runs
    <3> HIDE DEF TaskState
    <3> QED
      BY <1>0, <3>1, <3>2, <3>3 DEF Types
  <2>3. Elsewhere(j, f, b)
    BY <1>0, <1>6, StoreElsewhere DEF StoreMeta, SetMeta
  <2>4. TaskTells(j, f, b)'
    <3>1. UNCHANGED <<text, rows, column, spawned>>
      BY <1>6 DEF StoreMeta, Step
    <3>2. task[j][f][b] = "meta" /\ task'[j][f][b] = "over"
      BY <1>0, <1>6 DEF StoreMeta, Step, Types
    <3>3. b = Primary /\ column[j][f] = Primary /\ text[j][f][b] = "some" /\ spawned[j][f][b] = 1
      BY <1>0, <3>2 DEF TaskTells, PrimaryTells
    <3> QED
      BY <1>0, <3>1, <3>2, <3>3 DEF TaskTells
  <2>5. PrimaryTells(j, f)'
    BY <1>0, <1>6 DEF StoreMeta, SetMeta, requests, runs, Step, Types, TaskTells, PrimaryTells
  <2> QED
    BY <2>1, <2>2, <2>3, <2>4, <2>5, LocalStep DEF SInv
<1>7. CASE Fallback(j, f, b)
  <2>1. OneRequest'
    BY <1>7, StepKeepsRequests DEF Fallback
  <2>2. Types'
    <3>1. task' \in [Jobs -> [Fields -> [Backends -> TaskState]]]
      BY <1>7, StepKeepsRequests DEF Fallback
    <3>2. column' \in [Jobs -> [Fields -> Backends \cup {NULL}]]
      <4>1. column \in [Jobs -> [Fields -> Backends \cup {NULL}]]
        BY <1>0 DEF Types
      <4>2. column' = column \/ column' = [column EXCEPT ![j][f] = b]
        BY <1>7 DEF Fallback
      <4> QED
        BY <4>1, <4>2
    <3>3. UNCHANGED <<loader, pending, flush, job, ask, spawned, text, meta>>
      BY <1>7 DEF Fallback, Step, requests, runs
    <3> HIDE DEF TaskState
    <3> QED
      BY <1>0, <3>1, <3>2, <3>3 DEF Types
  <2>3. Elsewhere(j, f, b)
    BY <1>0, <1>7, StoreElsewhere DEF Fallback
  <2>4. TaskTells(j, f, b)'
    BY <1>0, <1>7 DEF Fallback, requests, runs, Step, Types, TaskTells
  <2>5. PrimaryTells(j, f)'
    BY <1>0, <1>7 DEF Fallback, requests, runs, Step, Types, TaskTells, PrimaryTells
  <2> QED
    BY <2>1, <2>2, <2>3, <2>4, <2>5, LocalStep DEF SInv
<1>8. CASE StoreError(j, f, b)
  <2>1. OneRequest'
    BY <1>8, StepKeepsRequests DEF StoreError
  <2>2. Types'
    <3>1. task' \in [Jobs -> [Fields -> [Backends -> TaskState]]]
      BY <1>8, StepKeepsRequests DEF StoreError
    <3>2. meta' \in [Jobs -> [Fields -> {"none", "ok", "error"}]]
      <4>1. meta \in [Jobs -> [Fields -> {"none", "ok", "error"}]]
        BY <1>0 DEF Types
      <4>2. meta' = meta \/ meta' = [meta EXCEPT ![j][f] = "error"]
        BY <1>8 DEF StoreError, SetMeta
      <4> QED
        BY <4>1, <4>2
    <3>3. UNCHANGED <<loader, pending, flush, job, ask, spawned, text, column>>
      BY <1>8 DEF StoreError, Step, requests, runs
    <3> HIDE DEF TaskState
    <3> QED
      BY <1>0, <3>1, <3>2, <3>3 DEF Types
  <2>3. Elsewhere(j, f, b)
    BY <1>0, <1>8, StoreElsewhere DEF StoreError, SetMeta
  <2>4. TaskTells(j, f, b)'
    BY <1>0, <1>8 DEF StoreError, SetMeta, requests, runs, Step, Types, TaskTells
  <2>5. PrimaryTells(j, f)'
    BY <1>0, <1>8 DEF StoreError, SetMeta, requests, runs, Step, Types, TaskTells, PrimaryTells
  <2> QED
    BY <2>1, <2>2, <2>3, <2>4, <2>5, LocalStep DEF SInv
<1> QED
  BY <1>1, <1>2, <1>3, <1>4, <1>5, <1>6, <1>7, <1>8 DEF Summarise

\* Spawning the tasks of a stage that has none.
LEMMA SpawnStep ==
  ASSUME SInv, NEW j \in Jobs, NEW s \in Stage, Fresh(j, s), SpawnAll(j, s),
         UNCHANGED db
  PROVE  /\ Stored'
         /\ task' \in [Jobs -> [Fields -> [Backends -> TaskState]]]
         /\ spawned' \in [Jobs -> [Fields -> [Backends -> Nat]]]
         /\ \A k \in Jobs, t \in Stage :
              <<k, t>> # <<j, s>> /\ Fresh(k, t) => Fresh(k, t)'
<1> USE SummariesAssumption, StageFields DEF SInv, Types, SpawnAll, db
<1>1. /\ task' \in [Jobs -> [Fields -> [Backends -> TaskState]]]
      /\ spawned' \in [Jobs -> [Fields -> [Backends -> Nat]]]
  BY DEF TaskState
<1>2. \A k \in Jobs, f \in Fields, b \in Backends :
        IF k = j /\ f \in FieldsOf(s)
          THEN task[k][f][b] = "none" /\ spawned[k][f][b] = 0
               /\ task'[k][f][b] = "read" /\ spawned'[k][f][b] = 1
          ELSE task'[k][f][b] = task[k][f][b] /\ spawned'[k][f][b] = spawned[k][f][b]
  BY DEF Fresh
<1>3. ASSUME NEW k \in Jobs, NEW f \in Fields, NEW b \in Backends PROVE TaskTells(k, f, b)'
  <2>1. TaskTells(k, f, b)
    BY DEF Stored
  <2> QED
    BY <1>2, <2>1 DEF TaskTells
<1>4. ASSUME NEW k \in Jobs, NEW f \in Fields PROVE PrimaryTells(k, f)'
  <2>1. PrimaryTells(k, f)
    BY DEF Stored
  <2> QED
    BY <1>2, <2>1 DEF PrimaryTells
<1>5. ASSUME NEW k \in Jobs, NEW t \in Stage, <<k, t>> # <<j, s>>, Fresh(k, t)
      PROVE  Fresh(k, t)'
  <2>1. k = j => FieldsOf(t) \cap FieldsOf(s) = {}
    BY <1>5 DEF Stage, FieldsOf
  <2> QED
    BY <1>2, <1>5, <2>1 DEF Fresh, FieldsOf
<1> QED
  BY <1>1, <1>3, <1>4, <1>5 DEF Stored

\* Everything else: the loader, run_job, the coordinator, clients, the sweep.
LEMMA SpawnedElsewhere ==
  ASSUME SInv, UNCHANGED <<tasks, db>>
  PROVE  /\ Stored'
         /\ \A k \in Jobs, t \in Stage : Fresh(k, t)' <=> Fresh(k, t)
  BY DEF SInv, Stored, TaskTells, PrimaryTells, Fresh, tasks, db

\* AskLoaded: a stage that was not asked for has no tasks.
LEMMA AskLoadedStep ==
  ASSUME SInv, NEW j \in Jobs, AskLoaded(j)
  PROVE  SInv'
<1> DEFINE s == StageAt(j)
<1>1. s \in Stage /\ ~Asked(j, s) /\ Fresh(j, s)
  BY DEF SInv, OneRequest, AskLoaded, StageAt, Stage, Asked
<1>2. PICK t \in Stage : t = s
  BY <1>1
<1>3. SpawnAll(j, t) /\ UNCHANGED <<requests, db>>
  BY <1>2 DEF AskLoaded
<1>4. /\ Stored'
      /\ task' \in [Jobs -> [Fields -> [Backends -> TaskState]]]
      /\ spawned' \in [Jobs -> [Fields -> [Backends -> Nat]]]
      /\ \A k \in Jobs, u \in Stage :
           <<k, u>> # <<j, t>> /\ Fresh(k, u) => Fresh(k, u)'
  BY <1>1, <1>2, <1>3, SpawnStep
<1>5. job' = [job EXCEPT ![j] = AfterAsk[@]] /\ job[j] \in {"begun", "finished"}
  BY DEF AskLoaded
<1>6. /\ job[j] = "begun" => t = "start" /\ job'[j] = "running"
      /\ job[j] = "finished" => t = "end" /\ job'[j] = "ended"
  BY <1>2, <1>5 DEF StageAt, AfterAsk, SInv, Types
<1>7. \A k \in Jobs, u \in Stage :
        /\ Asked(k, u) => Asked(k, u)'
        /\ ~Asked(k, u)' => <<k, u>> # <<j, t>> /\ ~Asked(k, u)
  BY <1>5, <1>6 DEF Asked, Stage, SInv, Types
<1>8. Types'
  <2>1. job' \in [Jobs -> {"begun", "running", "finished", "ended", "failing", "failed"}]
    BY <1>5, <1>6 DEF SInv, Types
  <2>2. ask' \in [Jobs -> {"none", "missed", "queued", "spawned"}]
    BY DEF SInv, Types, AskLoaded
  <2>3. UNCHANGED <<loader, pending, flush, text, column, meta>>
    BY <1>3 DEF requests, db, SpawnAll
  <2> QED
    BY <1>4, <2>1, <2>2, <2>3 DEF SInv, Types
<1>9. ~In(pending, <<j, t>>) /\ ~In(flush, <<j, t>>)
  BY <1>1, <1>2 DEF SInv, OneRequest
<1>10. UNCHANGED <<loader, pending, flush>>
  BY <1>3 DEF requests
<1>11. OneRequest'
  <2>1. ASSUME NEW k \in Jobs, ask'[k] = "missed" PROVE job'[k] \in {"begun", "finished"}
    BY <2>1, <1>5 DEF AskLoaded, SInv, OneRequest, Types
  <2> QED
    BY <1>4, <1>7, <1>9, <1>10, <2>1 DEF SInv, OneRequest, In, Distinct
<1> QED
  BY <1>4, <1>8, <1>11 DEF SInv

\* LoaderFlushes: a request in the queue has no tasks yet.
LEMMA LoaderFlushesStep ==
  ASSUME SInv, LoaderFlushes
  PROVE  SInv'
<1> USE DEF SInv, Types
<1>1. flush # <<>> /\ Head(flush) \in Jobs \X Stage /\ Head(flush) = flush[1]
      /\ 1 \in DOMAIN flush
  BY DEF LoaderFlushes
<1>2. PICK j \in Jobs, s \in Stage : Head(flush) = <<j, s>>
  BY <1>1
<1>3. Fresh(j, s) /\ Asked(j, s) /\ ~In(pending, <<j, s>>)
  BY <1>1, <1>2 DEF OneRequest, In
<1>4. SpawnAll(j, s) /\ UNCHANGED <<loader, pending, runs, db>> /\ flush' = Tail(flush)
      /\ loader = "flush"
  BY <1>2 DEF LoaderFlushes
<1>5. /\ Stored'
      /\ task' \in [Jobs -> [Fields -> [Backends -> TaskState]]]
      /\ spawned' \in [Jobs -> [Fields -> [Backends -> Nat]]]
      /\ \A k \in Jobs, u \in Stage :
           <<k, u>> # <<j, s>> /\ Fresh(k, u) => Fresh(k, u)'
  BY <1>3, <1>4, SpawnStep
<1>6. /\ flush' \in Seq(Jobs \X Stage)
      /\ \A i \in DOMAIN flush' : i + 1 \in DOMAIN flush /\ flush'[i] = flush[i + 1]
  BY <1>1, <1>4
<1>7. Distinct(flush') /\ ~In(flush', <<j, s>>) /\ \A x : In(flush', x) => In(flush, x)
  <2>1. \A i \in DOMAIN flush' : i \in Nat \ {0} /\ i + 1 # 1
    BY <1>6
  <2>2. Distinct(flush')
    BY <1>6, <2>1 DEF OneRequest, Distinct
  <2>3. ~In(flush', <<j, s>>)
    <3> SUFFICES ASSUME In(flush', <<j, s>>) PROVE FALSE
      OBVIOUS
    <3>1. PICK i \in DOMAIN flush' : flush'[i] = <<j, s>>
      BY DEF In
    <3>2. flush[i + 1] = flush[1] /\ i + 1 \in DOMAIN flush
      BY <1>1, <1>2, <1>6, <3>1
    <3> QED
      BY <1>1, <2>1, <3>2 DEF OneRequest, Distinct
  <2>4. \A x : In(flush', x) => In(flush, x)
    BY <1>6 DEF In
  <2> QED
    BY <2>2, <2>3, <2>4
<1>8. Types'
  BY <1>4, <1>5, <1>6 DEF runs, db, SpawnAll
<1>9. OneRequest'
  BY <1>3, <1>4, <1>5, <1>7 DEF OneRequest, runs, In, Distinct, Asked
<1> QED
  BY <1>5, <1>8, <1>9

\* AskQueues: the request enters the queue as the stage is asked for.
LEMMA AskQueuesStep ==
  ASSUME SInv, NEW j \in Jobs, AskQueues(j)
  PROVE  SInv'
<1> USE DEF SInv, Types
<1>1. job[j] \in {"begun", "finished"}
  BY DEF AskQueues, OneRequest
<1>2. PICK s \in Stage : s = StageAt(j)
  BY DEF StageAt, Stage
<1>3. ~Asked(j, s) /\ Fresh(j, s)
  BY <1>1, <1>2 DEF OneRequest, StageAt, Asked
<1>4. ~In(pending, <<j, s>>) /\ ~In(flush, <<j, s>>)
  BY <1>3 DEF OneRequest
<1>5. /\ pending' = Append(pending, <<j, s>>)
      /\ job' = [job EXCEPT ![j] = AfterAsk[@]]
      /\ ask' = [ask EXCEPT ![j] = "queued"]
      /\ UNCHANGED <<loader, flush, task, text, spawned, db>>
  BY <1>2 DEF AskQueues
<1>6. /\ job[j] = "begun" => s = "start" /\ job'[j] = "running"
      /\ job[j] = "finished" => s = "end" /\ job'[j] = "ended"
  BY <1>1, <1>2, <1>5 DEF StageAt, AfterAsk
<1>7. \A k \in Jobs, u \in Stage :
        /\ Asked(k, u) => Asked(k, u)'
        /\ Asked(j, s)'
        /\ ~Asked(k, u)' => ~Asked(k, u)
  BY <1>1, <1>5, <1>6 DEF Asked, Stage
<1>8. /\ pending' \in Seq(Jobs \X Stage)
      /\ Distinct(pending')
      /\ \A x : In(pending', x) => In(pending, x) \/ x = <<j, s>>
  <2>1. DOMAIN pending' = 1..(Len(pending) + 1) /\ pending' \in Seq(Jobs \X Stage)
    BY <1>5
  <2>2. \A i \in DOMAIN pending' :
          IF i = Len(pending) + 1 THEN pending'[i] = <<j, s>>
          ELSE i \in DOMAIN pending /\ pending'[i] = pending[i]
    BY <1>5
  <2>3. Distinct(pending) /\ \A i \in DOMAIN pending : pending[i] # <<j, s>>
    BY <1>4 DEF OneRequest, In
  <2>4. Distinct(pending')
    BY <2>1, <2>2, <2>3 DEF Distinct
  <2>5. \A x : In(pending', x) => In(pending, x) \/ x = <<j, s>>
    BY <2>1, <2>2 DEF In
  <2> QED
    BY <2>1, <2>4, <2>5
<1>9. Stored' /\ \A k \in Jobs, u \in Stage : Fresh(k, u)' <=> Fresh(k, u)
  BY <1>5 DEF Stored, TaskTells, PrimaryTells, Fresh, db
<1>10. Types'
  BY <1>1, <1>5, <1>6, <1>8 DEF db
<1>11. OneRequest'
  <2>1. ASSUME NEW k \in Jobs, ask'[k] = "missed" PROVE job'[k] \in {"begun", "finished"}
    BY <1>5, <2>1 DEF OneRequest
  <2>2. UNCHANGED <<loader, flush>>
    BY <1>5
  <2>3. \A k \in Jobs, u \in Stage : In(flush', <<k, u>>) <=> In(flush, <<k, u>>)
    BY <2>2 DEF In
  <2>4. /\ Distinct(flush) /\ (loader # "flush" => flush = <<>>)
        /\ \A k \in Jobs, u \in Stage :
             /\ In(pending, <<k, u>>) => ~In(flush, <<k, u>>)
             /\ In(pending, <<k, u>>) \/ In(flush, <<k, u>>) => Asked(k, u) /\ Fresh(k, u)
             /\ ~Asked(k, u) => Fresh(k, u)
    BY DEF OneRequest
  <2>5. \A k \in Jobs, u \in Stage :
          /\ In(pending', <<k, u>>) => ~In(flush', <<k, u>>)
          /\ In(pending', <<k, u>>) \/ In(flush', <<k, u>>) => Asked(k, u)' /\ Fresh(k, u)'
          /\ ~Asked(k, u)' => Fresh(k, u)'
    <3> HIDE DEF SInv, Types
    <3> QED
      BY <1>3, <1>4, <1>7, <1>8, <1>9, <2>3, <2>4
  <2> QED
    BY <1>8, <2>1, <2>2, <2>4, <2>5 DEF OneRequest
<1> QED
  BY <1>9, <1>10, <1>11

LEMMA LoaderDrainsStep ==
  ASSUME SInv, LoaderDrains
  PROVE  SInv'
<1>1. UNCHANGED <<runs, tasks, db>> /\ loader = "set" /\ loader' = "flush"
      /\ flush' = pending /\ pending' = <<>> /\ flush = <<>>
  BY DEF LoaderDrains, SInv, OneRequest
<1>2. Stored' /\ \A k \in Jobs, t \in Stage : Fresh(k, t)' <=> Fresh(k, t)
  BY <1>1, SpawnedElsewhere
<1>3. Types'
  BY <1>1 DEF SInv, Types, runs, tasks, db
<1>4. OneRequest'
  BY <1>1, <1>2 DEF SInv, OneRequest, In, Distinct, Asked, runs
<1> QED
  BY <1>2, <1>3, <1>4 DEF SInv

\* Steps that touch neither a queue nor a task.
LEMMA QuietStep ==
  ASSUME SInv, UNCHANGED <<pending, flush, tasks, db>>,
         \/ UNCHANGED <<job, ask>> /\ (UNCHANGED loader \/ LoaderSets \/ LoaderFails)
         \/ UNCHANGED loader /\ \E j \in Jobs :
              AskMisses(j) \/ Finish(j) \/ Fail(j) \/ FailCloses(j)
  PROVE  SInv'
<1>1. Stored' /\ \A k \in Jobs, t \in Stage : Fresh(k, t)' <=> Fresh(k, t)
  BY SpawnedElsewhere
<1>2. /\ job' \in [Jobs -> {"begun", "running", "finished", "ended", "failing", "failed"}]
      /\ ask' \in [Jobs -> {"none", "missed", "queued", "spawned"}]
      /\ \A k \in Jobs : ask'[k] = "missed" => job'[k] \in {"begun", "finished"}
  BY DEF SInv, Types, OneRequest, AskMisses, Finish, Fail, FailCloses
<1>3. \A k \in Jobs, t \in Stage :
        (Asked(k, t) => Asked(k, t)') /\ (~Asked(k, t)' => ~Asked(k, t))
  BY DEF SInv, Types, Asked, Stage, AskMisses, Finish, Fail, FailCloses
<1>4. loader' \in {"loading", "set", "flush", "failed"} /\ (loader' # "flush" => loader # "flush")
  BY DEF SInv, Types, LoaderSets, LoaderFails
<1>5. Types'
  BY <1>2, <1>4 DEF SInv, Types, tasks, db
<1>6. OneRequest'
  BY <1>1, <1>2, <1>3, <1>4 DEF SInv, OneRequest, In, Distinct
<1> QED
  BY <1>1, <1>5, <1>6 DEF SInv

LEMMA StepSInv == SInv /\ [Next]_vars => SInv'
<1> SUFFICES ASSUME SInv, [Next]_vars PROVE SInv'
  OBVIOUS
<1>1. CASE UNCHANGED vars
  BY <1>1, QuietStep DEF vars, requests, runs
<1>2. CASE Loader
  BY <1>2, LoaderDrainsStep, LoaderFlushesStep DEF Loader
<1>3. CASE LoaderSets \/ LoaderFails
  BY <1>3, QuietStep DEF LoaderSets, LoaderFails, runs
<1>4. ASSUME NEW j \in Jobs, RunJob(j) PROVE SInv'
  <2>1. CASE AskLoaded(j)
    BY <2>1, AskLoadedStep
  <2>2. CASE AskQueues(j)
    BY <2>2, AskQueuesStep
  <2>3. CASE AskMisses(j) \/ FailCloses(j)
    BY <2>3, QuietStep DEF AskMisses, FailCloses, requests
  <2> QED
    BY <1>4, <2>1, <2>2, <2>3 DEF RunJob
<1>5. ASSUME NEW j \in Jobs, Finish(j) \/ Fail(j) PROVE SInv'
  BY <1>5, QuietStep DEF Finish, Fail, requests
<1>6. ASSUME NEW j \in Jobs, Reap(j) PROVE SInv'
  BY <1>6, QuietStep DEF Reap, requests
<1>7. ASSUME NEW j \in Jobs, Coordinator(j) PROVE SInv'
  <2>1. UNCHANGED <<loader, pending, flush, job, ask, task, text, spawned, db>>
    BY <1>7 DEF Coordinator, TellDone, Close, requests, runs
  <2>2. Stored' /\ \A k \in Jobs, t \in Stage : Fresh(k, t)' <=> Fresh(k, t)
    BY <2>1 DEF SInv, Stored, TaskTells, PrimaryTells, Fresh, db
  <2>3. Types'
    BY <2>1 DEF SInv, Types, db
  <2>4. OneRequest'
    BY <2>1, <2>2 DEF SInv, OneRequest, In, Distinct, Asked
  <2> QED
    BY <2>2, <2>3, <2>4 DEF SInv
<1>8. ASSUME NEW j \in Jobs, NEW f \in Fields, NEW b \in Backends, Summarise(j, f, b)
      PROVE  SInv'
  BY <1>8, SummariseStep
<1>9. CASE AllOver
  BY <1>1, <1>9 DEF AllOver
<1> QED
  BY <1>1, <1>2, <1>3, <1>4, <1>5, <1>6, <1>7, <1>8, <1>9 DEF Next

------------------------------------------------------------------------------
\* The inductive invariant: requests, tasks and rows never disagree about how
\* far a field is.
THEOREM SInvariance == Spec => []SInv
  BY InitSInv, StepSInv, PTL DEF Spec

\* The primary's text is what the page shows, whatever the other backends do
\* and in whatever order they answer (spawn_one, set_summary_fallback).
THEOREM PrimaryWinsHolds == Spec => []PrimaryWins
<1>1. SInv => PrimaryWins
  BY DEF SInv, Stored, PrimaryTells, PrimaryWins
<1> QED
  BY <1>1, SInvariance, PTL

\* A text that some backend produced is kept and shown, with database writes
\* that succeed ("Never-blank fallback").
THEOREM NeverBlankHolds == Spec => []NeverBlank
<1>1. SInv => NeverBlank
  BY DEF SInv, Stored, TaskTells, NeverBlank
<1> QED
  BY <1>1, SInvariance, PTL

\* summary_meta tells how the primary's attempt ended, although all fields share
\* one JSON column.
THEOREM MetaTellsHolds == Spec => []MetaTells
<1>1. SInv => MetaTells
  <2> SUFFICES ASSUME SInv, NEW j \in Jobs, NEW f \in Fields \ Flaky,
                      task[j][f][Primary] \in {"none", "over"}
               PROVE  meta[j][f] = CASE text[j][f][Primary] = "some" -> "ok"
                                     [] text[j][f][Primary] = "failed" -> "error"
                                     [] text[j][f][Primary] = "none" -> "none"
    BY DEF MetaTells
  <2>1. PrimaryTells(j, f) /\ TaskTells(j, f, Primary)
    BY SummariesAssumption DEF SInv, Stored
  <2>2. text[j][f][Primary] \in {"none", "some", "failed"}
    BY SummariesAssumption DEF SInv, Types
  <2>3. CASE text[j][f][Primary] = "some"
    BY <2>1, <2>3 DEF PrimaryTells, TaskTells
  <2>4. CASE text[j][f][Primary] = "failed"
    BY <2>1, <2>4 DEF PrimaryTells, TaskTells
  <2>5. CASE text[j][f][Primary] = "none"
    BY <2>1, <2>5 DEF PrimaryTells, TaskTells
  <2> QED
    BY <2>2, <2>3, <2>4, <2>5
<1> QED
  BY <1>1, SInvariance, PTL

\* No field is generated twice by the same backend, although a request may race
\* with the load and be taken by either side of it.
THEOREM SummarisedOnceHolds == Spec => []SummarisedOnce
<1>1. SInv => SummarisedOnce
  <2> SUFFICES ASSUME SInv, NEW j \in Jobs, NEW f \in Fields, NEW b \in Backends
               PROVE  spawned[j][f][b] <= 1
    BY DEF SummarisedOnce
  <2>1. spawned[j][f][b] = IF task[j][f][b] = "none" THEN 0 ELSE 1
    BY DEF SInv, Stored, TaskTells
  <2> QED
    BY <2>1
<1> QED
  BY <1>1, SInvariance, PTL
==============================================================================
