----------------------------- MODULE JobPage_proofs -----------------------------
(***************************************************************************)
(* For any job, any capacity and any loss: an ended job's feed is quiet,   *)
(* and a page whose requests are answered shows what it was told.  Its     *)
(* samples come in order, its scaffold log is whole once it heard of the   *)
(* end, and when it closes its stream it has heard of the last summary.    *)
(***************************************************************************)
EXTENDS JobPage, TLAPS

Rows == [status : {"null", "queued", "running", "done", "failed"},
         phase : Nat, cols : SUBSET Summary]

Announcements ==
  {Done} \cup [kind : {"phase"}, phase : Nat] \cup [kind : {"summary"}, field : Summary]

Messages ==
  Announcements \cup {[kind |-> "summaries_done"]}
    \cup [kind : {"metric"}, ts : Nat] \cup [kind : {"scaffold_log"}, line : Pipes]
    \cup [kind : {"summary_error"}, field : Summary]

AtEnd == {"tell_done", "coordinate", "close", "over", "tell_failed"}
Place == {"queued", "stage", "tell_stage", "agent", "join_stage", "build", "stream",
          "tell_phase", "join_run", "error"} \cup AtEnd

\* The types the proofs need.
Types ==
  /\ at \in Place
  /\ status \in {"queued", "running", "done", "failed"} /\ phase \in Nat /\ cols \subseteq Summary
  /\ sampler \in [Stages -> {"off", "idle", "recorded", "over"}]
  /\ tee \in [Pipes -> {"off", "reading", "wrote", "over"}]
  /\ task \in [Summary -> {"off", "asked", "stored", "over"}]
  /\ clock \in Nat
  /\ taken \in [Stages -> Nat]

------------------------------------------------------------------------------
(* The feed by itself.                                                     *)

\* Outside its stage nothing of the agent is left ...
StageQuiet ==
  at \notin {"agent", "join_stage"} /\ "scaffold" \notin broken =>
    /\ sampler["scaffold"] \in {"off", "over"}
    /\ \A p \in Pipes : tee[p] \in {"off", "over"}

\* ... unless run_job left in the middle of it, and the job has failed for good ...
StageLeft ==
  "scaffold" \in broken => at \in {"error", "tell_failed", "close", "over"} /\ saved = {}

\* ... with its whole log saved once it is over, and none before ...
SavedWhole ==
  /\ at \in {"queued", "stage", "tell_stage", "agent", "join_stage"} => saved = {}
  /\ saved \subseteq {file}

\* ... and the run's sampler works during the run only, unless run_job broke off.
RunQuiet ==
  at \notin {"stream", "tell_phase", "join_run"} /\ "run" \notin broken =>
    sampler["run"] \in {"off", "over"}

\* The row says so at the end, and a text's announcement is due once it is stored.
RowAtEnd ==
  /\ at \in AtEnd <=> Ended
  /\ \A f \in Summary : task[f] = "stored" => f \in cols

FeedInv == Types /\ StageQuiet /\ StageLeft /\ SavedWhole /\ RunQuiet /\ RowAtEnd

LEMMA InitFeedInv == FeedInit => FeedInv
  BY FeedAssumption DEF FeedInit, FeedInv, Types, StageQuiet, StageLeft, SavedWhole, RunQuiet, RowAtEnd,
     Rows, Place, AtEnd, Ended, Stages, Pipes, Summary, columns, row

LEMMA StepFeedInv == FeedInv /\ [FeedNext]_feedVars => FeedInv'
<1> SUFFICES ASSUME FeedInv, [FeedNext]_feedVars PROVE FeedInv'
  OBVIOUS
<1> USE DEF columns, row, FeedInv, Types, StageQuiet, StageLeft, SavedWhole, RunQuiet, RowAtEnd,
     Place, AtEnd, Ended, Stages, Pipes, Summary, channel, log, sampling
<1>1. CASE UNCHANGED feedVars
  BY <1>1 DEF feedVars
<1>2. CASE Start
  BY <1>2 DEF Start
<1>3. CASE StagePhase
  BY <1>3 DEF StagePhase
<1>4. CASE StageStarts
  BY <1>4 DEF StageStarts
<1>5. CASE AgentExits \/ StageBreaks
  BY <1>5 DEF AgentExits, StageBreaks
<1>6. CASE StageEnds
  BY <1>6 DEF StageEnds
<1>7. CASE RunStarts
  BY <1>7 DEF RunStarts, Ask
<1>8. CASE PhaseLine
  BY <1>8 DEF PhaseLine
<1>9. CASE TellPhase
  BY <1>9 DEF TellPhase
<1>10. CASE StreamBreaks
  BY <1>10 DEF StreamBreaks
<1>11. CASE ChildExits
  BY <1>11 DEF ChildExits
<1>12. CASE Finish
  BY <1>12 DEF Finish
<1>13. CASE TellDone
  BY <1>13 DEF TellDone, Ask
<1>14. CASE Coordinate
  BY <1>14 DEF Coordinate
<1>15. CASE Fail
  BY <1>15 DEF Fail
<1>16. CASE TellFailed
  BY <1>16 DEF TellFailed
<1>17. CASE Close
  BY <1>17 DEF Close
<1>18. ASSUME NEW p \in Pipes, Tee(p) PROVE FeedInv'
  <2>1. CASE Line(p)
    BY <2>1 DEF Line
  <2>2. CASE TellLine(p)
    BY <2>2 DEF TellLine
  <2>3. CASE PipeEnds(p)
    BY <2>3 DEF PipeEnds
  <2>4. QED
    BY <1>18, <2>1, <2>2, <2>3 DEF Tee
<1>19. ASSUME NEW s \in Stages, Sampler(s) PROVE FeedInv'
  <2>1. CASE Sample(s)
    <3>0. clock' \in Nat
      BY <2>1 DEF Sample
    <3>1. Types'
      BY <2>1, <3>0 DEF Sample
    <3>2. StageQuiet' /\ StageLeft' /\ RunQuiet'
      BY <2>1 DEF Sample
    <3>3. SavedWhole' /\ RowAtEnd'
      BY <2>1 DEF Sample
    <3>4. QED
      BY <3>1, <3>2, <3>3
  <2>2. CASE TellSample(s)
    BY <2>2 DEF TellSample
  <2>3. CASE SamplerEnds(s)
    BY <2>3 DEF SamplerEnds
  <2>4. QED
    BY <1>19, <2>1, <2>2, <2>3 DEF Sampler
<1>20. ASSUME NEW f \in Summary, Summarizer(f) PROVE FeedInv'
  <2>1. CASE Summarise(f)
    BY <2>1 DEF Summarise
  <2>2. CASE TellSummary(f)
    BY <2>2 DEF TellSummary
  <2>3. CASE SummaryFails(f)
    BY <2>3 DEF SummaryFails
  <2>4. QED
    BY <1>20, <2>1, <2>2, <2>3 DEF Summarizer
<1>21. QED
  BY <1>1, <1>2, <1>3, <1>4, <1>5, <1>6, <1>7, <1>8, <1>9, <1>10, <1>11, <1>12, <1>13,
     <1>14, <1>15, <1>16, <1>17, <1>18, <1>19, <1>20 DEF FeedNext, RunJob

LEMMA FeedInvQuiet == FeedInv => FeedQuiet
  BY DEF FeedInv, FeedQuiet, StageQuiet, StageLeft, SavedWhole, RunQuiet, RowAtEnd, AtEnd, Stages

------------------------------------------------------------------------------
(* Announcements come after what they tell of.                             *)

LEMMA ShowsMonotone ==
  ASSUME NEW q \in Rows, NEW r \in Rows, NEW m \in Announcements,
         NoOlder(r, q), Shows(q, m)
  PROVE  Shows(r, m)
  BY DEF Rows, Announcements, NoOlder, Shows, Terminal, Done, Summary

\* Rows only advance.
LEMMA RowAdvances ==
  ASSUME FeedInv, [FeedNext]_feedVars PROVE row' \in Rows /\ NoOlder(row', row)
<1> DEFINE Writes == /\ status' \in {"running", "done", "failed"} /\ ~Ended
                     /\ phase' = phase /\ cols' = cols
           Marks == status' = status /\ phase' = phase + 1 /\ cols' = cols
           Stores == status' = status /\ phase' = phase /\ cols \subseteq cols' /\ cols' \subseteq Summary
<1> USE DEF columns, row
<1>1. CASE Start \/ Finish \/ Fail
  <2>1. Writes
    BY <1>1 DEF Start, Finish, Fail, FeedInv, RowAtEnd, AtEnd
  <2>2. QED
    BY <2>1 DEF FeedInv, Types, Rows, NoOlder, Terminal, Ended
<1>2. CASE StagePhase \/ PhaseLine
  <2>1. Marks
    BY <1>2 DEF StagePhase, PhaseLine
  <2>2. QED
    BY <2>1 DEF FeedInv, Types, Rows, NoOlder, Terminal
<1>3. ASSUME NEW f \in Summary, Summarise(f) PROVE row' \in Rows /\ NoOlder(row', row)
  <2>1. Stores
    BY <1>3 DEF Summarise, FeedInv, Types
  <2>2. QED
    BY <2>1 DEF FeedInv, Types, Rows, NoOlder, Terminal
<1>4. CASE row' = row
  BY <1>4 DEF FeedInv, Types, Rows, NoOlder, Terminal
<1>5. QED
  BY <1>1, <1>2, <1>3, <1>4 DEF FeedNext, RunJob, feedVars, StageStarts, AgentExits, StageBreaks, StageEnds,
     RunStarts, TellPhase, StreamBreaks, ChildExits, TellDone, Coordinate, TellFailed, Close,
     Tee, Line, TellLine, PipeEnds, Sampler, Sample, TellSample, SamplerEnds, Summarizer,
     TellSummary, SummaryFails

\* The messages a row bears out.
Truths(r) == {m \in Messages : Announces(m) => m \in Announcements /\ Shows(r, m)}

LEMMA PublishKeeps ==
  ASSUME NEW S, inbox \in Seq(S), NEW m \in S, publish(m) PROVE inbox' \in Seq(S)
  BY FeedAssumption DEF publish, Room

LEMMA TruthsGrow ==
  ASSUME NEW q \in Rows, NEW r \in Rows, NoOlder(r, q) PROVE Truths(q) \subseteq Truths(r)
  BY ShowsMonotone DEF Truths

LEMMA SeqGrows ==
  ASSUME NEW S, NEW T, S \subseteq T, NEW s \in Seq(S) PROVE s \in Seq(T)
  OBVIOUS

LEMMA InboxStaysTrue ==
  ASSUME FeedInv, [FeedNext]_feedVars, inbox \in Seq(Truths(row))
  PROVE  inbox' \in Seq(Truths(row'))
<1> DEFINE P(m) == publish(m) /\ row' = row
<1>0. UNCHANGED columns => row' = row
  BY DEF columns, row
<1>1. row \in Rows
  BY DEF FeedInv, Types, Rows, columns, row
<1>2. CASE inbox' = inbox
  <2>1. Truths(row) \subseteq Truths(row')
    BY <1>1, RowAdvances, TruthsGrow
  <2>2. QED
    BY <1>2, <2>1, SeqGrows
<1>3. ASSUME NEW m \in Truths(row), P(m) PROVE inbox' \in Seq(Truths(row'))
  BY <1>3, PublishKeeps
<1>4. CASE StageStarts \/ TellPhase
  <2>1. PICK k \in Nat : P([kind |-> "phase", phase |-> k]) /\ k = phase
    BY <1>0, <1>4 DEF StageStarts, TellPhase, FeedInv, Types
  <2>2. [kind |-> "phase", phase |-> k] \in Truths(row)
    BY <2>1 DEF Truths, Messages, Announcements, Announces, Shows, columns, row, FeedInv, Types
  <2>3. QED
    BY <2>1, <2>2, <1>3
<1>5. CASE TellDone \/ TellFailed
  <2>1. P(Done)
    BY <1>0, <1>5 DEF TellDone, TellFailed
  <2>2. Done \in Truths(row)
    BY <1>5 DEF TellDone, TellFailed, Truths, Messages, Announcements, Announces, Shows, columns, row,
       FeedInv, RowAtEnd, AtEnd, Ended, Terminal, Done
  <2>3. QED
    BY <2>1, <2>2, <1>3
<1>6. CASE Coordinate
  <2>1. P([kind |-> "summaries_done"])
    BY <1>0, <1>6 DEF Coordinate
  <2>2. [kind |-> "summaries_done"] \in Truths(row)
    BY DEF Truths, Messages, Announces
  <2>3. QED
    BY <2>1, <2>2, <1>3
<1>7. ASSUME NEW p \in Pipes, TellLine(p) PROVE inbox' \in Seq(Truths(row'))
  <2>1. P([kind |-> "scaffold_log", line |-> p])
    BY <1>0, <1>7 DEF TellLine
  <2>2. [kind |-> "scaffold_log", line |-> p] \in Truths(row)
    BY DEF Truths, Messages, Announces
  <2>3. QED
    BY <2>1, <2>2, <1>3
<1>8. ASSUME NEW s \in Stages, TellSample(s) PROVE inbox' \in Seq(Truths(row'))
  <2>1. P([kind |-> "metric", ts |-> taken[s]])
    BY <1>0, <1>8 DEF TellSample
  <2>2. [kind |-> "metric", ts |-> taken[s]] \in Truths(row)
    BY DEF Truths, Messages, Announces, FeedInv, Types
  <2>3. QED
    BY <2>1, <2>2, <1>3
<1>9. ASSUME NEW f \in Summary, TellSummary(f) PROVE inbox' \in Seq(Truths(row'))
  <2>1. P([kind |-> "summary", field |-> f])
    BY <1>0, <1>9 DEF TellSummary
  <2>2. [kind |-> "summary", field |-> f] \in Truths(row)
    BY <1>9 DEF TellSummary, Truths, Messages, Announcements, Announces, Shows, columns, row, FeedInv,
       RowAtEnd
  <2>3. QED
    BY <2>1, <2>2, <1>3
<1>10. ASSUME NEW f \in Summary, SummaryFails(f) PROVE inbox' \in Seq(Truths(row'))
  <2>1. P([kind |-> "summary_error", field |-> f])
    BY <1>0, <1>10 DEF SummaryFails
  <2>2. [kind |-> "summary_error", field |-> f] \in Truths(row)
    BY DEF Truths, Messages, Announces
  <2>3. QED
    BY <2>1, <2>2, <1>3
<1>11. QED
  BY <1>2, <1>4, <1>5, <1>6, <1>7, <1>8, <1>9, <1>10 DEF FeedNext, RunJob, feedVars, channel,
     Start, StagePhase, AgentExits, StageBreaks, StageEnds, RunStarts, PhaseLine, StreamBreaks, ChildExits,
     Finish, Fail, Close, close, Tee, Line, PipeEnds, Sampler, Sample, SamplerEnds, Summarizer,
     Summarise

------------------------------------------------------------------------------
(* The page.                                                               *)

PageTypes ==
  /\ shown \in Rows
  /\ rows \subseteq Rows
  /\ heard \subseteq Announcements
  /\ step \in {"open", "job"} => heard = {}

\* Each announcement heard is in the row shown or in an answer under way.
HeardTold ==
  "row" \notin overtaken =>
    \A m \in heard : Shows(shown, m) \/ \E r \in rows : Shows(r, m)

PageInv == FeedInv /\ inbox \in Seq(Truths(row)) /\ PageTypes /\ HeardTold

LEMMA InitPageInv == Init => PageInv
<1> SUFFICES ASSUME Init PROVE PageInv
  OBVIOUS
<1>1. FeedInv
  BY InitFeedInv DEF Init
<1>2. inbox \in Seq(Truths(row))
  BY DEF Init, FeedInit
<1>3. PageTypes /\ HeardTold
  BY DEF Init, PageTypes, HeardTold, NoJob, Rows
<1>4. QED
  BY <1>1, <1>2, <1>3 DEF PageInv

\* A step that leaves the feed's tasks alone leaves FeedInv alone.
LEMMA FeedInvKept ==
  ASSUME FeedInv, UNCHANGED <<at, columns, job, log, sampling, task, broken>> PROVE FeedInv'
  BY DEF FeedInv, Types, StageQuiet, StageLeft, SavedWhole, RunQuiet, RowAtEnd, Ended, columns, row, log, sampling

LEMMA StepPageInv == PageInv /\ [Next]_vars => PageInv'
<1> SUFFICES ASSUME PageInv, [Next]_vars PROVE PageInv'
  OBVIOUS
<1> USE DEF PageInv
<1>0. row \in Rows
  BY DEF FeedInv, Types, Rows, columns, row
<1>1. CASE UNCHANGED pageVars /\ [FeedNext]_feedVars
  <2>1. FeedInv'
    BY <1>1, StepFeedInv
  <2>2. inbox' \in Seq(Truths(row'))
    BY <1>1, InboxStaysTrue
  <2>3. PageTypes' /\ HeardTold'
    BY <1>1 DEF PageTypes, HeardTold, pageVars, fetches
  <2>4. QED
    BY <2>1, <2>2, <2>3
<1>2. ASSUME UNCHANGED <<at, columns, job, log, sampling, task, broken>>,
             inbox' \in Seq(Truths(row)), PageTypes', HeardTold'
      PROVE  PageInv'
  <2>1. row' = row
    BY <1>2 DEF columns, row
  <2>2. QED
    BY <1>2, <2>1, FeedInvKept
<1>3. CASE GetJob
  BY <1>0, <1>2, <1>3 DEF GetJob, PageTypes, HeardTold, feedVars, channel, fetches, columns, row
<1>4. CASE GetMetrics
  BY <1>2, <1>4 DEF GetMetrics, PageTypes, HeardTold, feedVars, channel, fetches, columns, row
<1>5. CASE Connect
  BY <1>2, <1>5 DEF Connect, PageTypes, HeardTold, fetches
<1>6. CASE Cut
  BY <1>2, <1>6 DEF Cut, PageTypes, HeardTold, pageVars, fetches
<1>7. CASE Read
  <2> DEFINE m == Head(inbox)
  <2>1. m \in Truths(row) /\ Tail(inbox) \in Seq(Truths(row))
    BY <1>7 DEF Read
  <2>2. inbox' \in Seq(Truths(row))
    <3>1. inbox' = <<>> \/ inbox' = Tail(inbox)
      BY <1>7 DEF Read
    <3>2. CASE inbox' = <<>>
      BY <3>2
    <3>3. CASE inbox' = Tail(inbox)
      BY <2>1, <3>3
    <3>4. QED
      BY <3>1, <3>2, <3>3
  <2>3. rows' = (IF Announces(m) THEN rows \cup {row} ELSE rows)
        /\ heard' = (IF Announces(m) THEN heard \cup {m} ELSE heard)
        /\ UNCHANGED <<shown, overtaken>> /\ step' \notin {"open", "job"}
    BY <1>7 DEF Read
  <2>4. PageTypes'
    BY <1>0, <2>1, <2>3 DEF PageTypes, Truths
  <2>5. HeardTold'
    BY <2>1, <2>3 DEF HeardTold, Truths
  <2>6. QED
    BY <1>2, <1>7, <2>2, <2>4, <2>5 DEF Read
<1>8. CASE ApplyJob
  <2>1. PICK r \in rows :
          /\ shown' = r /\ rows' = rows \ {r}
          /\ overtaken' = IF NoOlder(r, shown) THEN overtaken ELSE overtaken \cup {"row"}
    BY <1>8 DEF ApplyJob
  <2>2. UNCHANGED <<feedVars, step, heard>>
    BY <1>8 DEF ApplyJob
  <2>3. PageTypes'
    BY <2>1, <2>2 DEF PageTypes
  <2>4. ASSUME "row" \notin overtaken', NEW a \in heard'
        PROVE  Shows(shown', a) \/ \E q \in rows' : Shows(q, a)
    <3>1. NoOlder(r, shown) /\ "row" \notin overtaken /\ a \in heard
      BY <2>1, <2>2, <2>4
    <3>2. CASE Shows(shown, a)
      BY <2>1, <3>1, <3>2, ShowsMonotone DEF PageTypes
    <3>3. CASE \E q \in rows : Shows(q, a)
      BY <2>1, <3>3
    <3>4. QED
      BY <3>1, <3>2, <3>3 DEF HeardTold
  <2>5. QED
    BY <1>2, <2>2, <2>3, <2>4 DEF HeardTold, feedVars, channel, columns, row
<1>9. CASE ApplyLog
  <2>1. UNCHANGED <<feedVars, step, shown, rows, heard>>
        /\ ("row" \in overtaken' <=> "row" \in overtaken)
    BY <1>9 DEF ApplyLog
  <2>2. QED
    BY <1>2, <2>1 DEF PageTypes, HeardTold, feedVars, channel, columns, row
<1>10. CASE Open
  BY <1>2, <1>10 DEF Open, PageTypes, HeardTold, feedVars, channel, columns, row
<1>11. QED
  BY <1>1, <1>3, <1>4, <1>5, <1>6, <1>7, <1>8, <1>9, <1>10 DEF Next, Page, Answers, FeedStep, vars

------------------------------------------------------------------------------

LEMMA AlwaysPageInv == Spec => []PageInv
  BY InitPageInv, StepPageInv, PTL DEF Spec

\* Nothing samples an ended job, writes its scaffold log or adds to it after it was
\* saved, whatever the job has to say - unless run_job left in the middle of that
\* stage, where it stops no sampler and waits for no tee.
THEOREM FeedIsQuiet == Spec => []FeedQuiet
<1>1. PageInv => FeedQuiet
  BY FeedInvQuiet DEF PageInv
<1>2. QED
  BY <1>1, AlwaysPageInv, PTL

\* A page whose requests are answered shows what it was told, for any job, at any
\* capacity of the channel and however often the connection breaks.
THEOREM AnnouncementsHold == Spec => []ShownIsTold
<1>1. PageInv => ShownIsTold
  BY DEF PageInv, HeardTold, ShownIsTold
<1>2. QED
  BY <1>1, AlwaysPageInv, PTL

------------------------------------------------------------------------------
(* The order of the messages.  The argument is one invariant of the        *)
(* receiver, that no message stands behind one it must not follow, and     *)
(* three of the page.                                                      *)

Closing == {"close", "over"}

\* What the feed's own order comes from: one sampler works at a time and tells
\* its last sample, a line told is in the file, the last summary is asked for once.
FeedOrder ==
  /\ file \in Seq(Pipes)
  /\ \A p \in Pipes : tee[p] = "wrote" => file # <<>>
  /\ at \in {"queued", "stage", "tell_stage", "agent", "join_stage", "build"} =>
       sampler["run"] = "off"
  /\ "scaffold" \in broken => sampler["run"] = "off"
  /\ \A s \in Stages : sampler[s] = "recorded" => taken[s] = clock
  /\ at \notin {"coordinate"} \cup Closing => task["end"] = "off"
  /\ task["end"] \in {"off", "asked"} => "end" \notin cols

\* Whether n may stand behind m, where run_job left the stages b: the tees of a
\* scaffold stage it left tell their lines after the end.
Follows(b, m, n) ==
  /\ m.kind = "done" /\ "scaffold" \notin b => n.kind # "scaffold_log"
  /\ m.kind = "summaries_done" => n # EndSummary
  /\ m.kind = "metric" /\ n.kind = "metric" => m.ts <= n.ts

InOrder(b, box) == \A i, k \in 1..Len(box) : i < k => Follows(b, box[i], box[k])

\* What may follow may do so once run_job has left another stage.
LEMMA OrderOfBroken ==
  ASSUME NEW b, NEW c, b \subseteq c, NEW box, InOrder(b, box) PROVE InOrder(c, box)
  BY DEF InOrder, Follows

\* What is so once m was published.
Past(m) ==
  /\ m.kind = "done" => Ended
  /\ m.kind = "summaries_done" => at \in Closing /\ task["end"] = "over"
  /\ m.kind = "metric" => m.ts <= clock
  /\ m.kind = "scaffold_log" => file # <<>>

BoxInv ==
  /\ inbox \in Seq(Messages) /\ InOrder(broken, inbox)
  /\ \A m \in In(inbox) : Past(m)
  /\ step # "stream" => conn = "none" /\ inbox = <<>>

SamplesInv ==
  /\ samples \in Seq(Nat) /\ SamplesInOrder
  /\ \A i \in 1..Len(samples) :
       /\ samples[i] <= clock
       /\ \A m \in In(inbox) : m.kind = "metric" => samples[i] <= m.ts

\* The answers under way are the file or shorter; after the end one of them is
\* the file, unless it was applied and nothing shorter since, or run_job left the
\* scaffold stage and its tees.
LogInv ==
  /\ text \in Seq(Pipes) /\ newest \in Nat /\ newest <= Len(file)
  /\ text # <<>> => file # <<>>
  /\ \A t \in texts : t \in Seq(Pipes) \ {<<>>} /\ (t = file \/ Len(t) < Len(file))
  /\ Done \in heard =>
       /\ Ended
       /\ "scaffold" \notin broken =>
            /\ \A m \in In(inbox) : m.kind # "scaffold_log"
            /\ file # <<>> /\ "log" \notin overtaken =>
                 file \in texts \/ (text = file /\ newest = Len(file))

\* The last summary's announcement is there, heard or lost.
EndInv ==
  /\ task["end"] = "over" /\ "end" \in cols =>
       EndSummary \in In(inbox) \cup heard \cup lost
  /\ step = "closed" => task["end"] = "over"

OrderInv == FeedOrder /\ BoxInv /\ SamplesInv /\ LogInv /\ EndInv

------------------------------------------------------------------------------
(* The feed.                                                               *)

\* What a message's kind says of it.
LEMMA Kinds ==
  /\ \A m \in Messages : /\ m.kind = "metric" => m.ts \in Nat
                         /\ m.kind = "done" <=> m = Done
  /\ Done \in Messages /\ EndSummary \in Messages /\ EndSummary.kind = "summary"
  BY DEF Messages, Announcements, Done, EndSummary, Summary

LEMMA InitFeedOrder == FeedInit => FeedOrder
  BY DEF FeedInit, FeedOrder, Pipes, Stages, Summary, Closing

\* Every step of the feed keeps its order.
LEMMA StepFeedOrder ==
  ASSUME FeedInv, FeedOrder, [FeedNext]_feedVars
  PROVE  FeedOrder'
<1> USE DEF FeedOrder, FeedInv, Types, Closing, columns, channel, log, sampling
<1>1. CASE UNCHANGED feedVars
  BY <1>1 DEF feedVars
<1>2. CASE Start \/ StagePhase \/ AgentExits \/ StageBreaks \/ StageEnds
  BY <1>2 DEF Start, StagePhase, AgentExits, StageBreaks, StageEnds
<1>3. CASE StageStarts
  BY <1>3 DEF StageStarts, Pipes, Stages
<1>4. CASE RunStarts
  BY <1>4 DEF RunStarts, Ask, Stages, Summary, StageLeft
<1>5. CASE PhaseLine \/ TellPhase \/ StreamBreaks \/ ChildExits \/ Finish
  BY <1>5 DEF PhaseLine, TellPhase, StreamBreaks, ChildExits, Finish
<1>6. CASE TellDone
  BY <1>6 DEF TellDone, Ask, Summary
<1>7. CASE Coordinate \/ Fail \/ TellFailed \/ Close
  BY <1>7 DEF Coordinate, Fail, TellFailed, Close
<1>8. ASSUME NEW p \in Pipes, Tee(p) PROVE FeedOrder'
  <2>1. CASE Line(p)
    <3>0. file \in Seq(Pipes) /\ file' = Append(file, p)
      BY <2>1 DEF Line
    <3>1. file' \in Seq(Pipes) /\ file' # <<>>
      <4> HIDE DEF FeedOrder, FeedInv, Types, Closing, columns, channel, log, sampling
      <4> QED BY <3>0
    <3> QED BY <2>1, <3>1 DEF Line
  <2>2. CASE TellLine(p)
    BY <2>2 DEF TellLine
  <2>3. CASE PipeEnds(p)
    BY <2>3 DEF PipeEnds
  <2> QED BY <1>8, <2>1, <2>2, <2>3 DEF Tee
<1>9. ASSUME NEW s \in Stages, Sampler(s) PROVE FeedOrder'
  <2>1. CASE Sample(s)
    <3>1. \A x \in Stages \ {s} : sampler[x] # "recorded"
      BY <2>1 DEF Sample, StageQuiet, Stages
    <3>2. sampler["run"] = "off" => s # "run"
      BY <2>1 DEF Sample
    <3> QED BY <2>1, <3>1, <3>2 DEF Sample
  <2>2. CASE TellSample(s)
    BY <2>2 DEF TellSample
  <2>3. CASE SamplerEnds(s)
    BY <2>3 DEF SamplerEnds
  <2> QED BY <1>9, <2>1, <2>2, <2>3 DEF Sampler
<1>10. ASSUME NEW f \in Summary, Summarizer(f) PROVE FeedOrder'
  <2>1. CASE Summarise(f)
    BY <2>1 DEF Summarise, Summary
  <2>2. CASE TellSummary(f)
    BY <2>2 DEF TellSummary, Summary
  <2>3. CASE SummaryFails(f)
    BY <2>3 DEF SummaryFails, Summary
  <2> QED BY <1>10, <2>1, <2>2, <2>3 DEF Summarizer
<1> QED BY <1>1, <1>2, <1>3, <1>4, <1>5, <1>6, <1>7, <1>8, <1>9, <1>10 DEF FeedNext, RunJob

\* What is so stays so: the end, the closing, the clock, and a log that ended.
LEMMA FeedForward ==
  ASSUME FeedInv, FeedOrder, [FeedNext]_feedVars
  PROVE  /\ Ended => Ended'
         /\ Ended /\ "scaffold" \notin broken => file' = file
         /\ broken \subseteq broken'
         /\ at \in Closing => at' \in Closing
         /\ task["end"] = "over" => task'["end"] = "over"
         /\ clock \in Nat /\ clock' \in Nat /\ clock <= clock'
         /\ file' = file \/ \E p \in Pipes : file' = Append(file, p)
<1>1. Ended => Ended'
  BY RowAdvances DEF NoOlder, Terminal, row, columns, Ended
<1>2. Ended /\ "scaffold" \notin broken => ~(\E p \in Pipes : Line(p))
  BY DEF FeedInv, StageQuiet, RowAtEnd, AtEnd, Line
<1>3. clock \in Nat /\ (clock' = clock \/ clock' = clock + 1)
  BY DEF FeedInv, Types, columns, channel, log, sampling, feedVars, FeedNext, RunJob,
     Start, StagePhase, StageStarts, AgentExits, StageBreaks, StageEnds, RunStarts, PhaseLine, TellPhase,
     StreamBreaks, ChildExits, Finish, TellDone, Coordinate, Fail, TellFailed, Close,
     Tee, Line, TellLine, PipeEnds, Sampler, Sample, TellSample, SamplerEnds,
     Summarizer, Summarise, TellSummary, SummaryFails
<1>4. file' = file \/ \E p \in Pipes : Line(p) /\ file' = Append(file, p)
  BY DEF columns, channel, log, sampling, feedVars, FeedNext, RunJob,
     Start, StagePhase, StageStarts, AgentExits, StageBreaks, StageEnds, RunStarts, PhaseLine, TellPhase,
     StreamBreaks, ChildExits, Finish, TellDone, Coordinate, Fail, TellFailed, Close,
     Tee, Line, TellLine, PipeEnds, Sampler, Sample, TellSample, SamplerEnds,
     Summarizer, Summarise, TellSummary, SummaryFails
<1>5. at \in Closing => at' \in Closing
  BY DEF Closing, columns, channel, log, sampling, feedVars, FeedNext, RunJob,
     Start, StagePhase, StageStarts, AgentExits, StageBreaks, StageEnds, RunStarts, PhaseLine, TellPhase,
     StreamBreaks, ChildExits, Finish, TellDone, Coordinate, Fail, TellFailed, Close,
     Tee, Line, TellLine, PipeEnds, Sampler, Sample, TellSample, SamplerEnds,
     Summarizer, Summarise, TellSummary, SummaryFails
<1>6. task["end"] = "over" => task'["end"] = "over"
  <2>1. CASE UNCHANGED task
    BY <2>1
  <2>2. CASE RunStarts
    BY <2>2 DEF RunStarts, Ask, FeedInv, Types, Summary
  <2>3. CASE TellDone
    BY <2>3 DEF TellDone, FeedOrder, Closing
  <2>4. ASSUME NEW f \in Summary, Summarizer(f) PROVE task["end"] = "over" => task'["end"] = "over"
    BY <2>4 DEF Summarizer, Summarise, TellSummary, SummaryFails, FeedInv, Types, Summary
  <2> QED BY <2>1, <2>2, <2>3, <2>4 DEF columns, channel, log, sampling, feedVars, FeedNext,
     RunJob, Start, StagePhase, StageStarts, AgentExits, StageBreaks, StageEnds, PhaseLine, TellPhase,
     StreamBreaks, ChildExits, Finish, Coordinate, Fail, TellFailed, Close,
     Tee, Line, TellLine, PipeEnds, Sampler, Sample, TellSample, SamplerEnds
<1>7. clock <= clock'
  BY <1>3
<1>8. broken \subseteq broken'
  BY DEF columns, channel, log, sampling, feedVars, FeedNext, RunJob,
     Start, StagePhase, StageStarts, AgentExits, StageBreaks, StageEnds, RunStarts, PhaseLine,
     TellPhase, StreamBreaks, ChildExits, Finish, TellDone, Coordinate, Fail, TellFailed, Close,
     Tee, Line, TellLine, PipeEnds, Sampler, Sample, TellSample, SamplerEnds,
     Summarizer, Summarise, TellSummary, SummaryFails
<1> QED BY <1>1, <1>2, <1>3, <1>4, <1>5, <1>6, <1>7, <1>8

\* Such is all that Past asks for.
LEMMA PastKept ==
  ASSUME FeedInv, FeedOrder, [FeedNext]_feedVars, NEW m \in Messages, Past(m)
  PROVE  Past(m)'
<1>1. m.kind = "metric" => m.ts \in Nat
  BY Kinds
<1>2. file # <<>> => file' # <<>>
  BY FeedForward DEF FeedOrder
<1> QED BY <1>1, <1>2, FeedForward DEF Past

------------------------------------------------------------------------------
(* What the feed sends.                                                    *)

\* A message published goes last, or is not received; a full box loses its first.
LEMMA PublishedBox ==
  ASSUME NEW c, inbox \in Seq(Messages), NEW m \in Messages, publish(m)
  PROVE  /\ inbox' \in Seq(Messages) /\ In(inbox') \subseteq In(inbox) \cup {m}
         /\ InOrder(c, inbox) /\ (\A n \in In(inbox) : Follows(c, n, m)) => InOrder(c, inbox')
         /\ Final \cap (In(inbox) \cup {m}) \subseteq In(inbox') \cup lost' /\ lost \subseteq lost'
<1>1. /\ Final \cap (In(inbox) \cup {m}) \subseteq In(inbox') \cup lost'
      /\ lost \subseteq lost'
  BY DEF publish
<1>2. CASE inbox' = inbox
  BY <1>1, <1>2
<1>3. CASE inbox' # inbox
  <2> DEFINE b == Room(inbox)
  <2>1. inbox' = Append(b, m)
    BY <1>3 DEF publish
  <2>2. b \in Seq(Messages) /\ \E d \in {0, 1} :
          Len(b) = Len(inbox) - d /\ \A i \in 1..Len(b) : b[i] = inbox[i + d]
    <3>1. CASE b = inbox
      BY <3>1
    <3>2. CASE b = Tail(inbox) /\ inbox # <<>>
      BY <3>2
    <3> QED BY <3>1, <3>2, FeedAssumption DEF Room
  <2> HIDE DEF b
  <2>3. PICK d \in {0, 1} :
          Len(b) = Len(inbox) - d /\ \A i \in 1..Len(b) : b[i] = inbox[i + d]
    BY <2>2
  <2>4. /\ inbox' \in Seq(Messages) /\ Len(inbox') = Len(b) + 1 /\ inbox'[Len(b) + 1] = m
        /\ \A i \in 1..Len(b) : inbox'[i] = inbox[i + d] /\ i + d \in 1..Len(inbox)
    BY <2>1, <2>2, <2>3
  <2>5. Len(b) \in Nat /\ Len(inbox) \in Nat
    BY <2>2
  <2>6. In(inbox') \subseteq In(inbox) \cup {m}
    BY <2>4, <2>5 DEF In
  <2>7. ASSUME InOrder(c, inbox), \A n \in In(inbox) : Follows(c, n, m),
               NEW i \in 1..Len(inbox'), NEW k \in 1..Len(inbox'), i < k
        PROVE  Follows(c, inbox'[i], inbox'[k])
    <3>1. i \in 1..Len(b)
      BY <2>4, <2>5, <2>7
    <3>2. CASE k = Len(b) + 1
      BY <2>4, <2>7, <3>1, <3>2 DEF In
    <3>3. CASE k \in 1..Len(b)
      <4>1. i + d < k + d /\ i + d \in 1..Len(inbox) /\ k + d \in 1..Len(inbox)
        BY <2>4, <2>7, <3>1, <3>3
      <4> QED BY <2>4, <2>7, <3>1, <3>3, <4>1 DEF InOrder
    <3> QED BY <2>4, <2>5, <3>2, <3>3
  <2> QED BY <1>1, <2>4, <2>6, <2>7 DEF InOrder
<1> QED BY <1>2, <1>3

\* A message the feed may send now, to a receiver of box.
Timely(m, box) ==
  /\ m \in Messages
  /\ \A n \in In(box) : Follows(broken, n, m)
  /\ m.kind = "metric" => m.ts = clock
  /\ m.kind = "scaffold_log" => ~Ended \/ "scaffold" \in broken

\* A step of the feed sends nothing or a message that may follow what was sent.
LEMMA FeedSends ==
  ASSUME FeedInv, FeedOrder, [FeedNext]_feedVars,
         inbox \in Seq(Messages), \A n \in In(inbox) : Past(n)
  PROVE  \/ UNCHANGED <<inbox, lost>>
         \/ \E m \in Messages : publish(m) /\ Timely(m, inbox) /\ Past(m)'
<1> DEFINE Sends(m) == publish(m) /\ Timely(m, inbox) /\ Past(m)'
<1>1. CASE StageStarts \/ TellPhase
  <2>1. PICK k \in Nat : publish([kind |-> "phase", phase |-> k])
    BY <1>1 DEF StageStarts, TellPhase, FeedInv, Types
  <2>2. [kind |-> "phase", phase |-> k] \in Messages
    BY DEF Messages, Announcements
  <2> QED BY <2>1, <2>2 DEF Timely, Follows, Past, EndSummary
<1>2. CASE TellDone \/ TellFailed
  <2>1. publish(Done) /\ Ended'
    BY <1>2 DEF TellDone, TellFailed, FeedInv, RowAtEnd, AtEnd, Ended, columns
  <2> QED BY <2>1, Kinds DEF Timely, Follows, Past, EndSummary, Done
<1>3. CASE Coordinate
  <2>1. publish([kind |-> "summaries_done"]) /\ at' = "close" /\ task'["end"] = "over"
    BY <1>3 DEF Coordinate
  <2>2. [kind |-> "summaries_done"] \in Messages
    BY DEF Messages
  <2> QED BY <2>1, <2>2 DEF Timely, Follows, Past, EndSummary, Closing
<1>4. ASSUME NEW p \in Pipes, TellLine(p) PROVE \E m \in Messages : Sends(m)
  <2>1. publish([kind |-> "scaffold_log", line |-> p]) /\ file' # <<>>
    BY <1>4 DEF TellLine, FeedOrder
  <2>2. [kind |-> "scaffold_log", line |-> p] \in Messages
    BY DEF Messages
  <2>3. ~Ended \/ "scaffold" \in broken
    BY <1>4 DEF TellLine, FeedInv, StageQuiet, RowAtEnd, AtEnd
  <2> QED BY <2>1, <2>2, <2>3 DEF Timely, Follows, Past, EndSummary
<1>5. ASSUME NEW s \in Stages, TellSample(s) PROVE \E m \in Messages : Sends(m)
  <2> DEFINE m == [kind |-> "metric", ts |-> taken[s]]
  <2>1. publish(m) /\ m.ts = clock /\ clock' = clock /\ clock \in Nat
    BY <1>5 DEF TellSample, FeedOrder, FeedInv, Types
  <2>2. m \in Messages
    BY <2>1 DEF Messages
  <2> QED BY <2>1, <2>2 DEF Timely, Follows, Past, EndSummary
<1>6. ASSUME NEW f \in Summary, TellSummary(f) PROVE \E m \in Messages : Sends(m)
  <2> DEFINE m == [kind |-> "summary", field |-> f]
  <2>1. publish(m) /\ task[f] # "over"
    BY <1>6 DEF TellSummary
  <2>2. m \in Messages /\ (m = EndSummary => f = "end")
    BY DEF Messages, Announcements, EndSummary
  <2> QED BY <2>1, <2>2 DEF Timely, Follows, Past
<1>7. ASSUME NEW f \in Summary, SummaryFails(f) PROVE \E m \in Messages : Sends(m)
  <2> DEFINE m == [kind |-> "summary_error", field |-> f]
  <2>1. publish(m)
    BY <1>7 DEF SummaryFails
  <2>2. m \in Messages
    BY DEF Messages
  <2> QED BY <2>1, <2>2 DEF Timely, Follows, Past, EndSummary
<1> QED
  BY <1>1, <1>2, <1>3, <1>4, <1>5, <1>6, <1>7 DEF FeedNext, RunJob, feedVars, channel,
     Start, StagePhase, AgentExits, StageBreaks, StageEnds, RunStarts, PhaseLine, StreamBreaks, ChildExits,
     Finish, Fail, Close, close, Tee, Line, PipeEnds, Sampler, Sample, SamplerEnds, Summarizer,
     Summarise

\* A page that does not listen receives nothing, and the feed opens no connection.
LEMMA FeedConn ==
  ASSUME [FeedNext]_feedVars
  PROVE  /\ conn' = conn \/ conn = "open"
         /\ conn # "open" => inbox' = inbox
BY DEF feedVars, FeedNext, RunJob, channel, publish, close,
   Start, StagePhase, StageStarts, AgentExits, StageBreaks, StageEnds, RunStarts, PhaseLine, TellPhase,
   StreamBreaks, ChildExits, Finish, TellDone, Coordinate, Fail, TellFailed, Close,
   Tee, Line, TellLine, PipeEnds, Sampler, Sample, TellSample, SamplerEnds,
   Summarizer, Summarise, TellSummary, SummaryFails

\* The end's task is over with its text told, or without one.
LEMMA FeedEnd ==
  ASSUME FeedInv, FeedOrder, [FeedNext]_feedVars, task'["end"] = "over", "end" \in cols'
  PROVE  (task["end"] = "over" /\ "end" \in cols) \/ publish(EndSummary)
<1>1. CASE UNCHANGED <<task, cols>>
  BY <1>1
<1>2. CASE RunStarts
  BY <1>2 DEF RunStarts, Ask, FeedInv, Types, Summary, columns
<1>3. CASE TellDone
  BY <1>3 DEF TellDone, FeedOrder, Closing, columns
<1>4. ASSUME NEW f \in Summary, Summarizer(f)
      PROVE  (task["end"] = "over" /\ "end" \in cols) \/ publish(EndSummary)
  BY <1>4 DEF Summarizer, Summarise, TellSummary, SummaryFails, FeedInv, FeedOrder, Types,
     Summary, columns, EndSummary
<1> QED
  BY <1>1, <1>2, <1>3, <1>4 DEF columns, channel, log, sampling, feedVars, FeedNext,
     RunJob, Start, StagePhase, StageStarts, AgentExits, StageBreaks, StageEnds, PhaseLine, TellPhase,
     StreamBreaks, ChildExits, Finish, Coordinate, Fail, TellFailed, Close,
     Tee, Line, TellLine, PipeEnds, Sampler, Sample, TellSample, SamplerEnds

------------------------------------------------------------------------------
(* The page.                                                               *)

LEMMA InitOrderInv == Init => OrderInv
<1> SUFFICES ASSUME Init PROVE OrderInv
  OBVIOUS
<1>1. FeedOrder
  BY InitFeedOrder DEF Init
<1>2. BoxInv
  BY DEF Init, FeedInit, BoxInv, In, InOrder
<1>3. SamplesInv
  BY DEF Init, FeedInit, SamplesInv, SamplesInOrder
<1>4. LogInv
  BY DEF Init, FeedInit, LogInv
<1>5. EndInv
  BY DEF Init, FeedInit, EndInv, Summary
<1> QED BY <1>1, <1>2, <1>3, <1>4, <1>5 DEF OrderInv

\* The feed's steps keep what a page has.
LEMMA FeedKeepsOrder ==
  ASSUME PageInv, OrderInv, [FeedNext]_feedVars, UNCHANGED pageVars PROVE OrderInv'
<1>0. /\ FeedInv /\ FeedOrder /\ inbox \in Seq(Messages) /\ InOrder(broken, inbox)
      /\ \A m \in In(inbox) : m \in Messages /\ Past(m)
  BY DEF PageInv, OrderInv, BoxInv, In
<1>1. FeedOrder'
  BY <1>0, StepFeedOrder
<1>2. \A m \in In(inbox) : Past(m)'
  BY <1>0, PastKept
<1>3. /\ Ended => Ended'
      /\ Ended /\ "scaffold" \notin broken => file' = file
      /\ broken \subseteq broken'
      /\ task["end"] = "over" => task'["end"] = "over"
      /\ clock \in Nat /\ clock' \in Nat /\ clock <= clock'
      /\ file' = file \/ \E p \in Pipes : file' = Append(file, p)
  BY <1>0, FeedForward
<1>4. UNCHANGED <<step, samples, text, texts, newest, overtaken, heard>>
  BY DEF pageVars, fetches
<1>5. /\ inbox' \in Seq(Messages) /\ InOrder(broken', inbox')
      /\ \A m \in In(inbox') : m \in In(inbox) \/ Timely(m, inbox)
      /\ \A m \in In(inbox') : Past(m)'
      /\ Final \cap In(inbox) \subseteq In(inbox') \cup lost' /\ lost \subseteq lost'
  <2>1. CASE UNCHANGED <<inbox, lost>>
    BY <1>0, <1>2, <1>3, <2>1, OrderOfBroken
  <2>2. CASE \E m \in Messages : publish(m) /\ Timely(m, inbox) /\ Past(m)'
    <3>1. PICK m \in Messages : publish(m) /\ Timely(m, inbox) /\ Past(m)'
      BY <2>2
    <3>2. \A n \in In(inbox) : Follows(broken, n, m)
      BY <3>1 DEF Timely
    <3>3. InOrder(broken, inbox')
      BY <1>0, <3>1, <3>2, PublishedBox
    <3>4. InOrder(broken', inbox')
      BY <1>3, <3>3, OrderOfBroken
    <3>5. /\ inbox' \in Seq(Messages) /\ In(inbox') \subseteq In(inbox) \cup {m}
          /\ Final \cap (In(inbox) \cup {m}) \subseteq In(inbox') \cup lost' /\ lost \subseteq lost'
      BY <1>0, <3>1, PublishedBox
    <3> QED BY <1>2, <3>1, <3>4, <3>5
  <2> QED BY <1>0, <2>1, <2>2, FeedSends
<1>6. BoxInv'
  BY <1>4, <1>5, FeedConn DEF OrderInv, BoxInv
<1>7. SamplesInv'
  BY <1>3, <1>4, <1>5 DEF OrderInv, SamplesInv, SamplesInOrder, Timely
<1>8. LogInv'
  <2> USE DEF LogInv
  <2>0. LogInv /\ file \in Seq(Pipes)
    BY DEF OrderInv, FeedOrder
  <2>1. Done \in heard' /\ "scaffold" \notin broken' =>
          \A m \in In(inbox') : m.kind # "scaffold_log"
    BY <1>3, <1>4, <1>5, <2>0 DEF Timely
  <2>2. CASE file' = file
    BY <1>3, <1>4, <2>0, <2>1, <2>2
  <2>3. CASE \E p \in Pipes : file' = Append(file, p)
    <3>1. file' \in Seq(Pipes) /\ file' # <<>> /\ Len(file') = Len(file) + 1 /\ Len(file) \in Nat
      BY <2>0, <2>3
    <3>2. file' # file
      BY <3>1
    <3>3. Done \notin heard \/ "scaffold" \in broken'
      BY <1>3, <2>0, <3>2
    <3>4. \A u \in texts : u \in Seq(Pipes) \ {<<>>} /\ Len(u) \in Nat /\ Len(u) < Len(file')
      BY <2>0, <3>1
    <3> QED BY <1>3, <1>4, <2>0, <2>1, <3>1, <3>3, <3>4
  <2> QED BY <1>3, <2>2, <2>3
<1>9. EndInv'
  <2>1. task'["end"] = "over" /\ "end" \in cols' => EndSummary \in In(inbox') \cup heard' \cup lost'
    <3>1. SUFFICES ASSUME task'["end"] = "over", "end" \in cols'
                   PROVE  EndSummary \in In(inbox') \cup heard' \cup lost'
      OBVIOUS
    <3>2. CASE task["end"] = "over" /\ "end" \in cols
      BY <1>4, <1>5, <3>2 DEF OrderInv, EndInv, Final
    <3>3. CASE publish(EndSummary)
      BY <1>0, <3>3, Kinds, PublishedBox DEF Final
    <3> QED BY <1>0, <3>1, <3>2, <3>3, FeedEnd
  <2> QED BY <1>3, <1>4, <2>1 DEF OrderInv, EndInv
<1> QED BY <1>1, <1>6, <1>7, <1>8, <1>9 DEF OrderInv

\* A page's own step leaves the feed's tasks alone, and with them what was past.
LEMMA PageKeepsFeed ==
  ASSUME FeedOrder, UNCHANGED <<at, columns, job, log, sampling, task, broken>>
  PROVE  FeedOrder' /\ \A m : Past(m) => Past(m)'
BY DEF FeedOrder, Past, Ended, Closing, columns, log, sampling

\* Reading takes the first message; those behind it may follow it.
LEMMA ReadKeepsOrder ==
  ASSUME PageInv, OrderInv, Read PROVE OrderInv'
<1> DEFINE m == Head(inbox)
<1>0. /\ FeedOrder /\ inbox \in Seq(Messages) /\ InOrder(broken, inbox) /\ inbox # <<>>
      /\ \A n \in In(inbox) : n \in Messages /\ Past(n)
  BY DEF Read, OrderInv, BoxInv, In
<1>1. UNCHANGED <<at, columns, job, log, sampling, task, broken, lost, newest, overtaken>>
  BY DEF Read
<1>2. /\ FeedOrder' /\ \A n : Past(n) => Past(n)'
      /\ UNCHANGED <<clock, file, status, cols, at, broken>>
  BY <1>0, <1>1, PageKeepsFeed DEF columns, log, sampling
<1>3. /\ m \in In(inbox) /\ m \in Messages /\ Past(m)
      /\ Tail(inbox) \in Seq(Messages) /\ InOrder(broken, Tail(inbox))
      /\ In(inbox) = {m} \cup In(Tail(inbox))
      /\ \A n \in In(Tail(inbox)) : n \in Messages /\ Past(n) /\ Follows(broken, m, n)
  <2>1. /\ Tail(inbox) \in Seq(Messages) /\ Len(inbox) \in Nat /\ Len(inbox) >= 1
        /\ Len(Tail(inbox)) = Len(inbox) - 1 /\ m = inbox[1]
        /\ \A i \in 1..Len(Tail(inbox)) : Tail(inbox)[i] = inbox[i + 1]
    BY <1>0
  <2>2. m \in In(inbox)
    BY <2>1 DEF In
  <2>3. InOrder(broken, Tail(inbox))
    BY <1>0, <2>1 DEF InOrder
  <2>4. \A n \in In(Tail(inbox)) : n \in In(inbox) /\ Follows(broken, m, n)
    BY <1>0, <2>1 DEF InOrder, In
  <2>5. \A n \in In(inbox) : n = m \/ n \in In(Tail(inbox))
    <3>1. ASSUME NEW i \in 1..Len(inbox), i # 1 PROVE inbox[i] \in In(Tail(inbox))
      <4>1. i - 1 \in 1..Len(Tail(inbox)) /\ (i - 1) + 1 = i
        BY <2>1, <3>1
      <4> QED BY <2>1, <4>1 DEF In
    <3> QED BY <2>1, <3>1 DEF In
  <2> QED BY <1>0, <2>1, <2>2, <2>3, <2>4, <2>5
<1>4. /\ samples' = IF m.kind = "metric" THEN Append(samples, m.ts) ELSE samples
      /\ text' = IF m.kind = "scaffold_log" THEN Append(text, m.line) ELSE text
      /\ texts' = IF m.kind \in {"phase", "done"} THEN texts \cup Fetched(file) ELSE texts
      /\ heard' = IF Announces(m) THEN heard \cup {m} ELSE heard
      /\ step = "stream"
  BY DEF Read
<1>5. \/ m.kind = "summaries_done" /\ step' = "closed" /\ conn' = "none" /\ inbox' = <<>>
      \/ m.kind # "summaries_done" /\ step' = "stream" /\ inbox' = Tail(inbox)
  BY DEF Read
<1> HIDE DEF m
<1>6. /\ inbox' \in Seq(Messages) /\ InOrder(broken', inbox')
      /\ \A n \in In(inbox') : n \in Messages /\ Past(n) /\ Follows(broken, m, n) /\ n \in In(inbox)
  <2>1. CASE inbox' = Tail(inbox)
    BY <1>2, <1>3, <2>1
  <2>2. CASE inbox' = <<>>
    BY <2>2 DEF In, InOrder
  <2> QED BY <1>5, <2>1, <2>2
<1>7. BoxInv'
  BY <1>2, <1>5, <1>6 DEF BoxInv
<1>8. SamplesInv'
  <2>1. SamplesInv
    BY DEF OrderInv
  <2>2. CASE m.kind = "metric"
    <3>1. m.ts \in Nat /\ m.ts <= clock
      BY <1>3, <2>2, Kinds DEF Past
    <3>2. /\ samples \in Seq(Nat) /\ samples' = Append(samples, m.ts)
          /\ \A i \in 1..Len(samples) : samples[i] <= m.ts
      BY <1>3, <1>4, <2>1, <2>2 DEF SamplesInv
    <3>3. /\ samples' \in Seq(Nat) /\ Len(samples') = Len(samples) + 1 /\ Len(samples) \in Nat
          /\ \A i \in 1..Len(samples) : samples'[i] = samples[i]
          /\ samples'[Len(samples) + 1] = m.ts
      BY <3>1, <3>2
    <3>4. \A i \in 1..Len(samples') : samples'[i] <= m.ts
      BY <3>1, <3>2, <3>3
    <3>5. SamplesInOrder'
      BY <2>1, <3>1, <3>2, <3>3, <3>4 DEF SamplesInv, SamplesInOrder
    <3>6. \A i \in 1..Len(samples') : samples'[i] \in Nat /\ samples'[i] <= clock'
      <4>1. \A i \in 1..Len(samples') : samples'[i] \in Nat
        BY <3>3
      <4>2. clock \in Nat /\ clock' = clock
        BY <1>2 DEF PageInv, FeedInv, Types
      <4> QED BY <3>1, <3>4, <4>1, <4>2
    <3>7. ASSUME NEW i \in 1..Len(samples'), NEW n \in In(inbox'), n.kind = "metric"
          PROVE  samples'[i] <= n.ts
      <4>1. m.ts <= n.ts /\ n.ts \in Nat
        BY <1>6, <2>2, <3>7, Kinds DEF Follows
      <4> QED BY <3>1, <3>4, <3>6, <4>1
    <3> QED BY <3>3, <3>5, <3>6, <3>7 DEF SamplesInv
  <2>3. CASE m.kind # "metric"
    BY <1>2, <1>4, <1>6, <2>1, <2>3 DEF SamplesInv, SamplesInOrder
  <2> QED BY <2>2, <2>3
<1>9. LogInv'
  <2>0. LogInv /\ file \in Seq(Pipes) /\ file' = file
    BY <1>0, <1>2 DEF OrderInv, FeedOrder
  <2>1. text' \in Seq(Pipes) /\ (text' # <<>> => file # <<>>)
    <3>1. CASE m.kind = "scaffold_log"
      <4>1. m.line \in Pipes /\ file # <<>>
        BY <1>3, <3>1 DEF Past, Messages, Announcements, Done
      <4> QED BY <1>4, <2>0, <3>1, <4>1 DEF LogInv
    <3> QED BY <1>4, <2>0, <3>1 DEF LogInv
  <2>2. \A u \in texts' : u \in Seq(Pipes) \ {<<>>} /\ (u = file \/ Len(u) < Len(file))
    BY <1>4, <2>0 DEF LogInv, Fetched
  <2>3. CASE Done \in heard
    <3>1. /\ Ended' /\ texts \subseteq texts'
          /\ "scaffold" \notin broken => m.kind # "scaffold_log" /\ text' = text
      BY <1>2, <1>3, <1>4, <2>0, <2>3 DEF LogInv, Ended
    <3> QED BY <1>1, <1>6, <2>0, <2>1, <2>2, <2>3, <3>1 DEF LogInv
  <2>4. CASE m = Done
    <3>1. m.kind = "done"
      BY <2>4 DEF Done
    <3>2. Ended' /\ ("scaffold" \notin broken => \A n \in In(inbox') : n.kind # "scaffold_log")
      BY <1>2, <1>3, <1>6, <3>1 DEF Past, Follows, Ended
    <3>3. file # <<>> => file \in texts'
      BY <1>4, <3>1 DEF Fetched
    <3> QED BY <1>1, <2>0, <2>1, <2>2, <3>2, <3>3 DEF LogInv
  <2>5. CASE Done \notin heard'
    BY <1>1, <2>0, <2>1, <2>2, <2>5 DEF LogInv
  <2> QED BY <1>4, <2>3, <2>4, <2>5
<1>10. EndInv'
  <2>0. EndInv
    BY DEF OrderInv
  <2>1. CASE m.kind = "summaries_done"
    <3>1. task["end"] = "over"
      BY <1>3, <2>1 DEF Past
    <3>2. EndSummary \notin In(inbox)
      BY <1>3, <2>1 DEF Follows, EndSummary
    <3> QED BY <1>1, <1>2, <1>4, <2>0, <3>1, <3>2 DEF EndInv
  <2>2. CASE m.kind # "summaries_done"
    <3>1. step' = "stream" /\ In(inbox) = {m} \cup In(inbox')
      BY <1>3, <1>5, <2>2
    <3>2. m = EndSummary => m \in heard'
      BY <1>4 DEF Announces, EndSummary
    <3>3. heard \subseteq heard' /\ lost' = lost
      BY <1>1, <1>4
    <3> QED BY <1>1, <1>2, <2>0, <3>1, <3>2, <3>3 DEF EndInv
  <2> QED BY <2>1, <2>2
<1> QED BY <1>2, <1>7, <1>8, <1>9, <1>10 DEF OrderInv

\* Every other step of the page, and the break of its connection.
LEMMA PageKeepsOrder ==
  ASSUME PageInv, OrderInv,
         Open \/ GetJob \/ GetMetrics \/ Connect \/ Cut \/ ApplyJob \/ ApplyLog
  PROVE  OrderInv'
<1>0. FeedOrder /\ BoxInv /\ SamplesInv /\ LogInv /\ EndInv /\ PageTypes
  BY DEF PageInv, OrderInv
<1>1. UNCHANGED <<at, columns, job, log, sampling, task, broken>>
  BY DEF Open, GetJob, GetMetrics, Connect, Cut, ApplyJob, ApplyLog, feedVars, pageVars
<1>2. /\ FeedOrder' /\ \A n : Past(n) => Past(n)'
      /\ UNCHANGED <<clock, file, status, cols, task, broken>>
  BY <1>0, <1>1, PageKeepsFeed DEF columns, log, sampling
<1>3. clock \in Nat /\ file \in Seq(Pipes)
  BY <1>0 DEF PageInv, FeedInv, Types, FeedOrder
<1> SUFFICES BoxInv' /\ SamplesInv' /\ LogInv' /\ EndInv'
  BY <1>2 DEF OrderInv
<1>4. CASE GetJob
  <2>1. /\ UNCHANGED <<conn, inbox, lost, samples, text, texts, heard, newest, overtaken>>
        /\ step = "job" /\ step' = "metrics"
    BY <1>4 DEF GetJob, feedVars, channel, fetches
  <2> QED BY <1>0, <1>2, <2>1 DEF BoxInv, SamplesInv, SamplesInOrder, LogInv, EndInv, Ended
<1>5. CASE GetMetrics
  <2>1. /\ UNCHANGED <<conn, inbox, lost, text, texts, heard, newest, overtaken>>
        /\ step = "metrics" /\ step' \in {"quiet", "connect"}
        /\ samples' = [n \in 1..clock |-> n] /\ inbox = <<>>
    BY <1>0, <1>5 DEF GetMetrics, feedVars, channel, fetches, BoxInv
  <2>2. BoxInv' /\ EndInv' /\ LogInv'
    BY <1>0, <1>2, <2>1 DEF BoxInv, LogInv, EndInv, Ended
  <2>3. samples' \in Seq(Nat) /\ Len(samples') = clock /\ \A n \in 1..clock : samples'[n] = n
    BY <1>3, <2>1
  <2>4. In(inbox') = {}
    BY <2>1 DEF In
  <2>5. SamplesInv'
    BY <1>2, <1>3, <2>3, <2>4 DEF SamplesInv, SamplesInOrder
  <2> QED BY <2>2, <2>5
<1>6. CASE Connect
  <2>1. /\ UNCHANGED <<inbox, lost, samples, text, texts, heard, newest, overtaken>>
        /\ step' = "stream"
    BY <1>6 DEF Connect, fetches
  <2> QED BY <1>0, <1>2, <2>1 DEF BoxInv, SamplesInv, SamplesInOrder, LogInv, EndInv, Ended
<1>7. CASE Cut
  <2>1. /\ UNCHANGED <<samples, text, texts, heard, newest, overtaken>>
        /\ step' = "stream" /\ inbox' = <<>> /\ lost' = lost \cup (Final \cap In(inbox))
    BY <1>7 DEF Cut, pageVars, fetches
  <2>2. In(inbox') = {} /\ InOrder(broken', inbox') /\ inbox' \in Seq(Messages)
    BY <2>1 DEF In, InOrder
  <2>3. BoxInv' /\ SamplesInv'
    BY <1>0, <1>2, <2>1, <2>2 DEF BoxInv, SamplesInv, SamplesInOrder
  <2>4. LogInv'
    BY <1>0, <1>2, <2>1, <2>2 DEF LogInv, Ended
  <2>5. EndInv'
    BY <1>0, <1>2, <2>1, <2>2 DEF EndInv, Final
  <2> QED BY <2>3, <2>4, <2>5
<1>8. CASE ApplyJob
  <2>1. /\ UNCHANGED <<conn, inbox, lost, step, samples, text, texts, heard, newest>>
        /\ ("log" \in overtaken' <=> "log" \in overtaken)
    BY <1>8 DEF ApplyJob, feedVars, channel
  <2> QED BY <1>0, <1>2, <2>1 DEF BoxInv, SamplesInv, SamplesInOrder, LogInv, EndInv, Ended
<1>9. CASE ApplyLog
  <2>1. UNCHANGED <<conn, inbox, lost, step, samples, heard>>
    BY <1>9 DEF ApplyLog, feedVars, channel
  <2>2. BoxInv' /\ SamplesInv' /\ EndInv'
    BY <1>0, <1>2, <2>1 DEF BoxInv, SamplesInv, SamplesInOrder, EndInv
  <2>3. PICK u \in texts :
          /\ text' = u /\ texts' = texts \ {u}
          /\ newest' = IF newest < Len(u) THEN Len(u) ELSE newest
          /\ overtaken' = IF newest <= Len(u) THEN overtaken ELSE overtaken \cup {"log"}
    BY <1>9 DEF ApplyLog
  <2>4. /\ u \in Seq(Pipes) /\ u # <<>> /\ Len(u) \in Nat /\ Len(file) \in Nat
        /\ u = file \/ Len(u) < Len(file)
        /\ newest \in Nat /\ newest <= Len(file)
    BY <1>0, <1>3, <2>3 DEF LogInv
  <2>5. newest' \in Nat /\ newest' <= Len(file)
    BY <2>3, <2>4
  <2>6. file # <<>>
    BY <1>3, <2>4
  <2>7. ASSUME Done \in heard, "log" \notin overtaken', "scaffold" \notin broken
        PROVE  file \in texts' \/ (text' = file /\ newest' = Len(file))
    <3>1. newest <= Len(u) /\ "log" \notin overtaken
      BY <2>3, <2>7
    <3>2. CASE u = file
      BY <2>3, <2>4, <3>1, <3>2
    <3>3. CASE u # file
      <4>1. file \in texts
        BY <1>0, <2>4, <2>6, <2>7, <3>1, <3>3 DEF LogInv
      <4> QED BY <2>3, <3>3, <4>1
    <3> QED BY <3>2, <3>3
  <2>8. LogInv'
    BY <1>0, <1>2, <2>1, <2>3, <2>4, <2>5, <2>6, <2>7 DEF LogInv, Ended
  <2> QED BY <2>2, <2>8
<1>10. CASE Open
  <2>1. /\ UNCHANGED <<conn, inbox, lost, samples, text, heard, newest, overtaken>>
        /\ step = "open" /\ step' = "job" /\ texts' = Fetched(file) /\ heard = {}
    BY <1>0, <1>10 DEF Open, feedVars, channel, PageTypes
  <2>2. BoxInv' /\ SamplesInv' /\ EndInv'
    BY <1>0, <1>2, <2>1 DEF BoxInv, SamplesInv, SamplesInOrder, EndInv
  <2>3. LogInv'
    BY <1>0, <1>2, <1>3, <2>1 DEF LogInv, Fetched
  <2> QED BY <2>2, <2>3
<1> QED BY <1>4, <1>5, <1>6, <1>7, <1>8, <1>9, <1>10

------------------------------------------------------------------------------

LEMMA AlwaysOrderInv == Spec => [](PageInv /\ OrderInv)
<1>1. PageInv /\ OrderInv /\ [Next]_vars => OrderInv'
  <2> SUFFICES ASSUME PageInv, OrderInv, [Next]_vars PROVE OrderInv'
    OBVIOUS
  <2>1. CASE [FeedNext]_feedVars /\ UNCHANGED pageVars
    BY <2>1, FeedKeepsOrder
  <2> QED
    BY <2>1, ReadKeepsOrder, PageKeepsOrder DEF Next, FeedStep, Page, Answers, vars
<1> QED BY <1>1, InitOrderInv, InitPageInv, StepPageInv, PTL DEF Spec

\* The page draws the samples in the order they were taken, whatever it missed
\* between its request for them and the stream, or while the stream was down.
THEOREM SamplesStayInOrder == Spec => []SamplesInOrder
<1>1. OrderInv => SamplesInOrder
  BY DEF OrderInv, SamplesInv
<1> QED BY <1>1, AlwaysOrderInv, PTL

\* Once it heard of the end and its requests are answered, the page has the whole
\* scaffold log, unless an older answer came after a newer one or run_job left in
\* the middle of that stage.
THEOREM LogBecomesWhole == Spec => []LogIsWhole
<1>1. OrderInv => LogIsWhole
  <2> SUFFICES ASSUME OrderInv, Done \in heard, texts = {}, "log" \notin overtaken,
                      "scaffold" \notin broken
               PROVE  text = file
    BY DEF LogIsWhole
  <2> QED BY DEF OrderInv, LogInv
<1> QED BY <1>1, AlwaysOrderInv, PTL

\* A page that closed its stream has the summary of the result, if there is one,
\* its announcement was not lost and no older answer came last.
THEOREM ClosedStaysWhole == Spec => []ClosedIsWhole
<1>1. PageInv /\ OrderInv => ClosedIsWhole
  <2> SUFFICES ASSUME PageInv, OrderInv, step = "closed", rows = {}, "row" \notin overtaken,
                      EndSummary \notin lost, "end" \in cols
               PROVE  "end" \in shown.cols
    BY DEF ClosedIsWhole
  <2>1. task["end"] = "over" /\ In(inbox) = {}
    BY DEF OrderInv, EndInv, BoxInv, In
  <2>2. EndSummary \in heard
    BY <2>1 DEF OrderInv, EndInv
  <2>3. Shows(shown, EndSummary)
    BY <2>2 DEF PageInv, HeardTold
  <2> QED BY <2>3 DEF Shows, EndSummary
<1> QED BY <1>1, AlwaysOrderInv, PTL
==============================================================================
