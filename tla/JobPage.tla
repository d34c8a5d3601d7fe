-------------------------------- MODULE JobPage --------------------------------
(***************************************************************************)
(* The page of one job (JobDetail.tsx) beside that job's feed.  It fetches *)
(* the row and the samples, subscribes, and from then on asks again at the *)
(* announcements that concern the row or the scaffold log.  Nothing orders *)
(* the answers, and nothing but a new page asks for what was announced     *)
(* before the subscription or while the connection was down.               *)
(*                                                                         *)
(* A request is answered when it is made, the answer applied at any later  *)
(* moment: an answer made later is only newer.  Requests do not fail; the  *)
(* page shows one job all its life.                                        *)
(***************************************************************************)
EXTENDS JobFeed

VARIABLES
  step,       \* where the page's effect is
  shown,      \* setJob
  samples,    \* setSamples: their times
  text,       \* setScaffoldLog: the pipes of its lines
  rows,       \* answers not yet applied: rows
  texts,      \* and logs
  heard,      \* history: the announcements read that concern the row
  newest,     \* history: the length of the longest log applied
  overtaken   \* history: what was once replaced by an older answer

fetches == <<rows, texts, newest, overtaken>>
pageVars == <<step, shown, samples, text, fetches, heard>>
vars == <<feedVars, pageVars>>

NoJob == [status |-> "null", phase |-> 0, cols |-> {}]

Init ==
  /\ FeedInit
  /\ step = "open"
  /\ shown = NoJob
  /\ samples = <<>>
  /\ text = <<>>
  /\ rows = {} /\ texts = {}
  /\ heard = {}
  /\ newest = 0
  /\ overtaken = {}

------------------------------------------------------------------------------
(* The effect: the log is asked for at once, the row and the samples one   *)
(* after the other, then the stream.                                       *)

\* An empty log changes nothing.
Fetched(t) == IF t = <<>> THEN {} ELSE {t}

Open ==
  /\ step = "open"
  /\ texts' = Fetched(file)
  /\ step' = "job"
  /\ UNCHANGED <<feedVars, shown, samples, text, rows, heard, newest, overtaken>>

GetJob ==
  /\ step = "job"
  /\ shown' = row
  /\ step' = "metrics"
  /\ UNCHANGED <<feedVars, samples, text, fetches, heard>>

\* An ended job with all its summaries has nothing more to say.
Terminal(r) == r.status \in {"done", "failed"}

GetMetrics ==
  /\ step = "metrics"
  /\ samples' = [n \in 1..clock |-> n]
  /\ step' = IF Terminal(shown) /\ shown.cols = Summary THEN "quiet" ELSE "connect"
  /\ UNCHANGED <<feedVars, shown, text, fetches, heard>>

\* The browser connects; and again, by itself, when the stream has ended.
Connect ==
  /\ \/ step = "connect"
     \/ step = "stream" /\ conn = "ended" /\ inbox = <<>>
  /\ step' = "stream"
  /\ conn' = "open"
  /\ UNCHANGED <<at, columns, job, log, sampling, task, broken, inbox, lost>>
  /\ UNCHANGED <<shown, samples, text, fetches, heard>>

\* The connection breaks.
Cut ==
  /\ step = "stream" /\ conn = "open"
  /\ conn' = "ended"
  /\ inbox' = <<>>
  /\ lost' = lost \cup (Final \cap In(inbox))
  /\ UNCHANGED <<at, columns, job, log, sampling, task, broken, pageVars>>

Announces(m) == m.kind \in {"phase", "done", "summary"}

Read ==
  /\ step = "stream" /\ inbox # <<>>
  /\ LET m == Head(inbox) IN
     /\ samples' = IF m.kind = "metric" THEN Append(samples, m.ts) ELSE samples
     /\ text' = IF m.kind = "scaffold_log" THEN Append(text, m.line) ELSE text
     /\ rows' = IF Announces(m) THEN rows \cup {row} ELSE rows
     /\ texts' = IF m.kind \in {"phase", "done"} THEN texts \cup Fetched(file) ELSE texts
     /\ heard' = IF Announces(m) THEN heard \cup {m} ELSE heard
     /\ IF m.kind = "summaries_done"
        THEN step' = "closed" /\ conn' = "none" /\ inbox' = <<>>
        ELSE inbox' = Tail(inbox) /\ UNCHANGED <<step, conn>>
  /\ UNCHANGED <<at, columns, job, log, sampling, task, broken, lost>>
  /\ UNCHANGED <<shown, newest, overtaken>>

------------------------------------------------------------------------------
(* The answers.                                                            *)

\* Whether r is the row as it was no earlier than at q.
NoOlder(r, q) ==
  /\ q.status = "running" => r.status # "queued"
  /\ Terminal(q) => Terminal(r)
  /\ q.phase <= r.phase /\ q.cols \subseteq r.cols

ApplyJob ==
  \E r \in rows :
    /\ shown' = r
    /\ rows' = rows \ {r}
    /\ overtaken' = IF NoOlder(r, shown) THEN overtaken ELSE overtaken \cup {"row"}
    /\ UNCHANGED <<feedVars, step, samples, text, texts, heard, newest>>

ApplyLog ==
  \E t \in texts :
    /\ text' = t
    /\ texts' = texts \ {t}
    /\ newest' = IF newest < Len(t) THEN Len(t) ELSE newest
    /\ overtaken' = IF newest <= Len(t) THEN overtaken ELSE overtaken \cup {"log"}
    /\ UNCHANGED <<feedVars, step, shown, samples, rows, heard>>

Page == Open \/ GetJob \/ GetMetrics \/ Connect \/ Read
Answers == ApplyJob \/ ApplyLog
FeedStep == FeedNext /\ UNCHANGED pageVars

Next == FeedStep \/ Page \/ Cut \/ Answers

Spec == Init /\ [][Next]_vars

------------------------------------------------------------------------------
(* Correctness.                                                            *)

\* Whether a row has what the announcement m told of.
Shows(r, m) ==
  /\ m.kind = "done" => Terminal(r)
  /\ m.kind = "phase" => r.phase >= m.phase
  /\ m.kind = "summary" => m.field \in r.cols

\* A page with no request for the row under way shows all it was told of, unless
\* an older answer came last: each announcement follows its write.
ShownIsTold ==
  rows = {} /\ "row" \notin overtaken => \A m \in heard : Shows(shown, m)

\* Once it heard of the end and its requests are answered, the page has the whole
\* scaffold log, whatever lines it missed or saw twice on the way - if its tees were
\* waited for, and no older answer came last.
LogIsWhole ==
  Done \in heard /\ texts = {} /\ "log" \notin overtaken /\ "scaffold" \notin broken
    => text = file

\* The page draws the samples of both stages in the order they were taken.
SamplesInOrder ==
  \A i, j \in 1..Len(samples) : i < j => samples[i] <= samples[j]

\* A page that has closed its stream never asks again: what it shows then has the
\* summary of the result, if that was generated and its announcement not lost.
ClosedIsWhole ==
  step = "closed" /\ rows = {} /\ "row" \notin overtaken /\ EndSummary \notin lost
    => cols \cap {"end"} \subseteq shown.cols

\* A page that listens shows the end of the job, unless the announcement was lost
\* on the way or an older answer came last.
EndIsShown ==
  step = "stream" ~> Terminal(shown) \/ Done \in lost \/ "row" \in overtaken

Fairness ==
  /\ WF_vars(RunJob /\ UNCHANGED pageVars)
  /\ \A p \in Pipes : WF_vars(Tee(p) /\ UNCHANGED pageVars)
  /\ \A s \in Stages : WF_vars(Sampler(s) /\ UNCHANGED pageVars)
  /\ \A f \in Summary : WF_vars(Summarizer(f) /\ UNCHANGED pageVars)
  /\ WF_vars(Read) /\ WF_vars(ApplyJob)

FairSpec == Spec /\ Fairness
================================================================================
