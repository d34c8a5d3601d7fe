--------------------------------- MODULE Text ---------------------------------
(***************************************************************************)
(* The readers of logs and bundles on texts that grow line by line: the    *)
(* kernel log of a job, all its logs, or a bundle.                         *)
(***************************************************************************)
EXTENDS IssueReports, BundleText

CONSTANTS MaxDmesg, MaxLogs, MaxBundle  \* lines of each text at most

VARIABLES
  reading,  \* which text it is: "dmesg", "logs" or "bundle"
  text

vars == <<reading, text>>

NoLogs == [d \in Range(Dirs) |-> [f \in Range(Files) |-> <<>>]]
LinesOf(logs) ==
  MapThenSumSet(LAMBDA p : Len(logs[p[1]][p[2]]), Range(Dirs) \X Range(Files))

Init ==
  \/ reading = "dmesg" /\ text = <<>>
  \/ reading = "logs" /\ text = NoLogs
  \/ reading = "bundle" /\ text = <<>>

KernelLogs ==
  /\ reading = "dmesg" /\ Len(text) < MaxDmesg
  /\ \E l \in {"BUG:", "call_trace", "end_trace", "bar", "quiet"} : text' = Append(text, l)
  /\ UNCHANGED reading

JobLogs ==
  /\ reading = "logs" /\ LinesOf(text) < MaxLogs
  /\ \E d \in Range(Dirs), f \in Range(Files), l \in {"BUG:", "call_trace", "panic", "hit", "quiet"} :
       text' = [text EXCEPT ![d][f] = Append(@, l)]
  /\ UNCHANGED reading

BundleGrows ==
  /\ reading = "bundle" /\ Len(text) < MaxBundle
  /\ \E l \in BundleLines : text' = Append(text, l)
  /\ UNCHANGED reading

Next == KernelLogs \/ JobLogs \/ BundleGrows

Spec == Init /\ [][Next]_vars

------------------------------------------------------------------------------
(* Correctness.                                                            *)

\* Every BUG line of the kernel log is in exactly one report; a report is a run of
\* lines that begins with one, holds an end mark only as its last line, and shows
\* no line of the call stack or after it (dmesg_reports).
ReportsCover ==
  reading = "dmesg" =>
    LET reports == dmesg_reports(text)
        lines(r) == Range(r.head \o r.trace)
    IN  /\ \A i \in DOMAIN text : text[i] = "BUG:" =>
             Cardinality({k \in DOMAIN reports : i \in lines(reports[k])}) = 1
        /\ \A k \in DOMAIN reports : LET ls == lines(reports[k]) IN
             /\ ls = Min(ls)..Max(ls) /\ Cardinality(ls) <= ReportCap
             /\ text[Min(ls)] = "BUG:" /\ Min(ls) = reports[k].head[1]
             /\ \A i \in ls : text[i] \in Closing => i = Max(ls)
             /\ \A i \in Range(reports[k].head) : text[i] # "call_trace"

\* The lines of which somebody should hear.
Alarming(file, l) ==
  \/ l = "BUG:"
  \/ file # "dmesg.log" /\ l \in {"call_trace", "Error"}
  \/ file \in Range(Watched) /\ l \in {"panic", "hit"}

\* The model is told that nothing was found if and only if no log of the job or of
\* its variants has a suspicious line ("it previously looked for a lines key that
\* shape never has, so it always reported no errors", summarize.rs:1119-1120), and
\* a match of the bundle's own patterns in the job's logs comes first, however
\* little of the rest fits.
PromptTells ==
  reading = "logs" =>
    LET told == curate_issues(collect_issues(text)) IN
    /\ told = <<>> <=>
         \A d \in Range(Dirs), f \in Range(Files) :
           \A i \in DOMAIN text[d][f] : ~Alarming(f, text[d][f][i])
    /\ (\E f \in Range(Watched) : "hit" \in Range(text["job"][f])) => told[1].line = "hit"

\* No line of backticks alone is shorter than the fence it is in: one of four
\* backticks may hold those that name what follows, not those that close them.
NoShorterFence(b) ==
  \A i \in DOMAIN b : Bare(b[i]) => Ticks(b[i]) >= OpenFence(b)[i - 1]

\* The first two rules outside fences, with nothing but keys between them.
LeadingBlock(b, a, c) ==
  /\ a < c /\ b[a] = "rule" /\ b[c] = "rule" /\ a \notin RunnerCode(b)
  /\ \A i \in (a + 1)..(c - 1) : b[i] \in KeyValue
  /\ \A i \in 1..(a - 1) : b[i] = "rule" => i \in RunnerCode(b)

\* In a bundle in which no fence holds a shorter one the server and the pipeline take
\* the same lines for code.  Of a block that leads such a bundle the server has every
\* pattern (watched_patterns "mirrors the reproducer spec", main.rs:535), and the
\* pipeline every key of its own, if it has one: a block of patterns alone is
\* metadata to the server only, and the pipeline looks on behind it.  The prompt has
\* what is not code to the pipeline, if lines that name something only open fences.
ReadersAgree ==
  reading = "bundle" =>
    /\ NoShorterFence(text) =>
         /\ WatchedCode(text) = RunnerCode(text)
         /\ \A a, c \in DOMAIN text : LeadingBlock(text, a, c) =>
              LET keys(k) == {i \in (a + 1)..(c - 1) : text[i] = k} IN
              /\ watched_patterns(text) = keys("pattern")
              /\ keys("meta") # {} => parse_bundle(text) = keys("meta")
              /\ keys("meta") = {} => \A i \in parse_bundle(text) : i > c
    /\ (\A i \in DOMAIN text : Ticks(text[i]) # 0 /\ ~Bare(text[i]) => ~InBlock(text)[i - 1])
         => ProseLines(text) = DOMAIN text \ RunnerCode(text)
================================================================================
