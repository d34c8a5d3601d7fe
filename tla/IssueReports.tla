----------------------------- MODULE IssueReports -----------------------------
(***************************************************************************)
(* What the server reads out of a job's logs: dmesg_reports cuts the       *)
(* kernel log into BUG reports, collect_issues gathers them with the       *)
(* suspicious lines of the other logs, and curate_issues makes of that     *)
(* what the model that writes the result summary is told.                  *)
(*                                                                         *)
(* A log is a sequence of lines, a line the name of what it contains.      *)
(***************************************************************************)
EXTENDS Integers, FiniteSetsExt, SequencesExt

CONSTANTS
  ReportCap,  \* lines of a report at most (80 in the code)
  PromptCap   \* lines of the prompt at most (40)

ASSUME ReportsAssumption == ReportCap \in Nat \ {0} /\ PromptCap \in Nat \ {0}

\* "hit" matches a pattern the bundle declares, and nothing else.
Lines == {"BUG:", "call_trace", "end_trace", "bar", "panic", "Error", "hit", "quiet"}
Closing == {"end_trace", "bar"}
General == {"BUG:", "call_trace", "panic", "Error"}

------------------------------------------------------------------------------
(* dmesg_reports.                                                          *)

\* One past the last line of the report that begins at i: after its end mark, or
\* the cap, or the log.
ReportEnd(log, i) ==
  LET cap == Min({i + ReportCap, Len(log) + 1})
      marks == {j \in (i + 1)..(cap - 1) : log[j] \in Closing}
  IN  IF marks = {} THEN cap ELSE Min(marks) + 1

\* The call stack onward is folded away.
Report(log, i) ==
  LET end == ReportEnd(log, i)
      stack == {j \in i..(end - 1) : log[j] = "call_trace"}
      split == IF stack = {} THEN end ELSE Min(stack)
  IN  [head |-> [k \in 1..(split - i) |-> i + k - 1],
       trace |-> [k \in 1..(end - split) |-> split + k - 1]]

\* Mutant: the scan goes on one line past the end of a report.
dmesg_reports_Skips(log) ==
  LET from[i \in 1..(Len(log) + 2)] ==
        IF i > Len(log) THEN <<>>
        ELSE IF log[i] = "BUG:" THEN <<Report(log, i)>> \o from[ReportEnd(log, i) + 1]
        ELSE from[i + 1]
  IN  from[1]

\* Lines are given by their numbers.
dmesg_reports(log) ==
  LET from[i \in 1..(Len(log) + 1)] ==
        IF i > Len(log) THEN <<>>
        ELSE IF log[i] = "BUG:" THEN <<Report(log, i)>> \o from[ReportEnd(log, i)]
        ELSE from[i + 1]
  IN  from[1]

------------------------------------------------------------------------------
(* collect_issues.  logs[dir][file] is a log, empty when there is no such  *)
(* file; dir is the job's own or that of a variant.                        *)

\* fetch.log and run.log are read as console.log is, and left out.
Dirs == <<"job", "baseline", "patched">>
Files == <<"console.log", "dmesg.log", "exec.log", "compile.log">>
Watched == <<"console.log", "exec.log">>

\* Those lines of a log that are in T.
Those(log, T) == FlattenSeq([i \in DOMAIN log |-> IF log[i] \in T THEN <<log[i]>> ELSE <<>>])

\* The kernel's sources are full of panic().
Hits(file, log) == Those(log, IF file = "compile.log" THEN General \ {"panic"} ELSE General)

Block(head) == IF head = <<>> THEN <<>> ELSE <<head>>
Heads(log) == [r \in DOMAIN dmesg_reports(log) |->
                 [k \in DOMAIN dmesg_reports(log)[r].head |-> log[dmesg_reports(log)[r].head[k]]]]

\* A section with nothing to show is left out.
Section(file, blocks) == IF blocks = <<>> THEN <<>> ELSE <<[file |-> file, blocks |-> blocks]>>

\* The sections of one directory: what the bundle watches for first.
scan_issue_dir(dir, logs) ==
  LET watched(f) == Section(<<dir, f, "watched">>, Block(Those(logs[dir][f], {"hit"})))
      general(f) == Section(<<dir, f>>, IF f = "dmesg.log" THEN Heads(logs[dir][f])
                                        ELSE Block(Hits(f, logs[dir][f])))
  IN  FlattenSeq([i \in DOMAIN Watched |-> watched(Watched[i])])
        \o FlattenSeq([i \in DOMAIN Files |-> general(Files[i])])

\* Mutant: only the job's own directory is scanned.
collect_issues_TopOnly(logs) == scan_issue_dir("job", logs)

collect_issues(logs) == FlattenSeq([d \in DOMAIN Dirs |-> scan_issue_dir(Dirs[d], logs)])

\* Every line of a head with its file; <<>> stands for the note that no errors or
\* reports were found.
curate_issues(sections) ==
  LET tagged(s) == FlattenSeq([b \in DOMAIN s.blocks |->
                     [k \in DOMAIN s.blocks[b] |-> [file |-> s.file, line |-> s.blocks[b][k]]]])
      all == FlattenSeq([i \in DOMAIN sections |-> tagged(sections[i])])
  IN  SubSeq(all, 1, Min({PromptCap, Len(all)}))
================================================================================
