------------------------------ MODULE LocalModel ------------------------------
(***************************************************************************)
(* Summarizer::load: the server reads the back ends it is configured with, *)
(* finds or downloads llama-server, starts it and polls its port until it  *)
(* answers, exits or is too late, and goes on with whatever there is.      *)
(*                                                                         *)
(* The server may be killed at any point and started again.  Its child is  *)
(* killed by Drop only, which a killed server does not run: a llama-server *)
(* may outlive it and still hold the port.  So may the child of a load     *)
(* that returns on a failed call about it: only what Drop owns is killed,  *)
(* and dropping a Child is no kill.                                        *)
(***************************************************************************)
EXTENDS Naturals, FiniteSets, Sequences

CONSTANTS
  Configs,  \* what MK_OPENAI_SERVERS may hold, a sequence of entries
  LABEL,    \* the label of the local back end
  MaxRuns   \* starts of the server at most

\* An entry of MK_OPENAI_SERVERS: whether it has a URL, whether the variable its key
\* comes from is set (or it needs none), and whether it has a label and a model.
ServerEntry ==
  [label : STRING, kind : {"openai", "opencode"}, base_url : BOOLEAN,
   key : {"none", "set", "unset"}, primary : BOOLEAN, named : BOOLEAN]

ASSUME ModelAssumption ==
  /\ Configs \subseteq Seq(ServerEntry)
  /\ LABEL \in STRING
  /\ MaxRuns \in Nat

VARIABLES
  servers,   \* MK_OPENAI_SERVERS
  override,  \* MK_LLAMA_SERVER or PATH: "found", "missing" or "none"
  disabled,  \* MK_LLAMA_DISABLE
  run,       \* which start of the server this is
  at,        \* where load is; "off" when the server is down
  backends,  \* the back ends assembled so far
  cache,     \* the unpacked release: "none", "partial" or "whole"
  proc,      \* the llama-server of each start
  abandoned, \* load gave up its llama-server because a call about it failed
  overdue    \* READY_TIMEOUT has passed

env == <<servers, override, disabled>>
vars == <<servers, override, disabled, run, at, backends, cache, proc, abandoned, overdue>>

Runs == 1..MaxRuns
Alive == {"starting", "serving"}

------------------------------------------------------------------------------
(* The configured back ends.                                               *)

\* An entry names its label and model, a base_url unless its kind needs none, and a
\* variable that holds its key, if any.
Usable(e) == e.named /\ (e.kind = "opencode" \/ e.base_url) /\ e.key # "unset"

\* An entry that lacks something is skipped.
parse_servers(entries) ==
  LET kept[n \in 0..Len(entries)] ==
        IF n = 0 THEN <<>>
        ELSE IF Usable(entries[n])
               THEN Append(kept[n - 1],
                           [label |-> entries[n].label, primary |-> entries[n].primary])
             ELSE kept[n - 1]
  IN  kept[Len(entries)]

\* The first back end is the primary if none is configured to be.
WithPrimary(bs) ==
  IF \E i \in DOMAIN bs : bs[i].primary THEN bs ELSE [bs EXCEPT ![1].primary = TRUE]

------------------------------------------------------------------------------

Init ==
  /\ servers \in Configs /\ override \in {"found", "missing", "none"} /\ disabled \in BOOLEAN
  /\ run = 0 /\ at = "off" /\ backends = <<>> /\ cache = "none"
  /\ proc = [r \in Runs |-> "none"] /\ abandoned = FALSE /\ overdue = FALSE

\* load needs an HTTP client of its own before it reads the configuration.
Start ==
  /\ at = "off" /\ run < MaxRuns
  /\ \/ at' = "no_client" /\ backends' = <<>>
     \/ at' = (IF disabled THEN "unavailable" ELSE "resolve") /\ backends' = parse_servers(servers)
  /\ run' = run + 1 /\ abandoned' = FALSE /\ overdue' = FALSE
  /\ UNCHANGED <<env, cache, proc>>

Goto(from, to) == at = from /\ at' = to

\* resolve_binary: whatever an earlier load unpacked is reused.
Resolve ==
  /\ Goto("resolve", CASE override = "found" -> "spawn"
                       [] override = "missing" -> "unavailable"
                       [] OTHER -> IF cache = "none" THEN "download" ELSE "spawn")
  /\ UNCHANGED <<env, run, backends, cache, proc, abandoned, overdue>>

\* The release is looked up and fetched, or is not.
Download ==
  /\ Goto("download", "unpack") \/ Goto("download", "unavailable")
  /\ UNCHANGED <<env, run, backends, cache, proc, abandoned, overdue>>

\* tar writes file after file.
UnpackSome ==
  /\ at = "unpack" /\ cache = "none" /\ cache' = "partial"
  /\ UNCHANGED <<env, run, at, backends, proc, abandoned, overdue>>

Unpacked ==
  /\ \/ cache = "partial" /\ cache' = "whole" /\ Goto("unpack", "spawn")
     \/ UNCHANGED cache /\ Goto("unpack", "unavailable")
  /\ UNCHANGED <<env, run, backends, proc, abandoned, overdue>>

\* The child is not started; or it is, and the client to poll it with is not made.
Spawn ==
  /\ \/ Goto("spawn", "wait") /\ proc' = [proc EXCEPT ![run] = "starting"] /\ UNCHANGED abandoned
     \/ Goto("spawn", "unavailable") /\ UNCHANGED <<proc, abandoned>>
     \/ Goto("spawn", "unavailable") /\ proc' = [proc EXCEPT ![run] = "starting"] /\ abandoned' = TRUE
  /\ UNCHANGED <<env, run, backends, cache, overdue>>

------------------------------------------------------------------------------
(* The processes, and the clock.                                           *)

\* It fetches the model, binds the port, and loads the model; it may take for ever.
Serve(r) ==
  /\ proc[r] = "starting" /\ (override = "found" \/ cache = "whole")
  /\ \A q \in Runs : proc[q] # "serving"
  /\ proc' = [proc EXCEPT ![r] = "serving"]
  /\ UNCHANGED <<env, run, at, backends, cache, abandoned, overdue>>

\* It does not run on this host, finds the port taken, or is killed.
Exit(r) ==
  /\ proc[r] \in Alive
  /\ proc' = [proc EXCEPT ![r] = "exited"]
  /\ UNCHANGED <<env, run, at, backends, cache, abandoned, overdue>>

TooLate ==
  /\ at \in {"wait", "health", "deadline"} /\ ~overdue /\ overdue' = TRUE
  /\ UNCHANGED <<env, run, at, backends, cache, proc, abandoned>>

\* The server is killed; its child may be killed with it.
Crash ==
  /\ at # "off" /\ at' = "off" /\ backends' = <<>>
  /\ proc' \in {proc, [proc EXCEPT ![run] = IF @ \in Alive THEN "exited" ELSE @]}
  /\ UNCHANGED <<env, run, cache, abandoned, overdue>>

------------------------------------------------------------------------------
(* The loop that waits for the child, and what load makes of its outcome.  *)

\* try_wait may fail, which says nothing about the child.
TryWait ==
  /\ \/ Goto("wait", IF proc[run] = "exited" THEN "unavailable" ELSE "health") /\ UNCHANGED abandoned
     \/ Goto("wait", "unavailable") /\ abandoned' = TRUE
  /\ UNCHANGED <<env, run, backends, cache, proc, overdue>>

\* Whoever has the port answers; a request may also time out.
Health ==
  /\ \/ \E r \in Runs : proc[r] = "serving" /\ Goto("health", "available")
     \/ Goto("health", "deadline")
  /\ UNCHANGED <<env, run, backends, cache, proc, abandoned, overdue>>

\* Mutant: the child is not killed when it is too late.
Deadline_Spares ==
  /\ Goto("deadline", IF overdue THEN "unavailable" ELSE "wait")
  /\ UNCHANGED <<env, run, backends, cache, proc, abandoned, overdue>>

\* Mutant: there is no deadline.
Deadline_Never ==
  /\ Goto("deadline", "wait")
  /\ UNCHANGED <<env, run, backends, cache, proc, abandoned, overdue>>

\* A kill that fails is ignored.
Deadline ==
  /\ \/ /\ overdue /\ Goto("deadline", "unavailable")
        /\ \/ proc' = [proc EXCEPT ![run] = "exited"] /\ UNCHANGED abandoned
           \/ abandoned' = TRUE /\ UNCHANGED proc
     \/ ~overdue /\ Goto("deadline", "wait") /\ UNCHANGED <<proc, abandoned>>
  /\ UNCHANGED <<env, run, backends, cache, overdue>>

Available ==
  /\ Goto("available", "warmup")
  /\ backends' = WithPrimary(Append(backends, [label |-> LABEL, primary |-> FALSE]))
  /\ UNCHANGED <<env, run, cache, proc, abandoned, overdue>>

\* Summaries go on with the others if there are any.
Unavailable ==
  /\ \/ backends # <<>> /\ Goto("unavailable", "ready") /\ backends' = WithPrimary(backends)
     \/ backends = <<>> /\ Goto("unavailable", "failed") /\ UNCHANGED backends
  /\ UNCHANGED <<env, run, cache, proc, abandoned, overdue>>

\* A request whose outcome is ignored.
Warmup ==
  /\ Goto("warmup", "ready")
  /\ UNCHANGED <<env, run, backends, cache, proc, abandoned, overdue>>

load ==
  \/ Resolve \/ Download \/ UnpackSome \/ Unpacked \/ Spawn
  \/ TryWait \/ Health \/ Deadline \/ Available \/ Unavailable \/ Warmup

Next == Start \/ Crash \/ load \/ TooLate \/ \E r \in Runs : Serve(r) \/ Exit(r)

Spec == Init /\ [][Next]_vars

\* A thread of its own runs load; downloads, tar and every request have a time limit
\* or are waited for as long as they run.
FairSpec == Spec /\ WF_vars(load) /\ WF_vars(TooLate)

------------------------------------------------------------------------------
(* Correctness.                                                            *)

Returned == at \in {"ready", "failed", "no_client"}
Listed == LABEL \in {backends[i].label : i \in DOMAIN backends}

\* When load goes on without the local back end, the llama-server it had started is
\* not left running, with the memory and the port it has - unless it is a failed
\* try_wait, poll client or kill that made load give it up.
NoChildLeft == ~Listed /\ ~abandoned => proc[run] \notin Alive

\* There is one primary - the configured one if it is usable - unless several are
\* configured to be ("Exactly one primary", summarize.rs:335).
OnePrimary ==
  LET flagged == {i \in DOMAIN servers : Usable(servers[i]) /\ servers[i].primary}
      primaries == {backends[i].label : i \in {j \in DOMAIN backends : backends[j].primary}}
  IN  at = "ready" /\ Cardinality(flagged) <= 1 =>
        Cardinality(primaries) = 1 /\ \A i \in flagged : servers[i].label \in primaries

\* What load leaves when it returns, in whatever order the child, the clock and an
\* older llama-server on the port act: a child it does not use is gone (with the
\* exception above), there is one primary, and load gives summaries up for want of a
\* local back end only if no back end that is configured is usable ("degrade to
\* remote-only rather than disabling summaries entirely", summarize.rs:302-303).
\* Where its own HTTP client cannot be made it gives them up whatever is configured.
LoadedServes ==
  Returned =>
    /\ NoChildLeft /\ OnePrimary
    /\ at = "failed" => \A i \in DOMAIN servers : ~Usable(servers[i])

\* load returns, whatever becomes of the child: one that neither answers nor exits is
\* given up (spawn_local_server).
LoadReturns == \A r \in Runs : run = r ~> Returned \/ at = "off"
================================================================================
