---------------------------- MODULE OpencodeQueue ----------------------------
(***************************************************************************)
(* The visible, serialized queue of `opencode` CLI runs: the ticket, its   *)
(* entry in the list the web page shows, the run mutex, and the attempts   *)
(* made while holding it (generate_opencode, with_retries and              *)
(* opencode_attempt of summarize.rs).                                      *)
(*                                                                         *)
(* Every run is a blocking thread; an action is what it does between two   *)
(* points where another thread, the CLI process or the deadline can come   *)
(* in.  The back-off between two attempts changes no state and is not      *)
(* modelled; job, field and times of an entry are those of its run.        *)
(***************************************************************************)
EXTENDS Naturals, Sequences, FiniteSets

CONSTANTS
  Runs,       \* calls of generate_opencode
  Free,       \* the mutex is not held
  Attempts,   \* OPENCODE_RETRIES + 1
  WaitFails,  \* runs for which try_wait may return an error
  Panics      \* the closure run under the mutex may panic

ASSUME QueueAssumption ==
  /\ Free \notin Runs
  /\ Attempts \in Nat \ {0}
  /\ WaitFails \subseteq Runs
  /\ Panics \in BOOLEAN

VARIABLES
  pc,       \* where each run is
  lock,     \* run_lock: its holder or Free
  entries,  \* the visible list: [run, running] in arrival order
  pinged,   \* the list as it was when the page was last told to refetch
  tries,    \* attempts begun by each run
  child,    \* the CLI process of the current attempt
  live,     \* CLI processes that execute: <<run, attempt>>
  result    \* what generate_opencode returns

vars == <<pc, lock, entries, pinged, tries, child, live, result>>

PC == {"idle", "entered", "blocked", "locked", "marked", "attempt", "polling",
       "returning", "unlocked", "dropped", "gone"}
\* The points at which the list has changed and notify is still to be called.
Unannounced == {"entered", "marked", "dropped"}
\* What the thread does inside ticket.run while it holds the mutex.
Holding == {"locked", "marked", "attempt", "polling", "returning"}

Entry(r, on) == [run |-> r, running |-> on]
Move(r, to) == pc' = [pc EXCEPT ![r] = to]

Init ==
  /\ pc = [r \in Runs |-> "idle"]
  /\ lock = Free
  /\ entries = <<>>
  /\ pinged = <<>>
  /\ tries = [r \in Runs |-> 0]
  /\ child = [r \in Runs |-> "none"]
  /\ live = {}
  /\ result = [r \in Runs |-> "none"]

------------------------------------------------------------------------------
(* The ticket.                                                             *)

\* Register a waiting entry.
Enter(r) ==
  /\ pc[r] = "idle"
  /\ entries' = Append(entries, Entry(r, FALSE))
  /\ Move(r, "entered")
  /\ UNCHANGED <<lock, pinged, tries, child, live, result>>

\* The page refetches the list after the ping, so it sees it as it is now.
Notify(r) ==
  /\ pc[r] \in Unannounced
  /\ pinged' = entries
  /\ Move(r, CASE pc[r] = "entered" -> "blocked"
               [] pc[r] = "marked" -> "attempt"
               [] pc[r] = "dropped" -> "gone")
  /\ UNCHANGED <<lock, entries, tries, child, live, result>>

\* Mutant: a thread goes on without waiting for the mutex.
Lock_Skipped(r) ==
  /\ pc[r] = "blocked"
  /\ lock' = r
  /\ Move(r, "locked")
  /\ UNCHANGED <<entries, pinged, tries, child, live, result>>

\* std's mutex: any waiting thread may be next.  A holder that panicked leaves
\* it poisoned, which into_inner ignores.
Lock(r) ==
  /\ pc[r] = "blocked" /\ lock = Free
  /\ lock' = r
  /\ Move(r, "locked")
  /\ UNCHANGED <<entries, pinged, tries, child, live, result>>

MarkRunning(r) ==
  /\ pc[r] = "locked"
  /\ entries' = [i \in DOMAIN entries |->
       IF entries[i].run = r THEN Entry(r, TRUE) ELSE entries[i]]
  /\ Move(r, "marked")
  /\ UNCHANGED <<lock, pinged, tries, child, live, result>>

------------------------------------------------------------------------------
(* with_retries and opencode_attempt, under the mutex.                     *)

Spawn(r) ==
  /\ pc[r] = "attempt"
  /\ tries' = [tries EXCEPT ![r] = @ + 1]
  /\ child' = [child EXCEPT ![r] = "alive"]
  /\ live' = live \cup {<<r, tries'[r]>>}
  /\ Move(r, "polling")
  /\ UNCHANGED <<lock, entries, pinged, result>>

\* The CLI exits: with an answer, or with a failure or no output.
Exit(r) ==
  /\ child[r] = "alive"
  /\ child' = [child EXCEPT ![r] = "answered"] \/ child' = [child EXCEPT ![r] = "failed"]
  /\ live' = live \ {<<r, tries[r]>>}
  /\ UNCHANGED <<pc, lock, entries, pinged, tries, result>>

\* A process nobody waits for any more exits.
StrayExits(r) ==
  /\ child[r] # "alive" \/ pc[r] # "polling"
  /\ \E n \in 1..tries[r] : <<r, n>> \in live /\ live' = live \ {<<r, n>>}
  /\ UNCHANGED <<pc, lock, entries, pinged, tries, child, result>>

Return(r, what) ==
  /\ result' = [result EXCEPT ![r] = what]
  /\ Move(r, "returning")

Answer(r) ==
  /\ pc[r] = "polling" /\ child[r] = "answered"
  /\ child' = [child EXCEPT ![r] = "none"]
  /\ Return(r, "ok")
  /\ UNCHANGED <<lock, entries, pinged, tries, live>>

\* with_retries after a failed attempt numbered tries[r].
AttemptFailed(r) ==
  IF tries[r] < Attempts THEN Move(r, "attempt") /\ UNCHANGED result ELSE Return(r, "err")

SpawnFails(r) ==
  /\ pc[r] = "attempt"
  /\ tries' = [tries EXCEPT ![r] = @ + 1]
  /\ IF tries'[r] < Attempts THEN UNCHANGED <<pc, result>> ELSE Return(r, "err")
  /\ UNCHANGED <<lock, entries, pinged, child, live>>

\* A bad exit status, a read error or an empty answer.
BadExit(r) ==
  /\ pc[r] = "polling" /\ child[r] = "failed"
  /\ child' = [child EXCEPT ![r] = "none"]
  /\ AttemptFailed(r)
  /\ UNCHANGED <<lock, entries, pinged, tries, live>>

\* Mutant: there is no deadline.
Timeout_Never(r) == FALSE

\* OPENCODE_TIMEOUT passes: SIGKILL, without a wait.
Timeout(r) ==
  /\ pc[r] = "polling" /\ child[r] = "alive"
  /\ child' = [child EXCEPT ![r] = "none"]
  /\ live' = live \ {<<r, tries[r]>>}
  /\ AttemptFailed(r)
  /\ UNCHANGED <<lock, entries, pinged, tries>>

\* `child.try_wait()?` leaves the process running.
WaitError(r) ==
  /\ r \in WaitFails
  /\ pc[r] = "polling" /\ child[r] = "alive"
  /\ child' = [child EXCEPT ![r] = "none"]
  /\ AttemptFailed(r)
  /\ UNCHANGED <<lock, entries, pinged, tries, live>>

\* The answer is handed to on_tok, which may panic: the mutex is released
\* poisoned and the ticket dropped while the thread unwinds.
Panic(r) ==
  /\ Panics
  /\ pc[r] = "polling" /\ child[r] = "answered"
  /\ child' = [child EXCEPT ![r] = "none"]
  /\ Return(r, "panic")
  /\ UNCHANGED <<lock, entries, pinged, tries, live>>

\* The guard, a local of run, goes first ...
Unlock(r) ==
  /\ pc[r] = "returning"
  /\ lock' = Free
  /\ Move(r, "unlocked")
  /\ UNCHANGED <<entries, pinged, tries, child, live, result>>

\* Mutant: nobody is told that the entry is gone.
DropTicket_Silent(r) ==
  /\ pc[r] = "unlocked"
  /\ entries' = SelectSeq(entries, LAMBDA e : e.run # r)
  /\ Move(r, "gone")
  /\ UNCHANGED <<lock, pinged, tries, child, live, result>>

\* ... and the ticket, a local of generate_opencode, goes after it.
DropTicket(r) ==
  /\ pc[r] = "unlocked"
  /\ entries' = SelectSeq(entries, LAMBDA e : e.run # r)
  /\ Move(r, "dropped")
  /\ UNCHANGED <<lock, pinged, tries, child, live, result>>

------------------------------------------------------------------------------
\* Everything the thread of run r does once it called generate_opencode.
Thread(r) ==
  \/ Notify(r) \/ Lock(r) \/ MarkRunning(r)
  \/ Spawn(r) \/ SpawnFails(r) \/ Answer(r) \/ BadExit(r) \/ Timeout(r)
  \/ WaitError(r) \/ Panic(r)
  \/ Unlock(r) \/ DropTicket(r)

Process(r) == Exit(r) \/ StrayExits(r)

AllGone == (\A r \in Runs : pc[r] = "gone") /\ live = {} /\ UNCHANGED vars

Next == (\E r \in Runs : Enter(r) \/ Thread(r) \/ Process(r)) \/ AllGone

\* Threads that can go on do, the poll loop meets its deadline, and a thread
\* waiting for a mutex that is freed again and again gets it in the end: the
\* set of runs is finite, so no newcomer overtakes it for ever.  Nothing is
\* assumed of the CLI: it may hang.
Fairness == \A r \in Runs : WF_vars(Thread(r))

Spec == Init /\ [][Next]_vars
FairSpec == Spec /\ Fairness

------------------------------------------------------------------------------
(* Properties.                                                             *)

\* "Only one opencode CLI executes at a time" (summarize.rs:596), across runs,
\* retries, timeouts and panics: a second process can only be one that a failed
\* try_wait left behind.
OneCLI == \A p, q \in live : {p[1], q[1]} \cap WaitFails = {} => p = q

\* A CLI process that executes belongs to the run that holds the mutex, so the
\* mutex is never handed on while the previous process still runs.
LiveIsHolders ==
  \A p \in live : p[1] \notin WaitFails => lock = p[1] /\ p[2] = tries[p[1]]

\* An error is returned only after every attempt was made, and no attempt is
\* made once one succeeded.
RetriesUsedUp ==
  \A r \in Runs :
    /\ result[r] = "err" => tries[r] = Attempts
    /\ result[r] # "none" => pc[r] \notin {"attempt", "polling"}

\* When the list differs from the one the page was told to fetch last, a thread
\* is about to tell it: a page that follows the pings is never left behind.
PageCatchesUp == pinged = entries \/ \E r \in Runs : pc[r] \in Unannounced

\* Every run that entered the queue leaves it, though CLI processes may hang and
\* earlier runs may panic.
EveryRunReturns == \A r \in Runs : pc[r] = "entered" ~> pc[r] = "gone"
==============================================================================
