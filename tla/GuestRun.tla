------------------------------- MODULE GuestRun -------------------------------
(***************************************************************************)
(* Guests of concurrent jobs on one host.  A job is a run of run-kernel.py *)
(* on a bundle: it builds, boots the kernel under qemu with a host port    *)
(* forwarded to the guest's sshd, copies its files in, loads its module,   *)
(* runs its program and tears the guest down.  A job in compare mode does  *)
(* so for two kernels in two threads.                                      *)
(*                                                                         *)
(* An action is one command or one ssh session; each session connects      *)
(* anew, to whichever guest owns the port then.  Building is KernelTree's. *)
(* Exit codes are 0 or 1, which stands for all others.  A bundle here has  *)
(* a program or an init script: one with modules only runs dmesg in its    *)
(* place, and one with nothing to run dies there.  --keep-running is left  *)
(* out.                                                                    *)
(***************************************************************************)
EXTENDS Naturals

CONSTANTS
  Single, Compare,   \* the jobs, by mode
  WithModule,        \* those whose bundle has a module
  SshPort,           \* --ssh-port, the first port tried
  Ephemeral,         \* what the system assigns when that one is busy
  None,
  Unlucky            \* jobs that may fail anywhere, be killed, and crash their guests

ASSUME GuestAssumption ==
  /\ Single \cap Compare = {}
  /\ WithModule \subseteq Single \cup Compare
  /\ SshPort \in Nat /\ Ephemeral \subseteq Nat
  /\ None \notin Nat
  /\ Unlucky \subseteq Single \cup Compare

Jobs == Single \cup Compare
Variants(j) == IF j \in Compare THEN {"baseline", "patched"} ELSE {"single"}
Boots == {b \in Jobs \X {"single", "baseline", "patched"} : b[2] \in Variants(b[1])}

ASSUME NoneAssumption == \A set \in SUBSET Boots : None # set

\* The one whose exit code is the job's.
Decisive(j) == <<j, IF j \in Compare THEN "patched" ELSE "single">>

VARIABLES
  proc,      \* of a job: "up", "ended" by itself, or "killed"
  said,      \* the last exit code on its MKPROGRESS lines: exit_from_progress
  pc,        \* of a boot: where its build_boot_run is
  port,      \* the port it chose
  rc,        \* what it returns or exits with; None after another exception
  ran,       \* the guest its program ran in, with the state of that guest
  guest,     \* its qemu and the guest in it
  dir,       \* /tmp/mkbundle in that guest: None, or the boots whose files it holds
  exec,      \* those of them whose files are executable
  mods,      \* the boots whose module is loaded there
  disturbed  \* two guests wanted one port, or a qemu exited by itself

jobs == <<proc, said>>
threads == <<pc, port, rc, ran>>
inside == <<dir, exec, mods>>
vars == <<jobs, threads, guest, inside, disturbed>>

Init ==
  /\ proc = [j \in Jobs |-> "up"]
  /\ said = [j \in Jobs |-> None]
  /\ pc = [b \in Boots |-> "begin"]
  /\ port = [b \in Boots |-> None]
  /\ rc = [b \in Boots |-> None]
  /\ ran = [b \in Boots |-> None]
  /\ guest = [b \in Boots |-> "off"]
  /\ dir = [b \in Boots |-> None]
  /\ exec = [b \in Boots |-> {}]
  /\ mods = [b \in Boots |-> {}]
  /\ disturbed = FALSE

------------------------------------------------------------------------------
(* Ports and sessions.                                                     *)

\* qemu has the port from its start to its exit.
Bound(g) == guest[g] \in {"booting", "ready", "wedged", "dead"}
Owners(p) == {g \in Boots : Bound(g) /\ port[g] = p}

\* free_port only probes: nothing keeps the port until qemu takes it.
free_port(preferred) ==
  IF Owners(preferred) = {} THEN {preferred} ELSE {p \in Ephemeral : Owners(p) = {}}

\* A session of b executes its command in such a guest ...
Reached(b) == {g \in Owners(port[b]) : guest[g] = "ready"}
\* ... or fails, by itself after a minute if the guest is dead ...
Missed(b) == Reached(b) = {} \/ b[1] \in Unlucky
\* ... or, when the guest hangs but its sshd answers, does not come back.
Hangs(b) == \E g \in Owners(port[b]) : guest[g] = "wedged"

Files(g) == IF dir[g] = None THEN {} ELSE dir[g]

Go(b, from, to) ==
  /\ pc[b] = from
  /\ pc' = [pc EXCEPT ![b] = to]

\* die(): SystemExit with code 1.
Die(b, from, to) == Go(b, from, to) /\ rc' = [rc EXCEPT ![b] = 1]
\* Any other exception.
Raise(b, from, to) == Go(b, from, to) /\ rc' = [rc EXCEPT ![b] = None] /\ b[1] \in Unlucky

------------------------------------------------------------------------------
(* build_boot_run.                                                         *)

Threaded(b) == b[1] \in Compare
Baseline(b) == <<b[1], "baseline">>

\* Compare mode chooses both ports before it starts the threads, the others
\* just before the boot.
ChoosePort(b) ==
  /\ port[b] = None /\ pc[b] = IF Threaded(b) THEN "begin" ELSE "built"
  /\ b[2] = "patched" => port[Baseline(b)] # None
  /\ \E p \in free_port(IF b[2] = "patched" THEN port[Baseline(b)] + 1 ELSE SshPort) :
       port' = [port EXCEPT ![b] = p]
  /\ UNCHANGED <<jobs, pc, rc, ran, guest, inside, disturbed>>

\* Configure, build, compile the program, the modules and the tools.
Prepare(b) ==
  /\ Threaded(b) => port[<<b[1], "patched">>] # None
  /\ \/ Go(b, "begin", "built") /\ UNCHANGED rc
     \/ b[1] \in Unlucky /\ Die(b, "begin", "over")
     \/ Raise(b, "begin", "over")
  /\ UNCHANGED <<jobs, port, ran, guest, inside, disturbed>>

boot_qemu(b) ==
  /\ port[b] # None
  /\ Go(b, "built", "ssh")
  /\ guest' = [guest EXCEPT ![b] = "starting"]
  /\ disturbed' = (disturbed \/ \E g \in Boots : guest[g] # "off" /\ port[g] = port[b])
  /\ UNCHANGED <<jobs, port, rc, ran, inside>>

\* Mutant: there is no deadline.
wait_for_ssh_Forever(b) ==
  /\ Reached(b) # {} /\ Go(b, "ssh", "clean")
  /\ UNCHANGED <<jobs, port, rc, ran, guest, inside, disturbed>>

\* Mutant: the wait is outside of the try whose finally tears down.
wait_for_ssh_OutsideTry(b) ==
  /\ ~Hangs(b)
  /\ \/ Reached(b) # {} /\ Go(b, "ssh", "clean") /\ UNCHANGED rc
     \/ Die(b, "ssh", "over")
  /\ UNCHANGED <<jobs, port, ran, guest, inside, disturbed>>

\* It asks the port, not qemu, until the deadline.
wait_for_ssh(b) ==
  /\ ~Hangs(b)
  /\ \/ Reached(b) # {} /\ Go(b, "ssh", "clean") /\ UNCHANGED rc
     \/ Die(b, "ssh", "teardown")
  /\ UNCHANGED <<jobs, port, ran, guest, inside, disturbed>>

\* rm -rf and mkdir; the status of the session is not looked at.
Clean(b) ==
  /\ ~Hangs(b)
  /\ Go(b, "clean", "copy")
  /\ \/ \E g \in Reached(b) :
          dir' = [dir EXCEPT ![g] = {}] /\ exec' = [exec EXCEPT ![g] = {}]
     \/ Missed(b) /\ UNCHANGED <<dir, exec>>
  /\ UNCHANGED <<jobs, port, rc, ran, guest, mods, disturbed>>

\* scp needs the directory to be there.
scp_to_guest(b) ==
  /\ ~Hangs(b)
  /\ \/ /\ Go(b, "copy", "chmod")
        /\ \E g \in Reached(b) :
             /\ dir[g] # None
             /\ dir' = [dir EXCEPT ![g] = @ \cup {b}]
             /\ exec' = [exec EXCEPT ![g] = @ \ {b}]
        /\ UNCHANGED rc
     \/ /\ Missed(b) \/ \E g \in Reached(b) : dir[g] = None
        /\ Die(b, "copy", "teardown") /\ UNCHANGED <<dir, exec>>
  /\ UNCHANGED <<jobs, port, ran, guest, mods, disturbed>>

\* Again nobody looks at the status.
Chmod(b) ==
  /\ ~Hangs(b)
  /\ Go(b, "chmod", IF b[1] \in WithModule THEN "insmod" ELSE "run")
  /\ \/ \E g \in Reached(b) : exec' = [exec EXCEPT ![g] = @ \cup ({b} \cap Files(g))]
     \/ Missed(b) /\ UNCHANGED exec
  /\ UNCHANGED <<jobs, port, rc, ran, guest, dir, mods, disturbed>>

\* Mutant: nobody looks at the status of insmod either.
Insmod_Unchecked(b) ==
  /\ ~Hangs(b)
  /\ Go(b, "insmod", "run")
  /\ \/ \E g \in Reached(b) : b \in Files(g) /\ mods' = [mods EXCEPT ![g] = @ \cup {b}]
     \/ Missed(b) /\ UNCHANGED mods
  /\ UNCHANGED <<jobs, port, rc, ran, guest, dir, exec, disturbed>>

Insmod(b) ==
  /\ ~Hangs(b)
  /\ \/ /\ Go(b, "insmod", "run")
        /\ \E g \in Reached(b) : b \in Files(g) /\ mods' = [mods EXCEPT ![g] = @ \cup {b}]
        /\ UNCHANGED rc
     \/ /\ Missed(b) \/ \E g \in Reached(b) : b \notin Files(g)
        /\ Die(b, "insmod", "teardown") /\ UNCHANGED mods
  /\ UNCHANGED <<jobs, port, ran, guest, dir, exec, disturbed>>

\* exec.log is opened and the program started, if the session gets through.
StartRun(b) ==
  /\ \/ /\ Go(b, "run", "running") /\ UNCHANGED rc
        /\ \/ \E g \in Reached(b) : ran' = [ran EXCEPT ![b] =
                [guest |-> g, files |-> Files(g), exec |-> exec[g], mods |-> mods[g]]]
           \/ Missed(b) /\ UNCHANGED ran
     \/ Raise(b, "run", "teardown") /\ UNCHANGED ran
  /\ UNCHANGED <<jobs, port, guest, inside, disturbed>>

\* It returned 0, or something else, the session broke, or 15 minutes are over.
EndRun(b) ==
  /\ Go(b, "running", "dmesg")
  /\ \E code \in {0, 1} :
       /\ code = 0 => ran[b] # None /\ b \in ran[b].exec /\ guest[ran[b].guest] = "ready"
       /\ rc' = [rc EXCEPT ![b] = code]
  /\ UNCHANGED <<jobs, port, ran, guest, inside, disturbed>>

\* Mutant: dmesg has no time limit.
Report_Untimed(b) ==
  /\ ~Hangs(b)
  /\ \/ Go(b, "dmesg", "teardown") /\ UNCHANGED rc
        /\ said' = [said EXCEPT ![b[1]] = rc[b]]
     \/ Raise(b, "dmesg", "teardown") /\ UNCHANGED said
  /\ UNCHANGED <<proc, port, ran, guest, inside, disturbed>>

\* dmesg, for 30 seconds at most, and the "done" line.
Report(b) ==
  /\ \/ Go(b, "dmesg", "teardown") /\ UNCHANGED rc
        /\ said' = [said EXCEPT ![b[1]] = rc[b]]
     \/ Raise(b, "dmesg", "teardown") /\ UNCHANGED said
  /\ UNCHANGED <<proc, port, ran, guest, inside, disturbed>>

\* finally: terminate qemu, kill it after 10 seconds.
teardown(b) ==
  /\ Go(b, "teardown", "over")
  /\ guest' = [guest EXCEPT ![b] = "off"]
  /\ UNCHANGED <<jobs, port, rc, ran, inside, disturbed>>

------------------------------------------------------------------------------
(* The process.                                                            *)

Over(j) == \A v \in Variants(j) : pc[<<j, v>>] = "over"

\* Mutant: in compare mode the variants' own lines are the last.
End_NoLastLine(j) ==
  /\ proc[j] = "up" /\ Over(j)
  /\ proc' = [proc EXCEPT ![j] = "ended"]
  /\ UNCHANGED <<said, threads, guest, inside, disturbed>>

\* run_bundle returns; in compare mode after both threads were joined and with
\* a last "done" line, in which a variant without a result counts as 1.
End(j) ==
  /\ proc[j] = "up" /\ Over(j)
  /\ proc' = [proc EXCEPT ![j] = "ended"]
  /\ said' = IF j \in Compare
               THEN [said EXCEPT ![j] = IF rc[Decisive(j)] = None THEN 1 ELSE rc[Decisive(j)]]
               ELSE said
  /\ UNCHANGED <<threads, guest, inside, disturbed>>

\* The process is killed, and its guests live on.
Kill(j) ==
  /\ j \in Unlucky /\ proc[j] = "up"
  /\ proc' = [proc EXCEPT ![j] = "killed"]
  /\ pc' = [b \in Boots |-> IF b[1] = j THEN "over" ELSE pc[b]]
  /\ UNCHANGED <<said, port, rc, ran, guest, inside, disturbed>>

------------------------------------------------------------------------------
(* qemu and the kernel under test.                                         *)

\* qemu exits when it cannot have the port.
Bind(g) ==
  /\ guest[g] = "starting"
  /\ guest' = [guest EXCEPT ![g] = IF Owners(port[g]) = {} THEN "booting" ELSE "off"]
  /\ UNCHANGED <<jobs, threads, inside, disturbed>>

Becomes(g, from, to) ==
  /\ guest[g] \in from
  /\ guest' = [guest EXCEPT ![g] = to]
  /\ UNCHANGED <<jobs, threads, inside>>

ComesUp(g) == Becomes(g, {"booting"}, "ready") /\ UNCHANGED disturbed
Wedges(g) == g[1] \in Unlucky /\ Becomes(g, {"ready"}, "wedged") /\ UNCHANGED disturbed
Panics(g) == g[1] \in Unlucky /\ Becomes(g, {"ready", "wedged"}, "dead") /\ UNCHANGED disturbed
QemuExits(g) ==
  /\ g[1] \in Unlucky
  /\ Becomes(g, {"booting", "ready", "wedged", "dead"}, "off")
  /\ disturbed' = TRUE

------------------------------------------------------------------------------
Thread(b) ==
  \/ ChoosePort(b) \/ Prepare(b) \/ boot_qemu(b) \/ wait_for_ssh(b) \/ Clean(b)
  \/ scp_to_guest(b) \/ Chmod(b) \/ Insmod(b) \/ StartRun(b) \/ EndRun(b)
  \/ Report(b) \/ teardown(b)

Machine(g) == Bind(g) \/ ComesUp(g) \/ Wedges(g) \/ Panics(g) \/ QemuExits(g)

Next ==
  \/ \E b \in Boots : Thread(b) \/ Machine(b)
  \/ \E j \in Jobs : End(j) \/ Kill(j)

\* Threads go on, and so does a session that is answered; builds end.  Nothing
\* is assumed of guests.
Fairness ==
  /\ \A b \in Boots : WF_vars(Thread(b))
  /\ \A j \in Jobs : WF_vars(End(j))

Spec == Init /\ [][Next]_vars
FairSpec == Spec /\ Fairness

------------------------------------------------------------------------------
(* Properties.                                                             *)

\* Every variable has its type.
TypeOK ==
  /\ proc \in [Jobs -> {"up", "ended", "killed"}]
  /\ said \in [Jobs -> {None, 0, 1}]
  /\ pc \in [Boots -> {"begin", "built", "ssh", "clean", "copy", "chmod", "insmod", "run",
                      "running", "dmesg", "teardown", "over"}]
  /\ port \in [Boots -> Nat \cup {None}]
  /\ rc \in [Boots -> {None, 0, 1}]
  /\ ran \in [Boots -> {None} \cup [guest : Boots, files : SUBSET Boots,
                                   exec : SUBSET Boots, mods : SUBSET Boots]]
  /\ guest \in [Boots -> {"off", "starting", "booting", "ready", "wedged", "dead"}]
  /\ dir \in [Boots -> {None} \cup SUBSET Boots]
  /\ exec \in [Boots -> SUBSET Boots]
  /\ mods \in [Boots -> SUBSET Boots]
  /\ disturbed \in BOOLEAN

\* Whichever way a variant ends (die, another exception, a result), no guest of
\* a process that ended by itself is left running (the finally of
\* build_boot_run, entered once qemu is started).
NoGuestLeft ==
  \A j \in Jobs : proc[j] = "ended" => \A v \in Variants(j) : guest[<<j, v>>] = "off"

\* In whatever order the threads of compare mode report, die or raise, the exit
\* code the server keeps is 0 exactly if the patched variant's program returned
\* 0 ("authoritative final line; overall exit = patched", run-kernel.py:989).
VerdictIsPatched ==
  \A j \in Jobs : proc[j] = "ended" => (said[j] = 0 <=> rc[Decisive(j)] = 0)

\* As long as guests do not meet at a port, a program only runs in its own
\* guest, with its own files, of which nobody else's are a part, and with its
\* module loaded, although the status of some sessions is not looked at.
RunIsIntact ==
  ~disturbed => \A b \in Boots : ran[b] # None =>
    /\ ran[b].guest = b /\ ran[b].files = {b}
    /\ ran[b].mods = IF b[1] \in WithModule THEN {b} ELSE {}

\* The host-side time limits "let the run finalize instead of hanging forever"
\* (guestlib.py:109): once the program is started, the variant ends, whatever
\* becomes of the guest.
RunEnds == \A b \in Boots : pc[b] = "running" ~> pc[b] = "over"

\* As long as no guest hangs with its sshd alive, every process ends, also when
\* guests never come up, panic or exit, or a variant dies.
EndsUnlessWedged ==
  [](\A g \in Boots : guest[g] # "wedged") => \A j \in Jobs : proc[j] = "up" ~> proc[j] # "up"

\* "tiny TOCTOU window -- a clash just fails that boot, not silently"
\* (run-kernel.py:967): a program never runs in a guest that was booted for
\* another.
OwnGuest == \A b \in Boots : ran[b] # None => ran[b].guest = b
==============================================================================
