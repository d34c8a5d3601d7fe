---------------------------- MODULE GuestRun_proofs ----------------------------
(***************************************************************************)
(* For any number of jobs and ports, whatever fails: no guest is left      *)
(* behind, the verdict is the patched variant's, and guests that do not    *)
(* meet at a port are not mixed up.                                        *)
(***************************************************************************)
EXTENDS GuestRun, TLAPS

\* A boot is one of the variants of its job, and a job that does not compare
\* has one boot.
LEMMA BootFacts ==
  /\ \A b \in Boots : b[1] \in Jobs /\ b[2] \in Variants(b[1]) /\ b = <<b[1], b[2]>>
  /\ \A b \in Boots : b[1] \in Single => b = Decisive(b[1])
  /\ \A j \in Jobs : Decisive(j) \in Boots /\ Decisive(j)[1] = j
                       /\ \A v \in Variants(j) : <<j, v>> \in Boots /\ <<j, v>>[1] = j
<1> USE GuestAssumption DEF Boots, Jobs, Variants, Decisive
<1>1. ASSUME NEW b \in Boots PROVE b[1] \in Jobs /\ b[2] \in Variants(b[1]) /\ b = <<b[1], b[2]>>
  OBVIOUS
<1>2. ASSUME NEW b \in Boots, b[1] \in Single PROVE b = Decisive(b[1])
  BY <1>1, <1>2
<1>3. ASSUME NEW j \in Jobs PROVE Decisive(j) \in Boots /\ Decisive(j)[1] = j
  OBVIOUS
<1>4. ASSUME NEW j \in Jobs, NEW v \in Variants(j) PROVE <<j, v>> \in Boots /\ <<j, v>>[1] = j
  OBVIOUS
<1> QED
  BY <1>1, <1>2, <1>3, <1>4

LEMMA NoneIsNoCode == None # 0 /\ None # 1
  BY GuestAssumption

LEMMA InitTypes == Init => TypeOK
<1> SUFFICES ASSUME Init PROVE TypeOK
  OBVIOUS
<1> USE DEF Init
<1>1. proc \in [Jobs -> {"up", "ended", "killed"}] /\ said \in [Jobs -> {None, 0, 1}]
  OBVIOUS
<1>2. pc \in [Boots -> {"begin", "built", "ssh", "clean", "copy", "chmod", "insmod", "run",
                      "running", "dmesg", "teardown", "over"}]
  OBVIOUS
<1>3. port \in [Boots -> Nat \cup {None}] /\ rc \in [Boots -> {None, 0, 1}]
  OBVIOUS
<1>4. ran \in [Boots -> {None} \cup [guest : Boots, files : SUBSET Boots,
                                   exec : SUBSET Boots, mods : SUBSET Boots]]
  OBVIOUS
<1>5. guest \in [Boots -> {"off", "starting", "booting", "ready", "wedged", "dead"}]
  OBVIOUS
<1>6. dir \in [Boots -> {None} \cup SUBSET Boots] /\ disturbed \in BOOLEAN
  OBVIOUS
<1>7. exec \in [Boots -> SUBSET Boots] /\ mods \in [Boots -> SUBSET Boots]
  OBVIOUS
<1> QED
  BY <1>1, <1>2, <1>3, <1>4, <1>5, <1>6, <1>7 DEF TypeOK

\* What free_port returns is a port.
LEMMA FreePortType ==
  ASSUME NEW q \in Nat, NEW p \in free_port(q) PROVE p \in Nat
  BY GuestAssumption DEF free_port

\* Every step keeps the types.
LEMMA TypeStep == TypeOK /\ [Next]_vars => TypeOK'
<1> SUFFICES ASSUME TypeOK, [Next]_vars PROVE TypeOK'
  OBVIOUS
<1> USE NoneIsNoCode DEF TypeOK, jobs, threads, inside
<1>1. CASE UNCHANGED vars
  BY <1>1 DEF vars
<1>2. ASSUME NEW b \in Boots, Thread(b) PROVE TypeOK'
  <2>0. b[1] \in Jobs
    BY BootFacts
  <2>1. CASE ChoosePort(b)
    <3> DEFINE q == IF b[2] = "patched" THEN port[Baseline(b)] + 1 ELSE SshPort
    <3>1. q \in Nat
      <4>1. CASE b[2] = "patched"
        <5>1. Baseline(b) \in Boots
          BY <4>1, BootFacts DEF Baseline, Variants
        <5>2. port[Baseline(b)] \in Nat
          BY <2>1, <4>1, <5>1 DEF ChoosePort
        <5> QED
          BY <4>1, <5>2
      <4> QED
        BY <4>1, GuestAssumption
    <3>2. PICK p \in free_port(q) : port' = [port EXCEPT ![b] = p]
      BY <2>1 DEF ChoosePort
    <3>3. p \in Nat
      BY <3>1, FreePortType
    <3> QED
      BY <2>1, <3>2, <3>3 DEF ChoosePort
  <2>2. CASE Prepare(b)
    BY <2>2 DEF Prepare, Go, Die, Raise
  <2>3. CASE boot_qemu(b)
    BY <2>3 DEF boot_qemu, Go
  <2>4. CASE wait_for_ssh(b)
    BY <2>4 DEF wait_for_ssh, Go, Die
  <2>5. CASE Clean(b)
    BY <2>5 DEF Clean, Go
  <2>6. CASE scp_to_guest(b)
    BY <2>6 DEF scp_to_guest, Go, Die
  <2>7. CASE Chmod(b)
    BY <2>7 DEF Chmod, Go
  <2>8. CASE Insmod(b)
    BY <2>8 DEF Insmod, Go, Die
  <2>9. CASE StartRun(b)
    <3>1. ASSUME NEW g \in Boots
          PROVE  [guest |-> g, files |-> Files(g), exec |-> exec[g], mods |-> mods[g]]
                   \in [guest : Boots, files : SUBSET Boots, exec : SUBSET Boots, mods : SUBSET Boots]
      BY DEF Files
    <3>2. \/ UNCHANGED ran
          \/ \E g \in Boots : ran' = [ran EXCEPT ![b] =
               [guest |-> g, files |-> Files(g), exec |-> exec[g], mods |-> mods[g]]]
      BY <2>9 DEF StartRun, Reached, Owners
    <3>3. ran' \in [Boots -> {None} \cup [guest : Boots, files : SUBSET Boots,
                                        exec : SUBSET Boots, mods : SUBSET Boots]]
      BY <3>1, <3>2
    <3> QED
      BY <2>9, <3>3 DEF StartRun, Go, Raise
  <2>10. CASE EndRun(b)
    BY <2>10 DEF EndRun, Go
  <2>11. CASE Report(b)
    BY <2>0, <2>11 DEF Report, Go, Raise
  <2>12. CASE teardown(b)
    BY <2>12 DEF teardown, Go
  <2> QED
    BY <1>2, <2>1, <2>2, <2>3, <2>4, <2>5, <2>6, <2>7, <2>8, <2>9, <2>10, <2>11, <2>12 DEF Thread
<1>3. ASSUME NEW g \in Boots, Machine(g) PROVE TypeOK'
  BY <1>3 DEF Machine, Bind, Becomes, ComesUp, Wedges, Panics, QemuExits
<1>4. ASSUME NEW j \in Jobs, End(j) PROVE TypeOK'
  BY <1>4, BootFacts DEF End
<1>5. ASSUME NEW j \in Jobs, Kill(j) PROVE TypeOK'
  BY <1>5 DEF Kill
<1> QED
  BY <1>1, <1>2, <1>3, <1>4, <1>5 DEF Next

------------------------------------------------------------------------------
(* Ends: guests and verdicts.                                              *)

\* A guest exists from its boot to its teardown only, unless its process was
\* killed.
Torn ==
  \A b \in Boots :
    pc[b] \in {"begin", "built"} \/ (pc[b] = "over" /\ proc[b[1]] # "killed") => guest[b] = "off"

\* A process ends when its boots are over.
EndedOver == \A b \in Boots : proc[b[1]] = "ended" => pc[b] = "over"

\* A single job says nothing until its boot tears down; from then on, and in
\* compare mode from the end on, what it said agrees with the decisive boot.
Verdict ==
  \A j \in Jobs : proc[j] # "killed" =>
    LET d == Decisive(j) IN
    /\ j \in Single /\ pc[d] \notin {"teardown", "over"} => said[j] = None
    /\ (j \in Single /\ pc[d] \in {"teardown", "over"}) \/ proc[j] = "ended"
         => (said[j] = 0 <=> rc[d] = 0)

EndInv == TypeOK /\ Torn /\ EndedOver /\ Verdict

LEMMA InitEndInv == Init => EndInv
<1> SUFFICES ASSUME Init PROVE Torn /\ EndedOver /\ Verdict
  BY InitTypes DEF EndInv
<1> QED
  BY BootFacts, NoneIsNoCode DEF Init, Torn, EndedOver, Verdict

\* A step of a boot leaves the processes as they are, so it only has to be
\* looked at for that boot and for what its job said.
LEMMA ThreadEnds ==
  ASSUME EndInv, TypeOK', NEW b \in Boots, Thread(b)
  PROVE  EndInv'
<1> USE NoneIsNoCode DEF EndInv, TypeOK, Torn, EndedOver, Verdict, jobs, threads, inside
<1>0. /\ b[1] \in Jobs /\ proc' = proc
      /\ \A j \in Jobs : Decisive(j) \in Boots /\ Decisive(j)[1] = j
      /\ b[1] \in Single => b = Decisive(b[1])
  BY BootFacts DEF Thread, ChoosePort, Prepare, boot_qemu, wait_for_ssh, Clean, scp_to_guest,
     Chmod, Insmod, StartRun, EndRun, Report, teardown
<1>1. CASE ChoosePort(b)
  BY <1>0, <1>1 DEF ChoosePort
<1>2. CASE Prepare(b)
  BY <1>0, <1>2 DEF Prepare, Go, Die, Raise
<1>3. CASE boot_qemu(b)
  BY <1>0, <1>3 DEF boot_qemu, Go
<1>4. CASE wait_for_ssh(b)
  BY <1>0, <1>4 DEF wait_for_ssh, Go, Die
<1>5. CASE Clean(b)
  BY <1>0, <1>5 DEF Clean, Go
<1>6. CASE scp_to_guest(b)
  BY <1>0, <1>6 DEF scp_to_guest, Go, Die
<1>7. CASE Chmod(b)
  BY <1>0, <1>7 DEF Chmod, Go
<1>8. CASE Insmod(b)
  BY <1>0, <1>8 DEF Insmod, Go, Die
<1>9. CASE StartRun(b)
  BY <1>0, <1>9 DEF StartRun, Go, Raise
<1>10. CASE EndRun(b)
  BY <1>0, <1>10 DEF EndRun, Go
<1>11. CASE Report(b)
  BY <1>0, <1>11 DEF Report, Go, Raise
<1>12. CASE teardown(b)
  BY <1>0, <1>12 DEF teardown, Go
<1> QED
  BY <1>1, <1>2, <1>3, <1>4, <1>5, <1>6, <1>7, <1>8, <1>9, <1>10, <1>11, <1>12 DEF Thread

LEMMA StepEndInv == EndInv /\ [Next]_vars => EndInv'
<1> SUFFICES ASSUME EndInv, [Next]_vars PROVE EndInv'
  OBVIOUS
<1>0. TypeOK'
  BY TypeStep DEF EndInv
<1>1. CASE UNCHANGED vars
  BY <1>1 DEF vars, jobs, threads, inside, EndInv, TypeOK, Torn, EndedOver, Verdict
<1>2. ASSUME NEW b \in Boots, Thread(b) PROVE EndInv'
  BY <1>0, <1>2, ThreadEnds
<1>3. ASSUME NEW g \in Boots, Machine(g) PROVE EndInv'
  BY <1>0, <1>3 DEF Machine, Bind, Becomes, ComesUp, Wedges, Panics, QemuExits,
     EndInv, TypeOK, Torn, EndedOver, Verdict, jobs, threads, inside
<1>4. ASSUME NEW j \in Jobs, End(j) PROVE EndInv'
  <2>1. \A b \in Boots : b[1] = j => pc[b] = "over"
    BY <1>4, BootFacts DEF End, Over
  <2>2. j \in Compare <=> j \notin Single
    BY GuestAssumption DEF Jobs
  <2> QED
    BY <1>0, <1>4, <2>1, <2>2, BootFacts, NoneIsNoCode DEF End, EndInv, TypeOK, Torn,
       EndedOver, Verdict, threads, inside
<1>5. ASSUME NEW j \in Jobs, Kill(j) PROVE EndInv'
  BY <1>0, <1>5, BootFacts DEF Kill, EndInv, TypeOK, Torn, EndedOver, Verdict, inside
<1> QED
  BY <1>1, <1>2, <1>3, <1>4, <1>5 DEF Next

THEOREM EndInvariance == Spec => []EndInv
  BY InitEndInv, StepEndInv, PTL DEF Spec

\* A process that ends by itself leaves no guest, whichever way its variants
\* ended (the try of build_boot_run begins right after the start of qemu, and
\* its finally tears down).
THEOREM NoGuestLeftHolds == Spec => []NoGuestLeft
<1>1. EndInv => NoGuestLeft
  BY BootFacts DEF EndInv, TypeOK, Torn, EndedOver, NoGuestLeft
<1> QED
  BY <1>1, EndInvariance, PTL

\* The exit code that the server keeps is the patched variant's, in whatever
\* order the two threads report (run_bundle's last line).
THEOREM VerdictIsPatchedHolds == Spec => []VerdictIsPatched
<1>1. EndInv => VerdictIsPatched
  BY DEF EndInv, TypeOK, Verdict, VerdictIsPatched
<1> QED
  BY <1>1, EndInvariance, PTL

------------------------------------------------------------------------------
(* Guests that do not meet at a port.                                      *)

Using == {"ssh", "clean", "copy", "chmod", "insmod", "run", "running", "dmesg", "teardown"}

\* Guests have different ports, and a boot that is past its start has one.
Apart ==
  ~disturbed =>
    /\ \A b, c \in Boots : guest[b] # "off" /\ guest[c] # "off" /\ port[b] = port[c] => b = c
    /\ \A b \in Boots : pc[b] \in Using => guest[b] # "off"

\* What is in the guest of b comes from b, as far as b is.
OwnFiles ==
  ~disturbed => \A b \in Boots :
    /\ dir[b] = None \/ dir[b] \subseteq {b}
    /\ pc[b] \in {"chmod", "insmod", "run"} => dir[b] = {b}
    /\ pc[b] \in {"begin", "built", "ssh", "clean", "copy", "chmod", "insmod"} => mods[b] = {}
    /\ pc[b] = "insmod" => b[1] \in WithModule
    /\ pc[b] = "run" => mods[b] = IF b[1] \in WithModule THEN {b} ELSE {}

ApartInv == TypeOK /\ Torn /\ EndedOver /\ Apart /\ OwnFiles /\ RunIsIntact

\* A session only gets to the boot's own guest.
LEMMA OwnSession ==
  ASSUME TypeOK, Apart, ~disturbed, NEW b \in Boots, pc[b] \in Using
  PROVE  Owners(port[b]) \subseteq {b} /\ Reached(b) \subseteq {b}
  BY DEF Owners, Reached, Bound, Apart

LEMMA InitApartInv == Init => ApartInv
<1> SUFFICES ASSUME Init PROVE ApartInv
  OBVIOUS
<1>1. TypeOK /\ Torn /\ EndedOver
  BY InitEndInv DEF EndInv
<1>2. Apart /\ OwnFiles /\ RunIsIntact
  BY DEF Init, Apart, OwnFiles, RunIsIntact, Using
<1> QED
  BY <1>1, <1>2 DEF ApartInv

\* No step of a boot takes the disturbance back.
LEMMA StaysDisturbed ==
  ASSUME NEW b \in Boots, Thread(b), ~disturbed'
  PROVE  ~disturbed
  BY DEF Thread, ChoosePort, Prepare, boot_qemu, wait_for_ssh, Clean, scp_to_guest,
     Chmod, Insmod, StartRun, EndRun, Report, teardown

\* A port is chosen before the guest is there, and qemu started on one that no
\* other guest has.
LEMMA ThreadApart ==
  ASSUME TypeOK, Torn, Apart, ~disturbed', NEW b \in Boots, Thread(b)
  PROVE  Apart'
<1>0. /\ \A x, y \in Boots : guest[x] # "off" /\ guest[y] # "off" /\ port[x] = port[y] => x = y
      /\ \A x \in Boots : pc[x] \in Using => guest[x] # "off"
      /\ pc[b] \in {"begin", "built"} => guest[b] = "off"
  BY StaysDisturbed DEF Apart, Torn
<1>t. DOMAIN pc = Boots /\ DOMAIN guest = Boots /\ DOMAIN port = Boots
  BY DEF TypeOK
<1> USE DEF Apart, Using, jobs, threads, inside
<1>1. CASE ChoosePort(b)
  BY <1>0, <1>t, <1>1 DEF ChoosePort
<1>2. CASE Prepare(b)
  BY <1>0, <1>t, <1>2 DEF Prepare, Go, Die, Raise
<1>3. CASE boot_qemu(b)
  BY <1>0, <1>t, <1>3 DEF boot_qemu, Go
<1>4. CASE wait_for_ssh(b)
  BY <1>0, <1>t, <1>4 DEF wait_for_ssh, Go, Die
<1>5. CASE Clean(b)
  BY <1>0, <1>t, <1>5 DEF Clean, Go
<1>6. CASE scp_to_guest(b)
  BY <1>0, <1>t, <1>6 DEF scp_to_guest, Go, Die
<1>7. CASE Chmod(b)
  BY <1>0, <1>t, <1>7 DEF Chmod, Go
<1>8. CASE Insmod(b)
  BY <1>0, <1>t, <1>8 DEF Insmod, Go, Die
<1>9. CASE StartRun(b)
  BY <1>0, <1>t, <1>9 DEF StartRun, Go, Raise
<1>10. CASE EndRun(b)
  BY <1>0, <1>t, <1>10 DEF EndRun, Go
<1>11. CASE Report(b)
  BY <1>0, <1>t, <1>11 DEF Report, Go, Raise
<1>12. CASE teardown(b)
  BY <1>0, <1>t, <1>12 DEF teardown, Go
<1> QED
  BY <1>1, <1>2, <1>3, <1>4, <1>5, <1>6, <1>7, <1>8, <1>9, <1>10, <1>11, <1>12 DEF Thread

\* A session only writes to the boot's own guest.
LEMMA ThreadFiles ==
  ASSUME TypeOK, Apart, OwnFiles, ~disturbed', NEW b \in Boots, Thread(b)
  PROVE  OwnFiles'
<1>0. /\ ~disturbed
      /\ pc[b] \in Using => Reached(b) \subseteq {b}
  BY StaysDisturbed, OwnSession
<1>t. DOMAIN pc = Boots /\ DOMAIN dir = Boots /\ DOMAIN mods = Boots
  BY DEF TypeOK
<1> USE NoneAssumption DEF OwnFiles, Using, jobs, threads, inside
<1>1. CASE ChoosePort(b)
  BY <1>0, <1>t, <1>1 DEF ChoosePort
<1>2. CASE Prepare(b)
  BY <1>0, <1>t, <1>2 DEF Prepare, Go, Die, Raise
<1>3. CASE boot_qemu(b)
  BY <1>0, <1>t, <1>3 DEF boot_qemu, Go
<1>4. CASE wait_for_ssh(b)
  BY <1>0, <1>t, <1>4 DEF wait_for_ssh, Go, Die
<1>5. CASE Clean(b)
  BY <1>0, <1>t, <1>5 DEF Clean, Go
<1>6. CASE scp_to_guest(b)
  BY <1>0, <1>t, <1>6 DEF scp_to_guest, Go, Die
<1>7. CASE Chmod(b)
  BY <1>0, <1>t, <1>7 DEF Chmod, Go
<1>8. CASE Insmod(b)
  <2>1. pc[b] = "insmod" /\ UNCHANGED dir /\ mods[b] = {} /\ b[1] \in WithModule
    BY <1>0, <1>8 DEF Insmod, Go, Die
  <2>2. \/ pc' = [pc EXCEPT ![b] = "teardown"] /\ UNCHANGED mods
        \/ pc' = [pc EXCEPT ![b] = "run"] /\ mods' = [mods EXCEPT ![b] = {b}]
    BY <1>0, <1>8, <2>1 DEF Insmod, Go, Die
  <2> QED
    BY <1>0, <1>t, <2>1, <2>2
<1>9. CASE StartRun(b)
  BY <1>0, <1>t, <1>9 DEF StartRun, Go, Raise
<1>10. CASE EndRun(b)
  BY <1>0, <1>t, <1>10 DEF EndRun, Go
<1>11. CASE Report(b)
  BY <1>0, <1>t, <1>11 DEF Report, Go, Raise
<1>12. CASE teardown(b)
  BY <1>0, <1>t, <1>12 DEF teardown, Go
<1> QED
  BY <1>1, <1>2, <1>3, <1>4, <1>5, <1>6, <1>7, <1>8, <1>9, <1>10, <1>11, <1>12 DEF Thread

LEMMA ThreadRan ==
  ASSUME TypeOK, Apart, OwnFiles, RunIsIntact, ~disturbed', NEW b \in Boots, Thread(b)
  PROVE  RunIsIntact'
<1>0. ~disturbed
  BY StaysDisturbed
<1>1. CASE StartRun(b)
  <2>1. pc[b] = "run" /\ Reached(b) \subseteq {b}
    BY <1>0, <1>1, OwnSession DEF StartRun, Go, Raise, Using
  <2>2. dir[b] = {b} /\ mods[b] = IF b[1] \in WithModule THEN {b} ELSE {}
    BY <1>0, <2>1 DEF OwnFiles
  <2>3. Files(b) = {b}
    BY <2>2, NoneAssumption DEF Files
  <2>4. \/ UNCHANGED ran
        \/ ran' = [ran EXCEPT ![b] =
             [guest |-> b, files |-> Files(b), exec |-> exec[b], mods |-> mods[b]]]
    BY <1>1, <2>1 DEF StartRun
  <2>5. DOMAIN ran = Boots
    BY DEF TypeOK
  <2>6. ASSUME NEW c \in Boots, ran'[c] # None
        PROVE  /\ ran'[c].guest = c /\ ran'[c].files = {c}
               /\ ran'[c].mods = IF c[1] \in WithModule THEN {c} ELSE {}
    <3>1. CASE ran'[c] = ran[c]
      BY <1>0, <2>6, <3>1 DEF RunIsIntact
    <3>2. CASE ran'[c] # ran[c]
      <4>1. c = b /\ ran'[b] = [guest |-> b, files |-> Files(b), exec |-> exec[b], mods |-> mods[b]]
        BY <2>4, <2>5, <3>2
      <4> QED
        BY <2>2, <2>3, <4>1
    <3> QED
      BY <3>1, <3>2
  <2> QED
    BY <2>6 DEF RunIsIntact
<1>2. CASE UNCHANGED ran
  BY <1>0, <1>2 DEF RunIsIntact
<1> QED
  BY <1>1, <1>2 DEF Thread, ChoosePort, Prepare, boot_qemu, wait_for_ssh, Clean, scp_to_guest,
     Chmod, Insmod, EndRun, Report, teardown, threads

LEMMA StepApartInv == EndInv /\ EndInv' /\ ApartInv /\ [Next]_vars => ApartInv'
<1> SUFFICES ASSUME EndInv, EndInv', ApartInv, [Next]_vars PROVE ApartInv'
  OBVIOUS
<1>0. TypeOK' /\ Torn' /\ EndedOver'
  BY DEF EndInv
<1> SUFFICES ASSUME ~disturbed' PROVE Apart' /\ OwnFiles' /\ RunIsIntact'
  BY <1>0 DEF ApartInv, Apart, OwnFiles, RunIsIntact
<1>1. CASE UNCHANGED vars
  BY <1>1 DEF vars, jobs, threads, inside, ApartInv, Apart, OwnFiles, RunIsIntact
<1>2. ASSUME NEW b \in Boots, Thread(b) PROVE Apart' /\ OwnFiles' /\ RunIsIntact'
  BY <1>2, ThreadApart, ThreadFiles, ThreadRan DEF ApartInv
<1>3. ASSUME NEW g \in Boots, Machine(g) PROVE Apart' /\ OwnFiles' /\ RunIsIntact'
  <2>1. ~disturbed /\ UNCHANGED <<pc, port, ran, dir, mods>>
    BY <1>3 DEF Machine, Bind, ComesUp, Wedges, Panics, QemuExits, Becomes, threads, inside
  <2>2. OwnFiles' /\ RunIsIntact'
    BY <2>1 DEF ApartInv, OwnFiles, RunIsIntact
  <2>3. guest' # guest => guest[g] # "off" /\ \E v : v # "off" /\ guest' = [guest EXCEPT ![g] = v]
    <3>1. CASE Bind(g)
      <4>1. Owners(port[g]) = {}
        BY <2>1, <3>1 DEF Bind, Owners, Bound, ApartInv, Apart
      <4> QED
        BY <3>1, <4>1 DEF Bind
    <3>2. CASE ComesUp(g) \/ Wedges(g) \/ Panics(g)
      BY <3>2 DEF ComesUp, Wedges, Panics, Becomes
    <3>3. CASE QemuExits(g)
      BY <3>3 DEF QemuExits
    <3> QED
      BY <1>3, <3>1, <3>2, <3>3 DEF Machine
  <2>4. DOMAIN guest = Boots
    BY DEF ApartInv, TypeOK
  <2>5. Apart'
    BY <2>1, <2>3, <2>4 DEF ApartInv, Apart
  <2> QED
    BY <2>2, <2>5
<1>4. ASSUME NEW j \in Jobs, End(j) PROVE Apart' /\ OwnFiles' /\ RunIsIntact'
  BY <1>4 DEF End, ApartInv, Apart, OwnFiles, RunIsIntact, threads, inside
<1>5. ASSUME NEW j \in Jobs, Kill(j) PROVE Apart' /\ OwnFiles' /\ RunIsIntact'
  BY <1>5 DEF Kill, ApartInv, TypeOK, Apart, OwnFiles, RunIsIntact, inside, Using
<1> QED
  BY <1>1, <1>2, <1>3, <1>4, <1>5 DEF Next

\* Sessions that connect anew each time, three of which nobody checks, mix
\* nothing up as long as no two guests want one port: what a program runs on is
\* what its own boot put there (build_boot_run from the wait to the run).
THEOREM RunIsIntactHolds == Spec => []RunIsIntact
<1>1. Init => EndInv /\ ApartInv
  BY InitEndInv, InitApartInv
<1>2. EndInv /\ ApartInv /\ [Next]_vars => EndInv' /\ ApartInv'
  BY StepEndInv, StepApartInv
<1>3. ApartInv => RunIsIntact
  BY DEF ApartInv
<1> QED
  BY <1>1, <1>2, <1>3, PTL DEF Spec
==============================================================================
