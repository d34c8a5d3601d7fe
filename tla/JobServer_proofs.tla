-------------------------- MODULE JobServer_proofs --------------------------
(***************************************************************************)
(* Proofs about JobServer, for any number of jobs, any configuration and   *)
(* any set of faults.  The argument: type correctness first, then one      *)
(* lemma for each group of conjuncts of IInv that the same actions can     *)
(* disturb, then the theorems that follow from IInv; on top of it, that    *)
(* the reservations fit and what is in the job directories.                *)
(***************************************************************************)
EXTENDS JobServer, TLAPS, FiniteSetTheorems, SequenceTheorems

------------------------------------------------------------------------------
(* Facts about sequences: the channel and the queue are read as sets.      *)

\* The empty channel holds nothing.
LEMMA EmptyRange == Range(<<>>) = {} /\ IsInjective(<<>>)
  BY DEF Range, IsInjective

\* What a send does to the messages in the channel.
LEMMA AppendRange ==
  ASSUME NEW S, NEW s \in Seq(S), NEW e \in S
  PROVE  /\ Append(s, e) \in Seq(S)
         /\ Range(Append(s, e)) = Range(s) \cup {e}
         /\ IsInjective(s) /\ e \notin Range(s) => IsInjective(Append(s, e))
<1> DEFINE a == Append(s, e)
<1>1. /\ a \in Seq(S) /\ Len(a) = Len(s) + 1 /\ a[Len(s) + 1] = e
      /\ \A i \in 1 .. Len(s) : a[i] = s[i]
  BY AppendProperties
<1>2. Len(s) \in Nat /\ DOMAIN s = 1 .. Len(s) /\ DOMAIN a = 1 .. Len(s) + 1
  BY <1>1, LenProperties
<1> HIDE DEF a
<1>3. Range(a) \subseteq Range(s) \cup {e}
  BY <1>1, <1>2 DEF Range
<1>4. Range(s) \cup {e} \subseteq Range(a)
  <2>1. \A i \in 1 .. Len(s) : i \in DOMAIN a
    BY <1>2
  <2>2. Len(s) + 1 \in DOMAIN a
    BY <1>2
  <2> QED BY <1>1, <1>2, <2>1, <2>2 DEF Range
<1>5. ASSUME IsInjective(s), e \notin Range(s)
      PROVE  IsInjective(a)
  <2> SUFFICES ASSUME NEW i \in DOMAIN a, NEW k \in DOMAIN a, a[i] = a[k]
               PROVE  i = k
    BY DEF IsInjective
  <2>1. \A n \in 1 .. Len(s) : a[n] # e
    BY <1>1, <1>2, <1>5 DEF Range
  <2>2. CASE i \in 1 .. Len(s) /\ k \in 1 .. Len(s)
    BY <1>1, <1>2, <1>5, <2>2 DEF IsInjective
  <2>3. CASE i = Len(s) + 1 \/ k = Len(s) + 1
    BY <1>1, <1>2, <2>1, <2>3
  <2> QED BY <1>2, <2>2, <2>3
<1> QED BY <1>1, <1>3, <1>4, <1>5 DEF a

\* What taking the first element off does.
LEMMA TailRange ==
  ASSUME NEW S, NEW s \in Seq(S), s # <<>>
  PROVE  /\ Head(s) \in S /\ Tail(s) \in Seq(S)
         /\ Range(s) = Range(Tail(s)) \cup {Head(s)}
         /\ IsInjective(s) => IsInjective(Tail(s)) /\ Head(s) \notin Range(Tail(s))
<1> DEFINE t == Tail(s)
<1>1. /\ Head(s) \in S /\ t \in Seq(S) /\ Len(t) = Len(s) - 1
      /\ \A i \in 1 .. Len(t) : t[i] = s[i + 1]
  BY HeadTailProperties
<1>2. Len(s) \in Nat /\ Len(s) # 0 /\ Head(s) = s[1]
  BY EmptySeq, LenProperties
<1>3. DOMAIN s = 1 .. Len(s) /\ DOMAIN t = 1 .. Len(s) - 1
  BY <1>1, LenProperties
<1> HIDE DEF t
<1>4. \A i \in DOMAIN t : i + 1 \in DOMAIN s /\ i + 1 # 1 /\ t[i] = s[i + 1]
  BY <1>1, <1>2, <1>3
<1>5. \A i \in DOMAIN s : i = 1 \/ (i - 1 \in DOMAIN t /\ t[i - 1] = s[i])
  BY <1>1, <1>2, <1>3
<1>6. 1 \in DOMAIN s
  BY <1>2, <1>3
<1>7. Range(t) \cup {Head(s)} \subseteq Range(s)
  BY <1>2, <1>4, <1>6 DEF Range
<1>8. Range(s) \subseteq Range(t) \cup {Head(s)}
  BY <1>2, <1>5 DEF Range
<1>9. ASSUME IsInjective(s)
      PROVE  IsInjective(t) /\ Head(s) \notin Range(t)
  <2>1. Head(s) \notin Range(t)
    BY <1>2, <1>4, <1>6, <1>9 DEF Range, IsInjective
  <2>2. ASSUME NEW i \in DOMAIN t, NEW k \in DOMAIN t, t[i] = t[k]
        PROVE  i = k
    <3>1. i + 1 = k + 1
      BY <1>4, <1>9, <2>2 DEF IsInjective
    <3> QED BY <1>3, <1>2, <3>1
  <2> QED BY <2>1, <2>2 DEF IsInjective
<1> QED BY <1>1, <1>7, <1>8, <1>9 DEF t

\* A message is a New or a Finished, and says which job.
LEMMA Messages ==
  /\ \A j \in Jobs : New(j) \in Msg /\ Finished(j) \in Msg
  /\ \A j \in Jobs : New(j).job = j /\ Finished(j).job = j
  /\ \A j \in Jobs : New(j).kind = "New" /\ Finished(j).kind # "New"
  /\ \A m \in Msg : m.job \in Jobs /\ m = IF m.kind = "New" THEN New(m.job) ELSE Finished(m.job)
  BY DEF New, Finished, Msg

\* Two messages are equal only if they say the same of the same job.
LEMMA MessagesDiffer ==
  \A i, j \in Jobs : /\ New(i) # Finished(j)
                     /\ New(i) = New(j) => i = j
                     /\ Finished(i) = Finished(j) => i = j
  BY DEF New, Finished

------------------------------------------------------------------------------
(* Facts about estimates.                                                  *)

\* Distinguishing sets by their size, one of every non-empty set of sizes is
\* least.
LEMMA LeastNat ==
  ASSUME NEW T \in SUBSET Nat, T # {}
  PROVE  \E n \in T : \A m \in T : n <= m
<1> DEFINE Less == OpToRel(<, Nat)
<1>1. \E n \in T : \A m \in T : ~ (<<m, n>> \in Less)
  BY WFMin, NatLessThanWellFounded, Zenon
<1>2. \A m, n \in Nat : m < n => <<m, n>> \in Less
  BY DEF OpToRel
<1> HIDE DEF Less
<1>3. PICK n \in T : \A m \in T : ~ (<<m, n>> \in Less)
  BY <1>1
<1>4. ASSUME NEW m \in T PROVE n <= m
  <2>1. ~(m < n)
    BY <1>2, <1>3
  <2> QED BY <2>1
<1> QED BY <1>4

\* A finite, non-empty set of numbers has a maximum, so Max finds it.
LEMMA MaxNat ==
  ASSUME NEW S \in SUBSET Nat, S # {}, IsFiniteSet(S)
  PROVE  Max(S) \in S /\ \A y \in S : Max(S) >= y
<1> DEFINE HasMax(T) == \E x \in T : \A y \in T : x >= y
           Bad(T) == T \in SUBSET Nat /\ T # {} /\ IsFiniteSet(T) /\ ~HasMax(T)
           Sizes == {n \in Nat : \E T \in SUBSET Nat : Bad(T) /\ Cardinality(T) = n}
<1>1. Sizes = {}
  <2> SUFFICES ASSUME Sizes # {} PROVE FALSE
    OBVIOUS
  <2>1. PICK n \in Sizes : \A m \in Sizes : n <= m
    <3> HIDE DEF Sizes
    <3>1. Sizes \in SUBSET Nat
      BY DEF Sizes
    <3> QED BY <3>1, LeastNat
  <2>2. PICK T \in SUBSET Nat : Bad(T) /\ Cardinality(T) = n
    OBVIOUS
  <2>3. PICK x \in T : TRUE
    BY <2>2
  <2> DEFINE U == T \ {x}
  <2>4. U \in SUBSET Nat /\ IsFiniteSet(U) /\ Cardinality(U) = n - 1
    BY <2>2, <2>3, FS_RemoveElement
  <2>5. n \in Nat /\ n # 0
    BY <2>2, FS_EmptySet
  <2>6. U # {} => HasMax(U)
    <3>1. n - 1 \in Nat /\ ~(n <= n - 1)
      BY <2>5
    <3> QED BY <2>1, <2>4, <3>1
  <2>7. CASE U = {}
    <3>1. T = {x} /\ x \in Nat
      BY <2>3, <2>7
    <3> QED BY <2>2, <3>1
  <2>8. CASE U # {}
    <3>1. PICK m \in U : \A y \in U : m >= y
      BY <2>6, <2>8
    <3>2. x \in Nat /\ m \in Nat /\ T \subseteq Nat /\ m \in T
      BY <2>3, <3>1
    <3>3. CASE m >= x
      <4>1. \A y \in T : m >= y
        BY <3>1, <3>3
      <4> QED BY <2>2, <3>2, <4>1
    <3>4. CASE x >= m
      <4>1. \A y \in T : x >= y
        BY <3>1, <3>2, <3>4
      <4> QED BY <2>2, <2>3, <4>1
    <3> QED BY <3>2, <3>3, <3>4
  <2> QED BY <2>7, <2>8
<1>2. ~Bad(S)
  BY <1>1, FS_CardinalityType
<1>3. HasMax(S)
  BY <1>2
<1> QED BY <1>3 DEF Max

\* The charge of a slot that is free is an amount.
LEMMA NoAmountType == NoAmount \in Amount
  BY DEF NoAmount, Amount

\* What a job is charged for is an amount, whatever peaks were recorded.
LEMMA EstimateType ==
  ASSUME NEW P \in SUBSET Amount, IsFiniteSet(P)
  PROVE  Estimate(P) \in Amount
<1> DEFINE ram == [p \in P |-> p.ram]
           dsk == [p \in P |-> p.disk]
           Rams == {p.ram : p \in P}
           Disks == {p.disk : p \in P}
<1>1. ram \in Surjection(P, Rams) /\ dsk \in Surjection(P, Disks)
  BY DEF Surjection
<1>2. IsFiniteSet(Rams) /\ IsFiniteSet(Disks)
  BY <1>1, FS_Surjection, Zenon
<1>3. IsFiniteSet({EstRam} \cup Rams) /\ IsFiniteSet({EstDisk} \cup Disks)
  <2>1. IsFiniteSet(Rams \cup {EstRam}) /\ IsFiniteSet(Disks \cup {EstDisk})
    BY <1>2, FS_AddElement
  <2>2. {EstRam} \cup Rams = Rams \cup {EstRam} /\ {EstDisk} \cup Disks = Disks \cup {EstDisk}
    OBVIOUS
  <2> QED BY <2>1, <2>2, Zenon
<1>4. Rams \subseteq Nat /\ Disks \subseteq Nat
  BY DEF Amount
<1>5. EstRam \in Nat /\ EstDisk \in Nat
  BY ConfigAssumption
<1>6. {EstRam} \cup Rams \in SUBSET Nat /\ {EstDisk} \cup Disks \in SUBSET Nat
  BY <1>4, <1>5
<1> HIDE DEF Rams, Disks
<1>7. Max({EstRam} \cup Rams) \in Nat /\ Max({EstDisk} \cup Disks) \in Nat
  BY <1>3, <1>6, MaxNat
<1> QED BY <1>7 DEF Estimate, Amount, Rams, Disks

\* Also when the query for the recorded peaks fails.
LEMMA EstimatesType ==
  ASSUME TypeOK
  PROVE  Estimates \subseteq Amount
<1> DEFINE Created == {k \in Jobs : status[k] # "none"}
           peaks == [j \in Created |-> peak[j]]
<1>1. IsFiniteSet(Created)
  BY ServerAssumption, FS_Subset
<1>2. peaks \in Surjection(Created, Peaks)
  BY DEF Surjection, Peaks
<1>3. IsFiniteSet(Peaks)
  BY <1>1, <1>2, FS_Surjection, Zenon
<1>4. Peaks \in SUBSET Amount
  BY DEF TypeOK, Peaks
<1>5. Estimate(Peaks) \in Amount /\ Estimate({}) \in Amount
  BY <1>3, <1>4, EstimateType, FS_EmptySet
<1> QED BY <1>5 DEF Estimates

------------------------------------------------------------------------------
(* Type correctness.                                                       *)

\* Every step keeps every variable's type.
LEMMA TypeStep ==
  ASSUME TypeOK, [Next]_vars
  PROVE  TypeOK'
<1> USE DEF TypeOK, vars, disk, http, loop, sweeper
<1>1. ASSUME NEW j \in Jobs, NEW p \in Jobs \cup {NoJob}, CreateRow(j, p)
      PROVE  TypeOK'
  BY <1>1 DEF CreateRow, Status, HandlerPC
<1>2. ASSUME NEW j \in Jobs, Handler(j)
      PROVE  TypeOK'
  <2>1. CASE WriteInputs(j)
    <3>1. Inputs(j) \in SUBSET Entry
      BY DEF Inputs, Entry
    <3> QED BY <2>1, <3>1 DEF WriteInputs, HandlerPC
  <2>2. CASE HandlerFails(j)
    <3>1. Inputs(j) \in SUBSET Entry
      BY DEF Inputs, Entry
    <3> QED BY <2>2, <3>1 DEF HandlerFails, HandlerPC
  <2>3. CASE SendNew(j)
    <3>1. chan' \in Seq(Msg)
      BY <2>3, Messages, AppendRange DEF SendNew
    <3> QED BY <2>3, <3>1 DEF SendNew, HandlerPC
  <2> QED BY <1>2, <2>1, <2>2, <2>3 DEF Handler
<1>3. ASSUME NEW j \in Jobs, RunJob(j)
      PROVE  TypeOK'
  <2>1. CASE BeginRun(j)
    BY <2>1 DEF BeginRun, Raise, Status, TaskPC
  <2>2. CASE StartAgent(j)
    BY <2>2 DEF StartAgent, Raise, ProcState, Alive, TaskPC
  <2>3. CASE EndAgent(j)
    <3>1. files' \in [Jobs -> SUBSET Entry]
      BY <2>3 DEF EndAgent
    <3>2. task' \in [Jobs -> TaskPC]
      BY <2>3 DEF EndAgent, Raise, TaskPC
    <3> QED BY <2>3, <3>1, <3>2 DEF EndAgent, ProcState
  <2>4. CASE StartKernel(j)
    BY <2>4 DEF StartKernel, Raise, ProcState, Alive, TaskPC
  <2>5. CASE StageBreaks(j) \/ StreamBreaks(j)
    BY <2>5 DEF StageBreaks, StreamBreaks, Raise, TaskPC
  <2>6. CASE FinishRun(j)
    <3>1. \A r \in RamPeaks, d \in DiskPeaks : [ram |-> r, disk |-> d] \in Amount
      BY ServerAssumption DEF Amount
    <3>2. peak' \in [Jobs -> Amount]
      BY <2>6, <3>1 DEF FinishRun
    <3> QED BY <2>6, <3>2 DEF FinishRun, Raise, ProcState, TaskPC, Status, Ended
  <2>7. CASE Reclaim(j)
    <3>1. chan' \in Seq(Msg)
      BY <2>7, Messages, AppendRange DEF Reclaim
    <3> QED BY <2>7, <3>1 DEF Reclaim, TaskPC
  <2>8. CASE FailRun(j)
    <3>1. chan' \in Seq(Msg)
      BY <2>8, Messages, AppendRange DEF FailRun
    <3>2. peak' \in [Jobs -> Amount]
      BY <2>8, NoAmountType DEF FailRun
    <3>3. status' \in [Jobs -> Status]
      BY <2>8 DEF FailRun, Status, Ended
    <3> QED BY <2>8, <3>1, <3>2, <3>3 DEF FailRun, TaskPC
  <2> QED BY <1>3, <2>1, <2>2, <2>3, <2>4, <2>5, <2>6, <2>7, <2>8 DEF RunJob
<1>4. ASSUME NEW j \in Jobs, Child(j)
      PROVE  TypeOK'
  <2>1. CASE Checkout(j)
    BY <2>1 DEF Checkout, Entry
  <2>2. CASE AgentExits(j)
    BY <2>2 DEF AgentExits, Entry, ProcState
  <2>3. CASE KernelExits(j)
    BY <2>3 DEF KernelExits, ProcState
  <2> QED BY <1>4, <2>1, <2>2, <2>3 DEF Child
<1>5. ASSUME NEW j \in Jobs, Expire(j)
      PROVE  TypeOK'
  BY <1>5 DEF Expire
<1>6. CASE Scheduler
  <2>1. CASE Receive
    <3>1. Head(chan) \in Msg /\ Tail(chan) \in Seq(Msg)
      BY <2>1, TailRange DEF Receive
    <3>2. Head(chan).job \in Jobs /\ Append(queue, Head(chan).job) \in Seq(Jobs)
      BY <3>1, Messages, AppendRange
    <3>3. queue' \in Seq(Jobs) /\ slots' \in SUBSET Jobs
      BY <2>1, <3>2 DEF Receive
    <3>4. resv' \in [Jobs -> Amount]
      BY <2>1, <3>2, NoAmountType DEF Receive
    <3> QED BY <2>1, <3>1, <3>3, <3>4 DEF Receive
  <2>2. CASE Tick
    BY <2>2 DEF Tick
  <2>3. CASE Admit
    <3>1. Head(queue) \in Jobs /\ Tail(queue) \in Seq(Jobs)
      BY <2>3, TailRange DEF Admit
    <3>2. resv' \in [Jobs -> Amount]
      BY <2>3, EstimatesType DEF Admit
    <3> QED BY <2>3, <3>1, <3>2 DEF Admit, TaskPC
  <2>4. CASE StopAdmitting
    BY <2>4 DEF StopAdmitting
  <2> QED BY <1>6, <2>1, <2>2, <2>3, <2>4 DEF Scheduler
<1>7. CASE Sweep
  <2>1. CASE SweepBegins
    BY <2>1 DEF SweepBegins, Reapable
  <2>2. CASE SweepMarks
    BY <2>2 DEF SweepMarks
  <2>3. ASSUME NEW j \in Jobs, SweepRemoves(j)
        PROVE  TypeOK'
    BY <2>3 DEF SweepRemoves
  <2> QED BY <1>7, <2>1, <2>2, <2>3 DEF Sweep
<1>8. CASE Crash
  BY <1>8, EmptySeq, NoAmountType DEF Crash, HandlerPC, ProcState, Alive, TaskPC
<1>9. CASE Restart
  BY <1>9 DEF Restart, Status, Ended
<1>10. CASE UNCHANGED vars
  BY <1>10
<1> HIDE DEF TypeOK
<1> QED BY <1>1, <1>2, <1>3, <1>4, <1>5, <1>6, <1>7, <1>8, <1>9, <1>10 DEF Next

\* Initially every variable has its type.
LEMMA TypeInit == Init => TypeOK
<1> SUFFICES ASSUME Init PROVE TypeOK
  OBVIOUS
<1>1. files \in [Jobs -> SUBSET Entry]
  BY ServerAssumption DEF Init
<1>2. /\ status \in [Jobs -> Status] /\ proc \in [Jobs -> ProcState]
      /\ handler \in [Jobs -> HandlerPC] /\ task \in [Jobs -> TaskPC]
  BY DEF Init, Status, ProcState, HandlerPC, TaskPC
<1>3. peak \in [Jobs -> Amount] /\ resv \in [Jobs -> Amount]
  BY NoAmountType DEF Init
<1>4. chan \in Seq(Msg) /\ queue \in Seq(Jobs)
  BY EmptySeq DEF Init
<1> QED BY <1>1, <1>2, <1>3, <1>4 DEF Init, TypeOK

\* TypeOK holds in every state the program reaches: the columns, the
\* channel, the queue, the slots and the reservations stay what they are.
THEOREM TypeCorrect == Spec => []TypeOK
<1> QED BY TypeInit, TypeStep, PTL DEF Spec


------------------------------------------------------------------------------
(* Where a job is: the conjuncts of IInv about the channel, the queue, the *)
(* slots, the tasks and the handlers.                                      *)

Scheduling == SlotHeld /\ ScheduledOnce /\ HandlerFresh /\ FinishedLast

\* What a step that neither sends, receives, admits nor ends a task leaves alone.
SchedulingFrame ==
  /\ UNCHANGED <<chan, queue, slots>>
  /\ \A j \in Jobs : /\ task'[j] = "none" <=> task[j] = "none"
                     /\ handler'[j] = "sent" <=> handler[j] = "sent"

\* Such a step keeps the scheduling conjuncts.
LEMMA FrameKeepsScheduling ==
  ASSUME Scheduling, SchedulingFrame
  PROVE  Scheduling'
  BY DEF Scheduling, SchedulingFrame, SlotHeld, ScheduledOnce, HandlerFresh, FinishedLast

\* A task's steps before its last are such steps.
LEMMA TaskFrame ==
  ASSUME TypeOK, NEW j \in Jobs,
         \/ BeginRun(j) \/ StartAgent(j) \/ EndAgent(j) \/ StartKernel(j)
         \/ StageBreaks(j) \/ StreamBreaks(j) \/ FinishRun(j)
  PROVE  SchedulingFrame
<1> USE DEF TypeOK, http, loop, SchedulingFrame, Raise
<1>1. CASE BeginRun(j)
  BY <1>1 DEF BeginRun
<1>2. CASE StartAgent(j)
  BY <1>2 DEF StartAgent
<1>3. CASE EndAgent(j)
  BY <1>3 DEF EndAgent
<1>4. CASE StartKernel(j)
  BY <1>4 DEF StartKernel
<1>5. CASE StageBreaks(j) \/ StreamBreaks(j)
  BY <1>5 DEF StageBreaks, StreamBreaks
<1>6. CASE FinishRun(j)
  BY <1>6 DEF FinishRun
<1> QED BY <1>1, <1>2, <1>3, <1>4, <1>5, <1>6

\* The handler's last step puts a job in the scheduler that was not there.
LEMMA SendKeepsScheduling ==
  ASSUME TypeOK, Scheduling, NEW j \in Jobs, SendNew(j)
  PROVE  Scheduling'
<1> USE DEF Scheduling
<1>1. New(j) \notin Range(chan) /\ j \notin Range(queue) /\ j \notin slots
  BY DEF SendNew, HandlerFresh
<1>2. Range(chan') = Range(chan) \cup {New(j)} /\ (IsInjective(chan) => IsInjective(chan'))
  BY <1>1, AppendRange, Messages DEF SendNew, TypeOK
<1>3. UNCHANGED <<queue, slots, task>> /\ handler' = [handler EXCEPT ![j] = "sent"]
  BY DEF SendNew, loop
<1>4. SlotHeld'
  BY <1>2, <1>3, MessagesDiffer DEF SlotHeld
<1>5. ScheduledOnce'
  <2>1. \A k \in Range(queue) : New(k) \notin Range(chan') /\ k \notin slots
    <3>1. \A k \in Range(queue) : k \in Jobs
      BY DEF TypeOK, Range
    <3> QED BY <1>1, <1>2, <3>1, MessagesDiffer DEF ScheduledOnce
  <2>2. \A k \in slots : New(k) \notin Range(chan')
    BY <1>1, <1>2, MessagesDiffer DEF ScheduledOnce, TypeOK
  <2> QED BY <1>2, <1>3, <2>1, <2>2 DEF ScheduledOnce
<1>6. HandlerFresh'
  BY <1>2, <1>3, MessagesDiffer DEF HandlerFresh, TypeOK
<1>7. FinishedLast'
  BY <1>2, <1>3, MessagesDiffer DEF FinishedLast
<1> QED BY <1>4, <1>5, <1>6, <1>7

\* A task's last step says Finished, once, and the slot is held until that is
\* received.
LEMMA EndKeepsScheduling ==
  ASSUME TypeOK, Scheduling, NEW j \in Jobs, task[j] # "none",
         task' = [task EXCEPT ![j] = "none"], chan' = Append(chan, Finished(j)),
         UNCHANGED <<queue, slots, handler>>
  PROVE  Scheduling'
<1> USE DEF Scheduling
<1>1. Finished(j) \notin Range(chan) /\ j \in slots
  BY DEF FinishedLast, SlotHeld
<1>2. Range(chan') = Range(chan) \cup {Finished(j)} /\ (IsInjective(chan) => IsInjective(chan'))
  BY <1>1, AppendRange, Messages DEF TypeOK
<1>3. \A k \in Jobs : New(k) \in Range(chan') <=> New(k) \in Range(chan)
  BY <1>2, MessagesDiffer
<1>4. \A k \in Jobs : task'[k] = IF k = j THEN "none" ELSE task[k]
  BY DEF TypeOK
<1>5. SlotHeld'
  BY <1>1, <1>2, <1>4, MessagesDiffer DEF SlotHeld
<1>6. ScheduledOnce'
  <2>1. Range(queue) \subseteq Jobs /\ slots \subseteq Jobs
    BY DEF TypeOK, Range
  <2> QED BY <1>2, <1>3, <2>1 DEF ScheduledOnce
<1>7. HandlerFresh'
  BY <1>3 DEF HandlerFresh
<1>8. FinishedLast'
  BY <1>2, <1>4, MessagesDiffer DEF FinishedLast
<1> QED BY <1>5, <1>6, <1>7, <1>8


\* The loop moves a job from a message to the queue, or frees its slot.
LEMMA ReceiveKeepsScheduling ==
  ASSUME TypeOK, Scheduling, Receive
  PROVE  Scheduling'
<1> USE DEF Scheduling
<1> DEFINE m == Head(chan)
           rest == Range(Tail(chan))
<1>1. /\ m \in Msg /\ Range(chan) = rest \cup {m}
      /\ IsInjective(Tail(chan)) /\ m \notin rest
  BY TailRange DEF Receive, TypeOK, ScheduledOnce
<1>2. chan' = Tail(chan) /\ UNCHANGED <<task, handler>>
  BY DEF Receive, http
<1>3. m.job \in Jobs /\ m = IF m.kind = "New" THEN New(m.job) ELSE Finished(m.job)
  BY <1>1, Messages
<1>4. Range(queue) \subseteq Jobs /\ slots \subseteq Jobs
  BY DEF TypeOK, Range
<1>5. CASE m.kind = "New"
  <2> DEFINE j == m.job
  <2>1. m = New(j) /\ j \in Jobs
    BY <1>3, <1>5
  <2>2. queue' = Append(queue, j) /\ UNCHANGED slots
    BY <1>5 DEF Receive
  <2> HIDE DEF m, rest, j
  <2>3. j \notin Range(queue) /\ j \notin slots /\ handler[j] = "sent"
    BY <1>1, <2>1 DEF ScheduledOnce, HandlerFresh
  <2>4. Range(queue') = Range(queue) \cup {j} /\ IsInjective(queue')
    BY <2>1, <2>2, <2>3, AppendRange DEF TypeOK, ScheduledOnce
  <2>5. \A k \in Jobs : /\ New(k) \in rest <=> New(k) \in Range(chan) /\ k # j
                        /\ Finished(k) \in rest <=> Finished(k) \in Range(chan)
    BY <1>1, <2>1, MessagesDiffer
  <2>6. Range(chan') = rest /\ IsInjective(chan')
    BY <1>1, <1>2 DEF rest
  <2>7. SlotHeld' /\ FinishedLast'
    BY <1>2, <2>2, <2>5, <2>6 DEF SlotHeld, FinishedLast
  <2>8. ScheduledOnce'
    BY <1>4, <2>1, <2>2, <2>3, <2>4, <2>5, <2>6 DEF ScheduledOnce
  <2>9. HandlerFresh'
    BY <1>2, <2>2, <2>3, <2>4, <2>5, <2>6 DEF HandlerFresh
  <2> QED BY <2>7, <2>8, <2>9
<1>6. CASE m.kind # "New"
  <2> DEFINE j == m.job
  <2>1. m = Finished(j) /\ j \in Jobs
    BY <1>3, <1>6
  <2>2. slots' = slots \ {j} /\ UNCHANGED queue
    BY <1>6 DEF Receive
  <2> HIDE DEF m, rest, j
  <2>3. task[j] = "none"
    BY <1>1, <2>1 DEF FinishedLast
  <2>4. \A k \in Jobs : /\ Finished(k) \in rest <=> Finished(k) \in Range(chan) /\ k # j
                        /\ New(k) \in rest <=> New(k) \in Range(chan)
    BY <1>1, <2>1, MessagesDiffer
  <2>5. Range(chan') = rest /\ IsInjective(chan')
    BY <1>1, <1>2 DEF rest
  <2>6. SlotHeld' /\ FinishedLast'
    BY <1>2, <2>2, <2>3, <2>4, <2>5 DEF SlotHeld, FinishedLast
  <2>7. ScheduledOnce'
    BY <1>4, <2>2, <2>4, <2>5 DEF ScheduledOnce
  <2>8. HandlerFresh'
    BY <1>2, <2>2, <2>4, <2>5 DEF HandlerFresh
  <2> QED BY <2>6, <2>7, <2>8
<1> QED BY <1>5, <1>6

\* The loop moves a job from the queue to a slot and a task.
LEMMA AdmitKeepsScheduling ==
  ASSUME TypeOK, Scheduling, Admit
  PROVE  Scheduling'
<1> USE DEF Scheduling
<1> DEFINE j == Head(queue)
<1>1. /\ j \in Jobs /\ Range(queue) = Range(Tail(queue)) \cup {j}
      /\ IsInjective(Tail(queue)) /\ j \notin Range(Tail(queue))
  BY TailRange DEF Admit, TypeOK, ScheduledOnce
<1>2. /\ queue' = Tail(queue) /\ slots' = slots \cup {j}
      /\ task' = [task EXCEPT ![j] = "start"] /\ UNCHANGED <<chan, handler>>
  BY DEF Admit, http
<1> HIDE DEF j
<1>3. New(j) \notin Range(chan) /\ j \notin slots /\ handler[j] = "sent"
  BY <1>1 DEF ScheduledOnce, HandlerFresh
<1>4. Finished(j) \notin Range(chan)
  BY <1>1, <1>3 DEF SlotHeld
<1>5. \A k \in Jobs : task'[k] = IF k = j THEN "start" ELSE task[k]
  BY <1>2 DEF TypeOK
<1>6. SlotHeld' /\ FinishedLast'
  BY <1>1, <1>2, <1>4, <1>5 DEF SlotHeld, FinishedLast
<1>7. ScheduledOnce'
  BY <1>1, <1>2, <1>3 DEF ScheduledOnce
<1>8. HandlerFresh'
  BY <1>1, <1>2, <1>3 DEF HandlerFresh
<1> QED BY <1>6, <1>7, <1>8

\* No step of the program breaks the scheduling conjuncts.
LEMMA SchedulingStep ==
  ASSUME TypeOK, Scheduling, [Next]_vars
  PROVE  Scheduling'
<1>1. ASSUME NEW j \in Jobs, NEW p \in Jobs \cup {NoJob}, CreateRow(j, p)
      PROVE  SchedulingFrame
  BY <1>1 DEF CreateRow, SchedulingFrame, TypeOK, loop
<1>2. ASSUME NEW j \in Jobs, Handler(j)
      PROVE  Scheduling'
  <2>1. CASE WriteInputs(j) \/ HandlerFails(j)
    <3>1. SchedulingFrame
      BY <2>1 DEF WriteInputs, HandlerFails, SchedulingFrame, TypeOK, loop
    <3> QED BY <3>1, FrameKeepsScheduling
  <2> QED BY <1>2, <2>1, SendKeepsScheduling DEF Handler
<1>3. ASSUME NEW j \in Jobs, RunJob(j)
      PROVE  Scheduling'
  <2>1. CASE Reclaim(j) \/ FailRun(j)
    <3>1. /\ task[j] # "none" /\ task' = [task EXCEPT ![j] = "none"]
          /\ chan' = Append(chan, Finished(j)) /\ UNCHANGED <<queue, slots, handler>>
      BY <2>1 DEF Reclaim, FailRun, loop, http
    <3> QED BY <3>1, EndKeepsScheduling
  <2>2. CASE ~(Reclaim(j) \/ FailRun(j))
    BY <1>3, <2>2, TaskFrame, FrameKeepsScheduling DEF RunJob
  <2> QED BY <2>1, <2>2
<1>4. ASSUME NEW j \in Jobs, Child(j) \/ Expire(j)
      PROVE  SchedulingFrame
  BY <1>4 DEF Child, Checkout, AgentExits, KernelExits, Expire, SchedulingFrame, http, loop, disk
<1>5. CASE Tick \/ StopAdmitting \/ Sweep \/ Restart \/ UNCHANGED vars
  <2>1. SchedulingFrame
    BY <1>5 DEF Tick, StopAdmitting, Sweep, SweepBegins, SweepMarks, SweepRemoves, Restart,
                SchedulingFrame, http, loop, disk, sweeper, vars
  <2> QED BY <2>1, FrameKeepsScheduling
<1>6. CASE Crash
  <2>1. /\ chan' = <<>> /\ queue' = <<>> /\ slots' = {}
        /\ \A j \in Jobs : task'[j] = "none"
    BY <1>6 DEF Crash
  <2>2. Range(chan') = {} /\ Range(queue') = {} /\ IsInjective(chan') /\ IsInjective(queue')
    BY <2>1, EmptyRange
  <2> QED BY <2>1, <2>2 DEF Scheduling, SlotHeld, ScheduledOnce, HandlerFresh, FinishedLast
<1> QED BY <1>1, <1>2, <1>3, <1>4, <1>5, <1>6, FrameKeepsScheduling,
           ReceiveKeepsScheduling, AdmitKeepsScheduling DEF Next, Scheduler


------------------------------------------------------------------------------
(* The cap, and the server that is down.                                   *)

\* Only Admit adds to the slots, one job, when they are fewer than MaxJobs.
LEMMA CapStep ==
  ASSUME TypeOK, SlotsCapped, [Next]_vars
  PROVE  SlotsCapped'
<1>0. IsFiniteSet(slots) /\ MaxJobs \in Nat /\ Cardinality(slots) \in Nat
  BY ServerAssumption, ConfigAssumption, FS_Subset, FS_CardinalityType DEF TypeOK
<1>1. CASE Admit
  <2>1. Cardinality(slots) < MaxJobs /\ slots' = slots \cup {Head(queue)}
    BY <1>1 DEF Admit, Admissible, CanAdmit
  <2>2. Cardinality(slots') <= Cardinality(slots) + 1
    BY <1>0, <2>1, FS_AddElement
  <2>3. Cardinality(slots') \in Nat
    BY <1>0, <2>1, FS_AddElement, FS_CardinalityType
  <2> QED BY <1>0, <2>1, <2>2, <2>3 DEF SlotsCapped
<1>2. CASE slots' \in SUBSET slots
  <2>1. Cardinality(slots') <= Cardinality(slots) /\ Cardinality(slots') \in Nat
    BY <1>0, <1>2, FS_Subset, FS_CardinalityType
  <2> QED BY <1>0, <2>1 DEF SlotsCapped
<1>3. Admit \/ slots' \in SUBSET slots
  <2>1. ASSUME NEW j \in Jobs, NEW p \in Jobs \cup {NoJob}, CreateRow(j, p)
        PROVE  UNCHANGED slots
    BY <2>1 DEF CreateRow, loop
  <2>2. ASSUME NEW j \in Jobs, Handler(j) \/ Child(j) \/ Expire(j)
        PROVE  UNCHANGED slots
    BY <2>2 DEF Handler, WriteInputs, HandlerFails, SendNew, Child, Checkout, AgentExits,
                KernelExits, Expire, loop
  <2>3. ASSUME NEW j \in Jobs, RunJob(j)
        PROVE  UNCHANGED slots
    BY <2>3 DEF RunJob, BeginRun, StartAgent, EndAgent, StartKernel, StageBreaks, StreamBreaks,
                FinishRun, Reclaim, FailRun, loop
  <2>4. CASE Receive \/ Tick \/ StopAdmitting
    BY <2>4 DEF Receive, Tick, StopAdmitting
  <2>5. CASE Sweep \/ Restart \/ UNCHANGED vars
    BY <2>5 DEF Sweep, SweepBegins, SweepMarks, SweepRemoves, Restart, loop, vars
  <2>6. CASE Crash
    BY <2>6 DEF Crash
  <2> QED BY <2>1, <2>2, <2>3, <2>4, <2>5, <2>6 DEF Next, Scheduler
<1> QED BY <1>1, <1>2, <1>3

\* Nothing but the children, the retention clock and Restart moves while the
\* server is down.
LEMMA DownStep ==
  ASSUME TypeOK, DownIsEmpty, [Next]_vars
  PROVE  DownIsEmpty'
<1>1. ASSUME NEW j \in Jobs, NEW p \in Jobs \cup {NoJob}, CreateRow(j, p)
      PROVE  up'
  BY <1>1 DEF CreateRow
<1>2. ASSUME NEW j \in Jobs, Handler(j)
      PROVE  up'
  BY <1>2 DEF Handler, WriteInputs, HandlerFails, SendNew
<1>3. ASSUME NEW j \in Jobs, RunJob(j)
      PROVE  up'
  BY <1>3 DEF RunJob, BeginRun, StartAgent, EndAgent, StartKernel, StageBreaks, StreamBreaks,
              FinishRun, Reclaim, FailRun
<1>4. CASE Scheduler \/ Sweep \/ Restart
  <2>1. up'
    BY <1>4 DEF Scheduler, Receive, Tick, Admit, StopAdmitting, Sweep, SweepBegins,
                SweepMarks, SweepRemoves, Restart
  <2> QED BY <2>1 DEF DownIsEmpty
<1>5. ASSUME NEW j \in Jobs, Child(j) \/ Expire(j)
      PROVE  UNCHANGED <<up, chan, queue, slots, task, handler>>
  BY <1>5 DEF Child, Checkout, AgentExits, KernelExits, Expire, http, loop
<1>6. CASE UNCHANGED vars
  BY <1>6 DEF vars, http, loop, DownIsEmpty
<1>7. CASE Crash
  <2>1. \A j \in Jobs : task'[j] = "none" /\ handler'[j] \notin {"row", "written"}
    BY <1>7 DEF Crash, TypeOK
  <2> QED BY <1>7, <2>1 DEF Crash, DownIsEmpty
<1> QED BY <1>1, <1>2, <1>3, <1>4, <1>5, <1>6, <1>7 DEF Next, DownIsEmpty

------------------------------------------------------------------------------
(* What a row says of its job: RowsAgree, RunningIsLive and QueuedIsKnown. *)

Rows == RowsAgree /\ RunningIsLive /\ QueuedIsKnown

\* A step after which every row, handler, task and place of a job is as before.
RowsFrame ==
  /\ UNCHANGED <<status, handler, task, up>>
  /\ \A j \in Jobs : /\ New(j) \in Range(chan') <=> New(j) \in Range(chan)
                     /\ j \in Range(queue') <=> j \in Range(queue)

\* Such a step keeps what the rows say.
LEMMA FrameKeepsRows ==
  ASSUME Rows, RowsFrame
  PROVE  Rows'
  BY DEF Rows, RowsFrame, RowsAgree, RunningIsLive, QueuedIsKnown, Waiting

\* Of a step that moves one job only, it is enough to look at that job.
RowOf(j) ==
  /\ Waiting(j) => status[j] = "queued"
  /\ task[j] \in RunPC => status[j] = "running"
  /\ task[j] = "err" => status[j] \in {"queued", "running"}
  /\ task[j] = "err" /\ ~DB => status[j] = "running"
  /\ ~DB /\ up => /\ status[j] = "running" => task[j] \in RunPC \cup {"err"}
                  /\ status[j] = "queued" => Waiting(j) \/ handler[j] = "failed"

\* RowOf is what Rows says of one job.
LEMMA RowsPointwise == Rows <=> \A j \in Jobs : RowOf(j)
<1>1. Rows => \A j \in Jobs : RowOf(j)
  BY DEF Rows, RowOf, RowsAgree, RunningIsLive, QueuedIsKnown, Waiting, RunPC
<1>2. (\A j \in Jobs : RowOf(j)) => Rows
  BY DEF Rows, RowOf, RowsAgree, RunningIsLive, QueuedIsKnown, Waiting, RunPC
<1> QED BY <1>1, <1>2

\* The same of the next state.
LEMMA RowsFromEach ==
  ASSUME \A j \in Jobs : RowOf(j)'
  PROVE  Rows'
  BY DEF Rows, RowOf, RowsAgree, RunningIsLive, QueuedIsKnown, Waiting, RunPC

OthersKept(j) ==
  /\ UNCHANGED up
  /\ \A k \in Jobs \ {j} :
       /\ status'[k] = status[k] /\ handler'[k] = handler[k] /\ task'[k] = task[k]
       /\ New(k) \in Range(chan') <=> New(k) \in Range(chan)
       /\ k \in Range(queue') <=> k \in Range(queue)

\* The rule by which the steps of one job are checked.
LEMMA OneRowKept ==
  ASSUME Rows, NEW j \in Jobs, OthersKept(j), RowOf(j)'
  PROVE  Rows'
<1>1. ASSUME NEW k \in Jobs \ {j} PROVE RowOf(k)'
  <2>1. RowOf(k)
    BY RowsPointwise
  <2> QED BY <2>1 DEF OthersKept, RowOf, Waiting
<1>2. \A k \in Jobs : RowOf(k)'
  BY <1>1
<1> QED BY <1>2, RowsFromEach


\* A task's own steps keep what the rows say: the row is queued until
\* set_running and running until db.finish.
LEMMA TaskKeepsRows ==
  ASSUME TypeOK, Scheduling, Rows, NEW j \in Jobs, RunJob(j)
  PROVE  Rows'
<1>1. task[j] # "none" /\ up /\ UNCHANGED <<up, handler, queue>>
  BY DEF RunJob, BeginRun, StartAgent, EndAgent, StartKernel, StageBreaks, StreamBreaks, FinishRun,
         Reclaim, FailRun, http, loop
<1>2. /\ j \in slots /\ New(j) \notin Range(chan) /\ j \notin Range(queue)
      /\ handler[j] = "sent"
  BY <1>1 DEF Scheduling, SlotHeld, ScheduledOnce, HandlerFresh
<1>3. \A k \in Jobs : New(k) \in Range(chan') <=> New(k) \in Range(chan)
  <2>1. CASE UNCHANGED chan
    BY <2>1
  <2>2. CASE chan' = Append(chan, Finished(j))
    BY <2>2, AppendRange, Messages, MessagesDiffer DEF TypeOK
  <2> QED BY <2>1, <2>2 DEF RunJob, BeginRun, StartAgent, EndAgent, StartKernel,
             StageBreaks, StreamBreaks, FinishRun, Reclaim, FailRun
<1>4. \A k \in Jobs \ {j} : status'[k] = status[k] /\ task'[k] = task[k]
  <2>1. CASE BeginRun(j)
    BY <2>1 DEF BeginRun, Raise, TypeOK
  <2>2. CASE StartAgent(j) \/ EndAgent(j) \/ StartKernel(j) \/ StageBreaks(j) \/ StreamBreaks(j)
             \/ Reclaim(j)
    BY <2>2 DEF StartAgent, EndAgent, StartKernel, StageBreaks, StreamBreaks, Reclaim, disk, Raise,
       TypeOK
  <2>3. CASE FinishRun(j) \/ FailRun(j)
    BY <2>3 DEF FinishRun, FailRun, Raise, TypeOK
  <2> QED BY <2>1, <2>2, <2>3 DEF RunJob
<1>5. OthersKept(j)
  BY <1>1, <1>3, <1>4 DEF OthersKept, TypeOK
<1>6. ~Waiting(j)' <=> task'[j] # "start"
  BY <1>1, <1>2, <1>3 DEF Waiting
<1>7. RowOf(j)
  BY RowsPointwise
<1>8. RowOf(j)'
  <2> USE DEF TypeOK, RunPC, Raise
  <2>1. CASE BeginRun(j)
    <3>1. status[j] = "queued"
      BY <2>1, <1>7 DEF BeginRun, RowOf, Waiting
    <3> QED BY <2>1, <3>1, <1>6 DEF BeginRun, RowOf
  <2>2. CASE StartAgent(j) \/ EndAgent(j) \/ StartKernel(j) \/ StageBreaks(j) \/ StreamBreaks(j)
    <3>1. status[j] = "running" /\ task'[j] \in RunPC \cup {"err"} /\ UNCHANGED status
      BY <2>2, <1>7 DEF StartAgent, EndAgent, StartKernel, StageBreaks, StreamBreaks, RowOf, disk
    <3> QED BY <3>1, <1>6 DEF RowOf
  <2>3. CASE FinishRun(j)
    <3>1. status[j] = "running"
      BY <2>3, <1>7 DEF FinishRun, RowOf
    <3> QED BY <2>3, <3>1, <1>6 DEF FinishRun, RowOf
  <2>4. CASE Reclaim(j)
    <3>1. ~DB => status[j] \notin {"queued", "running"}
      BY <2>4, <1>1, <1>2, <1>7 DEF Reclaim, RowOf, Waiting
    <3> QED BY <2>4, <3>1, <1>6 DEF Reclaim, RowOf
  <2>5. CASE FailRun(j)
    BY <2>5, <1>6 DEF FailRun, RowOf
  <2> QED BY <2>1, <2>2, <2>3, <2>4, <2>5 DEF RunJob
<1> QED BY <1>5, <1>8, OneRowKept

\* A handler's steps keep what the rows say: a row is queued from create_job
\* until the scheduler has the job, or for good if the handler fails.
LEMMA HandlerKeepsRows ==
  ASSUME TypeOK, Rows, NEW j \in Jobs,
         Handler(j) \/ \E p \in Jobs \cup {NoJob} : CreateRow(j, p),
         HandlerFresh, SlotHeld
  PROVE  Rows'
<1> USE DEF TypeOK, http, loop, disk
<1>1. RowOf(j)
  BY RowsPointwise
<1>2. CASE \E p \in Jobs \cup {NoJob} : CreateRow(j, p)
  <2>1. OthersKept(j)
    BY <1>2 DEF CreateRow, OthersKept
  <2>2. task'[j] = "none"
    BY <1>2 DEF CreateRow, HandlerFresh, SlotHeld
  <2>3. RowOf(j)'
    BY <1>2, <2>2 DEF CreateRow, RowOf, Waiting, RunPC
  <2> QED BY <2>1, <2>3, OneRowKept
<1>3. CASE WriteInputs(j)
  <2>1. OthersKept(j)
    BY <1>3 DEF WriteInputs, OthersKept
  <2>2. RowOf(j)'
    BY <1>1, <1>3 DEF WriteInputs, RowOf, Waiting
  <2> QED BY <2>1, <2>2, OneRowKept
<1>4. CASE HandlerFails(j)
  <2>1. OthersKept(j)
    BY <1>4 DEF HandlerFails, OthersKept
  <2>2. RowOf(j)'
    BY <1>1, <1>4 DEF HandlerFails, RowOf, Waiting
  <2> QED BY <2>1, <2>2, OneRowKept
<1>5. CASE SendNew(j)
  <2>1. Range(chan') = Range(chan) \cup {New(j)}
    BY <1>5, AppendRange, Messages DEF SendNew
  <2>2. OthersKept(j)
    BY <1>5, <2>1, MessagesDiffer DEF SendNew, OthersKept
  <2>3. RowOf(j)'
    BY <1>1, <1>5, <2>1 DEF SendNew, RowOf, Waiting
  <2> QED BY <2>2, <2>3, OneRowKept
<1> QED BY <1>2, <1>3, <1>4, <1>5 DEF Handler


\* The loop moves jobs between places in which their rows read queued; Admit
\* and Receive of a New keep a job waiting, Receive of a Finished finds it ended.
LEMMA SchedulerKeepsRows ==
  ASSUME TypeOK, Scheduling, Rows, Scheduler
  PROVE  Rows'
<1>1. CASE Receive
  <2> DEFINE m == Head(chan)
             j == m.job
  <2>1. /\ m \in Msg /\ Range(chan) = Range(chan') \cup {m} /\ m \notin Range(chan')
        /\ chan' = Tail(chan) /\ UNCHANGED <<status, task, handler, up>>
    BY <1>1, TailRange DEF Receive, TypeOK, Scheduling, ScheduledOnce, disk, http
  <2>2. j \in Jobs /\ m = IF m.kind = "New" THEN New(j) ELSE Finished(j)
    BY <2>1, Messages
  <2>3. Range(queue') = IF m.kind = "New" THEN Range(queue) \cup {j} ELSE Range(queue)
    <3>1. queue' = IF m.kind = "New" THEN Append(queue, j) ELSE queue
      BY <1>1 DEF Receive
    <3>2. Range(Append(queue, j)) = Range(queue) \cup {j}
      BY <2>2, AppendRange DEF TypeOK
    <3> HIDE DEF m, j
    <3> QED BY <3>1, <3>2
  <2> HIDE DEF m, j
  <2>4. \A k \in Jobs : Waiting(k)' <=> Waiting(k)
    BY <2>1, <2>2, <2>3, MessagesDiffer DEF Waiting
  <2>5. ASSUME NEW k \in Jobs PROVE RowOf(k)'
    <3>1. RowOf(k)
      BY RowsPointwise
    <3>2. Waiting(k)' <=> Waiting(k)
      BY <2>4
    <3> QED BY <2>1, <3>1, <3>2 DEF RowOf, Waiting
  <2> QED BY <2>5, RowsFromEach
<1>2. CASE Admit
  <2>0. PICK j \in Jobs : j = Head(queue)
    BY <1>2, TailRange DEF Admit, TypeOK
  <2>1. /\ Range(queue) = Range(queue') \cup {j} /\ j \notin Range(queue')
        /\ task' = [task EXCEPT ![j] = "start"] /\ UNCHANGED <<status, chan, handler, up>>
    BY <1>2, <2>0, TailRange DEF Admit, TypeOK, Scheduling, ScheduledOnce, disk, http
  <2>2. OthersKept(j)
    BY <2>1 DEF OthersKept, TypeOK
  <2>3. RowOf(j)
    BY <2>1, RowsPointwise
  <2>4. status[j] = "queued"
    BY <2>1, <2>3 DEF RowOf, Waiting
  <2>5. RowOf(j)'
    BY <2>1, <2>4 DEF RowOf, Waiting, TypeOK, RunPC
  <2> QED BY <2>1, <2>2, <2>5, OneRowKept
<1>3. CASE Tick \/ StopAdmitting
  <2>1. RowsFrame
    BY <1>3 DEF Tick, StopAdmitting, RowsFrame, disk, http
  <2> QED BY <2>1, FrameKeepsRows
<1> QED BY <1>1, <1>2, <1>3 DEF Scheduler

\* recover_orphans finds no job anywhere, and no row stays queued or running.
LEMMA RestartKeepsRows ==
  ASSUME TypeOK, DownIsEmpty, Restart
  PROVE  Rows'
<1>1. ASSUME NEW j \in Jobs PROVE RowOf(j)'
  <2>1. New(j) \notin Range(chan') /\ j \notin Range(queue')
    BY EmptyRange DEF Restart, DownIsEmpty, loop
  <2>2. task'[j] = "none" /\ handler'[j] \notin {"row", "written"}
    BY DEF Restart, DownIsEmpty, http
  <2>3. status'[j] \notin {"queued", "running"}
    BY DEF Restart, TypeOK
  <2> QED BY <2>1, <2>2, <2>3 DEF RowOf, Waiting, RunPC
<1> QED BY <1>1, RowsFromEach

\* No step of the program lets a row disagree with where its job is.
LEMMA RowsStep ==
  ASSUME TypeOK, Scheduling, DownIsEmpty, Rows, [Next]_vars
  PROVE  Rows'
<1>1. HandlerFresh /\ SlotHeld
  BY DEF Scheduling
<1>2. ASSUME NEW j \in Jobs, Child(j) \/ Expire(j)
      PROVE  Rows'
  <2>1. RowsFrame
    BY <1>2 DEF Child, Checkout, AgentExits, KernelExits, Expire, RowsFrame, disk, http, loop
  <2> QED BY <2>1, FrameKeepsRows
<1>3. CASE Sweep \/ UNCHANGED vars
  <2>1. RowsFrame
    BY <1>3 DEF Sweep, SweepBegins, SweepMarks, SweepRemoves, RowsFrame, disk, http, loop, vars
  <2> QED BY <2>1, FrameKeepsRows
<1>4. CASE Crash
  <2>1. /\ Range(chan') = {} /\ Range(queue') = {} /\ ~up'
        /\ \A j \in Jobs : task'[j] = "none" /\ handler'[j] \notin {"row", "written"}
    BY <1>4, EmptyRange DEF Crash, TypeOK
  <2> QED BY <2>1 DEF Rows, RowsAgree, RunningIsLive, QueuedIsKnown, Waiting, RunPC
<1> QED BY <1>1, <1>2, <1>3, <1>4, HandlerKeepsRows, TaskKeepsRows, SchedulerKeepsRows,
           RestartKeepsRows DEF Next


------------------------------------------------------------------------------
(* Children, when no fault makes a task leave one behind.                  *)

\* A child runs only while the step of its task that spawned it lasts.
LEMMA ChildStep ==
  ASSUME TypeOK, Scheduling, ChildOfTask, [Next]_vars
  PROVE  ChildOfTask'
<1> SUFFICES ASSUME Faults \cap {"io", "crash"} = {}
             PROVE  \A j \in Jobs : /\ proc'[j] = "agent" => task'[j] = "agent"
                                    /\ proc'[j] = "kernel" => task'[j] = "stream"
  BY DEF ChildOfTask
<1> USE DEF TypeOK
<1>0. /\ ~IO /\ "crash" \notin Faults
      /\ \A j \in Jobs : /\ proc[j] = "agent" => task[j] = "agent"
                         /\ proc[j] = "kernel" => task[j] = "stream"
  BY DEF ChildOfTask, IO
<1>1. ASSUME NEW j \in Jobs, NEW p \in Jobs \cup {NoJob}, CreateRow(j, p)
      PROVE  UNCHANGED <<proc, task>>
  BY <1>1 DEF CreateRow
<1>2. ASSUME NEW j \in Jobs, Handler(j) \/ Expire(j)
      PROVE  UNCHANGED <<proc, task>>
  BY <1>2 DEF Handler, WriteInputs, HandlerFails, SendNew, Expire
<1>3. ASSUME NEW j \in Jobs, RunJob(j), NEW k \in Jobs
      PROVE  /\ proc'[k] = "agent" => task'[k] = "agent"
             /\ proc'[k] = "kernel" => task'[k] = "stream"
  <2>1. CASE BeginRun(j)
    BY <1>0, <2>1 DEF BeginRun, Raise
  <2>2. CASE StartAgent(j)
    BY <1>0, <2>2 DEF StartAgent, Raise
  <2>3. CASE EndAgent(j)
    BY <1>0, <2>3 DEF EndAgent, Raise
  <2>4. CASE StartKernel(j)
    BY <1>0, <2>4 DEF StartKernel
  <2>5. CASE StageBreaks(j) \/ StreamBreaks(j)
    BY <1>0, <2>5 DEF StageBreaks, StreamBreaks
  <2>6. CASE FinishRun(j)
    BY <1>0, <2>6 DEF FinishRun, Raise
  <2>7. CASE Reclaim(j) \/ FailRun(j)
    BY <1>0, <2>7 DEF Reclaim, FailRun
  <2> QED BY <1>3, <2>1, <2>2, <2>3, <2>4, <2>5, <2>6, <2>7 DEF RunJob
<1>4. ASSUME NEW j \in Jobs, Child(j), NEW k \in Jobs
      PROVE  /\ proc'[k] = "agent" => task'[k] = "agent"
             /\ proc'[k] = "kernel" => task'[k] = "stream"
  BY <1>0, <1>4 DEF Child, Checkout, AgentExits, KernelExits
<1>5. CASE Receive \/ Tick \/ StopAdmitting \/ Sweep \/ Restart \/ UNCHANGED vars
  <2>1. UNCHANGED <<proc, task>>
    BY <1>5 DEF Receive, Tick, StopAdmitting, Sweep, SweepBegins, SweepMarks, SweepRemoves,
                Restart, vars
  <2> QED BY <1>0, <2>1
<1>6. CASE Admit
  <2>1. PICK j \in Jobs : j = Head(queue)
    BY <1>6, TailRange DEF Admit
  <2>2. task[j] = "none"
    BY <1>6, <2>1, TailRange DEF Admit, Scheduling, ScheduledOnce, SlotHeld
  <2>3. task' = [task EXCEPT ![j] = "start"] /\ UNCHANGED proc
    BY <1>6, <2>1 DEF Admit
  <2> QED BY <1>0, <2>2, <2>3
<1>7. ~Crash
  BY <1>0 DEF Crash
<1> QED BY <1>0, <1>1, <1>2, <1>3, <1>4, <1>5, <1>6, <1>7 DEF Next, Scheduler

------------------------------------------------------------------------------
(* The inductive invariant.                                                *)

\* The invariant, in the groups the lemmas above treat.
LEMMA InvGroups ==
  IInv <=> /\ TypeOK /\ Scheduling /\ SlotsCapped /\ DownIsEmpty /\ Rows /\ ChildOfTask
  BY DEF IInv, Scheduling, Rows

\* Initially no job exists.
LEMMA InvInit == Init => IInv
<1> SUFFICES ASSUME Init PROVE IInv
  OBVIOUS
<1>1. TypeOK
  BY TypeInit
<1>2. Range(chan) = {} /\ Range(queue) = {} /\ IsInjective(chan) /\ IsInjective(queue)
  BY EmptyRange DEF Init
<1>3. \A j \in Jobs : /\ task[j] = "none" /\ handler[j] = "none"
                      /\ status[j] = "none" /\ proc[j] = "none"
  BY DEF Init
<1>4. slots = {} /\ up
  BY DEF Init
<1>5. Scheduling
  BY <1>2, <1>3, <1>4 DEF Scheduling, SlotHeld, ScheduledOnce, HandlerFresh, FinishedLast
<1>6. SlotsCapped
  BY <1>4, FS_EmptySet, ConfigAssumption DEF SlotsCapped
<1>7. DownIsEmpty
  BY <1>4 DEF DownIsEmpty
<1>8. Rows
  <2>1. \A j \in Jobs : RowOf(j)
    BY <1>2, <1>3 DEF RowOf, Waiting, RunPC
  <2> QED BY <2>1, RowsPointwise
<1>9. ChildOfTask
  BY <1>3 DEF ChildOfTask
<1> QED BY <1>1, <1>5, <1>6, <1>7, <1>8, <1>9, InvGroups

\* Every step of the program keeps the invariant.
LEMMA InvStep == IInv /\ [Next]_vars => IInv'
<1> SUFFICES ASSUME IInv, [Next]_vars PROVE IInv'
  OBVIOUS
<1>1. TypeOK /\ Scheduling /\ SlotsCapped /\ DownIsEmpty /\ Rows /\ ChildOfTask
  BY InvGroups
<1>2. TypeOK' /\ Scheduling' /\ SlotsCapped' /\ DownIsEmpty' /\ Rows' /\ ChildOfTask'
  BY <1>1, TypeStep, SchedulingStep, CapStep, DownStep, RowsStep, ChildStep
<1> QED BY <1>2 DEF IInv, Scheduling, Rows

\* IInv holds in every state the program reaches, whatever fails and whenever
\* the server dies.
THEOREM Invariance == Spec => []IInv
  BY InvInit, InvStep, PTL DEF Spec

------------------------------------------------------------------------------
(* What follows from it.                                                   *)

\* The scheduler's accounting never exceeds max_jobs (main.rs, can_admit).
THEOREM CapHolds == Spec => []SlotsCapped
<1>1. IInv => SlotsCapped
  BY DEF IInv
<1> QED BY <1>1, Invariance, PTL

\* No path through run_job leaks its slot or gives it back before its end.
THEOREM SlotHeldHolds == Spec => []SlotHeld
<1>1. IInv => SlotHeld
  BY DEF IInv
<1> QED BY <1>1, Invariance, PTL

\* No id is in the scheduler twice, so no job is run by two tasks.
THEOREM ScheduledOnceHolds == Spec => []ScheduledOnce
<1>1. IInv => ScheduledOnce
  BY DEF IInv
<1> QED BY <1>1, Invariance, PTL

\* With database writes that succeed, a row says running exactly while a task
\* runs the job.
THEOREM RunningIsLiveHolds == Spec => []RunningIsLive
<1>1. IInv => RunningIsLive
  BY DEF IInv
<1> QED BY <1>1, Invariance, PTL

\* With database writes that succeed, only a failed handler leaves a row queued
\* that the scheduler does not know of.
THEOREM QueuedIsKnownHolds == Spec => []QueuedIsKnown
<1>1. IInv => QueuedIsKnown
  BY DEF IInv
<1> QED BY <1>1, Invariance, PTL

\* With no read error and no crash, max_jobs bounds live children too.
THEOREM LiveWithinSlotsHolds == Spec => []LiveWithinSlots
<1>1. IInv => LiveWithinSlots
  BY DEF IInv, ChildOfTask, LiveWithinSlots, SlotHeld, Alive
<1> QED BY <1>1, Invariance, PTL


\* "hard cap regardless of resources" (sched.rs:12) is true of live children
\* where no read of a child's output fails and the server is never restarted.
THEOREM HardCapWithoutFaults ==
  ASSUME Faults \cap {"io", "crash"} = {}
  PROVE  Spec => []HardCap
<1>1. IInv => HardCap
  <2> SUFFICES ASSUME IInv PROVE HardCap
    OBVIOUS
  <2> DEFINE Live == {j \in Jobs : proc[j] \in Alive}
  <2>1. Live \in SUBSET slots
    BY DEF IInv, ChildOfTask, SlotHeld, Alive
  <2>2. IsFiniteSet(slots) /\ Cardinality(slots) <= MaxJobs
    BY ServerAssumption, FS_Subset DEF IInv, TypeOK, SlotsCapped
  <2>3. Cardinality(Live) <= Cardinality(slots) /\ Cardinality(Live) \in Nat
    BY <2>1, <2>2, FS_Subset, FS_CardinalityType
  <2>4. Cardinality(slots) \in Nat /\ MaxJobs \in Nat
    BY <2>2, FS_CardinalityType, ConfigAssumption
  <2> QED BY <2>2, <2>3, <2>4 DEF HardCap
<1> QED BY <1>1, Invariance, PTL

------------------------------------------------------------------------------
(* The rows implement JobLifecycle.                                        *)

\* What a step does to the rows, read off the actions that write the column.
LEMMA StatusSteps ==
  ASSUME IInv, [Next]_vars
  PROVE  \/ UNCHANGED status
         \/ \E j \in Jobs : \/ status[j] = "none" /\ status' = [status EXCEPT ![j] = "queued"]
                            \/ BeginRun(j) /\ status' = [status EXCEPT ![j] = "running"]
                            \/ FinishRun(j) /\ status[j] = "running"
                               /\ \E s \in Ended : status' = [status EXCEPT ![j] = s]
                            \/ FailRun(j) /\ status[j] \in {"queued", "running"}
                               /\ status' = [status EXCEPT ![j] = "failed"]
         \/ Restart
<1>1. ASSUME NEW j \in Jobs, NEW p \in Jobs \cup {NoJob}, CreateRow(j, p)
      PROVE  status[j] = "none" /\ status' = [status EXCEPT ![j] = "queued"]
  BY <1>1 DEF CreateRow
<1>2. ASSUME NEW j \in Jobs, Handler(j) \/ Child(j) \/ Expire(j)
      PROVE  UNCHANGED status
  BY <1>2 DEF Handler, WriteInputs, HandlerFails, SendNew, Child, Checkout, AgentExits,
              KernelExits, Expire, disk
<1>3. ASSUME NEW j \in Jobs, RunJob(j)
      PROVE  \/ UNCHANGED status
             \/ BeginRun(j) /\ status' = [status EXCEPT ![j] = "running"]
             \/ FinishRun(j) /\ status[j] = "running"
                /\ \E s \in Ended : status' = [status EXCEPT ![j] = s]
             \/ FailRun(j) /\ status[j] \in {"queued", "running"}
                /\ status' = [status EXCEPT ![j] = "failed"]
  <2>1. RowOf(j)
    BY InvGroups, RowsPointwise
  <2>2. CASE BeginRun(j)
    BY <2>2 DEF BeginRun
  <2>3. CASE FinishRun(j)
    <3>1. status[j] = "running"
      BY <2>1, <2>3 DEF FinishRun, RowOf, RunPC
    <3>2. UNCHANGED status \/ \E s \in Ended : status' = [status EXCEPT ![j] = s]
      BY <2>3 DEF FinishRun, Ended
    <3> QED BY <2>3, <3>1, <3>2
  <2>4. CASE FailRun(j)
    <3>1. status[j] \in {"queued", "running"}
      BY <2>1, <2>4 DEF FailRun, RowOf
    <3>2. UNCHANGED status \/ status' = [status EXCEPT ![j] = "failed"]
      BY <2>4 DEF FailRun
    <3> QED BY <2>4, <3>1, <3>2
  <2>5. CASE StartAgent(j) \/ EndAgent(j) \/ StartKernel(j) \/ StageBreaks(j) \/ StreamBreaks(j)
             \/ Reclaim(j)
    BY <2>5 DEF StartAgent, EndAgent, StartKernel, StageBreaks, StreamBreaks, Reclaim, disk
  <2> QED BY <1>3, <2>2, <2>3, <2>4, <2>5 DEF RunJob
<1>4. CASE Scheduler \/ Sweep \/ Crash \/ UNCHANGED vars
  BY <1>4 DEF Scheduler, Receive, Tick, Admit, StopAdmitting, Sweep, SweepBegins,
              SweepMarks, SweepRemoves, Crash, disk, vars
<1> QED BY <1>1, <1>2, <1>3, <1>4 DEF Next

\* A step keeps the status of a job that has ended.
LEMMA EndedStep ==
  ASSUME IInv, [Next]_vars, NEW k \in Jobs, status[k] \in Ended
  PROVE  status'[k] = status[k]
<1>1. status \in [Jobs -> Status]
  BY DEF IInv, TypeOK
<1>2. status[k] \notin {"none", "queued", "running"}
  BY DEF Ended
<1>3. ASSUME NEW j \in Jobs, BeginRun(j)
      PROVE  status[j] = "queued"
  <2>1. RowOf(j)
    BY InvGroups, RowsPointwise
  <2> QED BY <1>3, <2>1 DEF BeginRun, RowOf, Waiting
<1>4. CASE Restart
  BY <1>1, <1>2, <1>4 DEF Restart
<1> QED BY <1>1, <1>2, <1>3, <1>4, StatusSteps

\* done and failed are final, whatever comes late and whatever fails.
THEOREM EndedIsFinalHolds == Spec => EndedIsFinal
<1> DEFINE Final == \A j \in Jobs : status[j] \in Ended => status'[j] = status[j]
<1>1. IInv /\ [Next]_vars => Final
  BY EndedStep
<1>2. Spec => [][Final]_vars
  BY <1>1, Invariance, PTL DEF Spec
<1> QED BY <1>2 DEF EndedIsFinal

\* A job starts only in a slot of its own: fewer than MaxJobs rows are running.
LEMMA RoomToStart ==
  ASSUME IInv, ~DB, NEW j \in Jobs, BeginRun(j)
  PROVE  status[j] = "queued" /\ Cardinality(Lifecycle!Active) < MaxJobs
<1>1. up /\ task[j] = "start" /\ j \in slots
  BY DEF BeginRun, IInv, SlotHeld
<1>2. status[j] = "queued"
  BY <1>1, InvGroups, RowsPointwise DEF RowOf, Waiting
<1>3. Lifecycle!Active \in SUBSET (slots \ {j})
  <2>1. \A k \in Jobs : status[k] = "running" => k \in slots /\ k # j
    BY <1>1, <1>2 DEF IInv, RunningIsLive, SlotHeld
  <2> QED BY <2>1 DEF Lifecycle!Active
<1>4. IsFiniteSet(slots) /\ Cardinality(slots) \in Nat /\ Cardinality(slots) <= MaxJobs
  BY ServerAssumption, FS_Subset, FS_CardinalityType DEF IInv, TypeOK, SlotsCapped
<1>5. IsFiniteSet(slots \ {j}) /\ Cardinality(slots \ {j}) = Cardinality(slots) - 1
  BY <1>1, <1>4, FS_RemoveElement
<1>6. /\ Cardinality(Lifecycle!Active) <= Cardinality(slots \ {j})
      /\ Cardinality(Lifecycle!Active) \in Nat
  BY <1>3, <1>5, FS_Subset, FS_CardinalityType
<1> QED BY <1>2, <1>4, <1>5, <1>6, ConfigAssumption

\* With database writes that succeed, the jobs table behaves as JobLifecycle
\* promises, through every interleaving, failed read, crash and restart: the
\* detailed specification implements the abstract one.
THEOREM LifecycleRefined ==
  ASSUME ~DB
  PROVE  Spec => LifecycleSpec
<1>1. Init => Lifecycle!Init
  BY DEF Init, Lifecycle!Init
<1>2. IInv /\ [Next]_vars => [Lifecycle!Next]_status
  <2> SUFFICES ASSUME IInv, [Next]_vars, status' # status
               PROVE  Lifecycle!Next
    OBVIOUS
  <2>1. ASSUME NEW j \in Jobs, status[j] = "none", status' = [status EXCEPT ![j] = "queued"]
        PROVE  Lifecycle!Create(j)
    BY <2>1 DEF Lifecycle!Create
  <2>2. ASSUME NEW j \in Jobs, BeginRun(j), status' = [status EXCEPT ![j] = "running"]
        PROVE  Lifecycle!Start(j)
    <3>1. status[j] = "queued" /\ Cardinality(Lifecycle!Active) < MaxJobs
      BY <2>2, RoomToStart
    <3>2. Lifecycle!Cardinality(Lifecycle!Active) = Cardinality(Lifecycle!Active)
      BY DEF Lifecycle!Cardinality, Cardinality
    <3> QED BY <2>2, <3>1, <3>2 DEF Lifecycle!Start
  <2>3. ASSUME NEW j \in Jobs, status[j] = "running", NEW s \in Ended,
               status' = [status EXCEPT ![j] = s]
        PROVE  Lifecycle!End(j)
    BY <2>3 DEF Lifecycle!End, Ended
  <2>4. ASSUME NEW j \in Jobs, status[j] \in {"queued", "running"},
               status' = [status EXCEPT ![j] = "failed"]
        PROVE  Lifecycle!End(j)
    BY <2>4 DEF Lifecycle!End
  <2>5. CASE Restart
    BY <2>5 DEF Restart, Lifecycle!Next, Lifecycle!Recover
  <2> QED BY <2>1, <2>2, <2>3, <2>4, <2>5, StatusSteps DEF Lifecycle!Next
<1> QED BY <1>1, <1>2, Invariance, PTL DEF Spec, LifecycleSpec, Lifecycle!Spec

------------------------------------------------------------------------------
(* The sum of what the running jobs are charged: a fold over a finite set, *)
(* by induction on its size.                                               *)

\* A collection that holds the empty set, and a set whenever it holds what is left
\* of it without some element, holds every finite set.
LEMMA FiniteSetInduction ==
  ASSUME NEW S, IsFiniteSet(S), NEW G,
         \A T \in SUBSET S : T = {} \/ (\A x \in T : T \ {x} \in G) => T \in G
  PROVE  SUBSET S \subseteq G
<1> SUFFICES ASSUME NEW U \in SUBSET S, U \notin G PROVE FALSE
  OBVIOUS
<1> DEFINE Sizes == {Cardinality(T) : T \in {V \in SUBSET S : V \notin G}}
<1>1. \A T \in SUBSET S : IsFiniteSet(T) /\ Cardinality(T) \in Nat
  BY FS_Subset, FS_CardinalityType
<1>2. Sizes \in SUBSET Nat /\ Sizes # {}
  BY <1>1
<1>3. PICK n \in Sizes : \A m \in Sizes : n <= m
  BY <1>2, LeastNat
<1>4. PICK T \in SUBSET S : T \notin G /\ Cardinality(T) = n
  BY <1>3
<1>5. PICK x \in T : T \ {x} \notin G
  BY <1>4
<1>6. T \ {x} \in SUBSET S /\ Cardinality(T \ {x}) = n - 1
  BY <1>1, <1>4, <1>5, FS_RemoveElement
<1>7. n - 1 \in Sizes
  BY <1>5, <1>6
<1> HIDE DEF Sizes
<1> QED
  BY <1>2, <1>3, <1>7

Pick(T) == CHOOSE x \in T : TRUE

\* One step of the sum of the reserved RAM.
RamStep(r, f, T) == IF T = {} THEN 0 ELSE r[Pick(T)].ram + f[T \ {Pick(T)}]
RamSums(r, S) == CHOOSE f : f = [T \in SUBSET S |-> RamStep(r, f, T)]

LEMMA ReservedIsSums ==
  ASSUME NEW r, NEW S
  PROVE  Reserved(S, r).ram = RamSums(r, S)[S]
BY DEF Reserved, MapThenSumSet, MapThenFoldSet, RamSums, RamStep, Pick

\* The sums exist: for sets of up to n jobs, for every n.
LEMMA SumsExist ==
  ASSUME NEW r, NEW S, IsFiniteSet(S)
  PROVE  \A T \in SUBSET S : RamSums(r, S)[T] = RamStep(r, RamSums(r, S), T)
<1> DEFINE UpTo(f, n) == \A T \in SUBSET S : Cardinality(T) <= n => f[T] = RamStep(r, f, T)
           Bad == {n \in Nat : ~ \E f : UpTo(f, n)}
<1>1. \A T \in SUBSET S : IsFiniteSet(T) /\ Cardinality(T) \in Nat
  BY FS_Subset, FS_CardinalityType
<1>2. \A T \in SUBSET S : T # {} =>
        Pick(T) \in T /\ T \ {Pick(T)} \in SUBSET S /\ Cardinality(T \ {Pick(T)}) = Cardinality(T) - 1
  BY <1>1, FS_RemoveElement DEF Pick
<1>3. \E f : UpTo(f, 0)
  <2>1. UpTo([T \in SUBSET S |-> 0], 0)
    BY <1>1, FS_EmptySet DEF RamStep
  <2> QED BY <2>1
<1>4. ASSUME NEW n \in Nat, NEW f, UpTo(f, n) PROVE \E g : UpTo(g, n + 1)
  <2> DEFINE g == [T \in SUBSET S |-> RamStep(r, f, T)]
  <2>1. ASSUME NEW T \in SUBSET S, Cardinality(T) <= n + 1
        PROVE  g[T] = RamStep(r, g, T)
    <3>1. CASE T = {}
      BY <3>1 DEF RamStep
    <3>2. CASE T # {}
      <4> DEFINE V == T \ {Pick(T)}
      <4>1. V \in SUBSET S /\ Cardinality(V) <= n
        BY <1>1, <1>2, <2>1, <3>2
      <4>2. f[V] = g[V]
        BY <1>4, <4>1
      <4> QED BY <3>2, <4>2 DEF RamStep
    <3> QED BY <3>1, <3>2
  <2> QED BY <2>1
<1>5. \A n \in Nat : \E f : UpTo(f, n)
  <2> SUFFICES ASSUME Bad # {} PROVE FALSE
    OBVIOUS
  <2>1. PICK n \in Bad : \A m \in Bad : n <= m
    BY LeastNat
  <2>2. n # 0 /\ n \in Nat
    BY <1>3, <2>1
  <2>3. n - 1 \in Nat /\ n - 1 \notin Bad
    BY <2>1, <2>2
  <2>4. PICK f : UpTo(f, n - 1)
    BY <2>3
  <2>5. \E g : UpTo(g, n - 1 + 1)
    BY <1>4, <2>3, <2>4
  <2> QED BY <2>1, <2>2, <2>5
<1>6. PICK f : UpTo(f, Cardinality(S))
  BY <1>1, <1>5
<1>7. \A T \in SUBSET S : f[T] = RamStep(r, f, T)
  BY <1>1, <1>6, FS_Subset
<1> DEFINE h == [T \in SUBSET S |-> f[T]]
<1>8. \A T \in SUBSET S : RamStep(r, f, T) = RamStep(r, h, T)
  BY <1>2 DEF RamStep
<1>9. h = [T \in SUBSET S |-> RamStep(r, h, T)]
  BY <1>7, <1>8
<1> HIDE DEF h
<1>10. RamSums(r, S) = [T \in SUBSET S |-> RamStep(r, RamSums(r, S), T)]
  BY <1>9 DEF RamSums
<1> DEFINE a == RamSums(r, S)
<1>11. a = [T \in SUBSET S |-> RamStep(r, a, T)]
  BY <1>10
<1> HIDE DEF a
<1>12. \A T \in SUBSET S : a[T] = RamStep(r, a, T)
  BY <1>11
<1> QED BY <1>12 DEF a

\* The sum over a set does not depend on the set it was made for.
LEMMA SumsAgree ==
  ASSUME NEW r, NEW S, IsFiniteSet(S), NEW T \in SUBSET S
  PROVE  RamSums(r, S)[T] = RamSums(r, T)[T]
<1> DEFINE G == {U \in SUBSET T : RamSums(r, S)[U] = RamSums(r, T)[U]}
<1>1. IsFiniteSet(T)
  BY FS_Subset
<1>2. \A U \in SUBSET T :
        /\ RamSums(r, S)[U] = RamStep(r, RamSums(r, S), U)
        /\ RamSums(r, T)[U] = RamStep(r, RamSums(r, T), U)
  BY <1>1, SumsExist
<1>3. \A U \in SUBSET T : U = {} \/ (\A x \in U : U \ {x} \in G) => U \in G
  <2> SUFFICES ASSUME NEW U \in SUBSET T, U = {} \/ \A x \in U : U \ {x} \in G
               PROVE  U \in G
    OBVIOUS
  <2>1. U # {} => U \ {Pick(U)} \in G
    BY DEF Pick
  <2> QED BY <1>2, <2>1 DEF RamStep
<1>4. SUBSET T \subseteq G
  <2> HIDE DEF G
  <2> QED BY <1>1, <1>3, FiniteSetInduction
<1> QED BY <1>4

\* The reserved RAM is the sum that its name says.
LEMMA ReservedRam ==
  ASSUME NEW r, NEW S, IsFiniteSet(S)
  PROVE  Reserved(S, r).ram =
           IF S = {} THEN 0 ELSE r[Pick(S)].ram + Reserved(S \ {Pick(S)}, r).ram
<1>1. RamSums(r, S)[S] = RamStep(r, RamSums(r, S), S)
  BY SumsExist
<1>2. S # {} => RamSums(r, S)[S \ {Pick(S)}] = RamSums(r, S \ {Pick(S)})[S \ {Pick(S)}]
  BY SumsAgree
<1> QED BY <1>1, <1>2, ReservedIsSums DEF RamStep

\* It is a number.
LEMMA ReservedType ==
  ASSUME NEW S, IsFiniteSet(S), NEW r \in [S -> Amount]
  PROVE  \A T \in SUBSET S : Reserved(T, r).ram \in Nat
<1> DEFINE G == {T \in SUBSET S : Reserved(T, r).ram \in Nat}
<1>1. \A T \in SUBSET S : T = {} \/ (\A x \in T : T \ {x} \in G) => T \in G
  <2> SUFFICES ASSUME NEW T \in SUBSET S, T = {} \/ \A x \in T : T \ {x} \in G
               PROVE  T \in G
    OBVIOUS
  <2>1. IsFiniteSet(T)
    BY FS_Subset
  <2>2. T # {} => Pick(T) \in T
    BY DEF Pick
  <2>3. Reserved(T, r).ram = IF T = {} THEN 0
                             ELSE r[Pick(T)].ram + Reserved(T \ {Pick(T)}, r).ram
    BY <2>1, ReservedRam
  <2>4. CASE T = {}
    BY <2>3, <2>4
  <2>5. CASE T # {}
    <3>1. T \ {Pick(T)} \in G /\ r[Pick(T)].ram \in Nat
      BY <2>2, <2>5 DEF Amount
    <3> QED BY <2>3, <2>5, <3>1
  <2> QED BY <2>4, <2>5
<1>2. SUBSET S \subseteq G
  <2> HIDE DEF G
  <2> QED BY <1>1, FiniteSetInduction
<1> QED BY <1>2

\* Any job of the set can be taken out of the sum.
LEMMA ReservedRemove ==
  ASSUME NEW S, IsFiniteSet(S), NEW r \in [S -> Amount]
  PROVE  \A T \in SUBSET S : \A x \in T :
           Reserved(T, r).ram = r[x].ram + Reserved(T \ {x}, r).ram
<1> DEFINE Out(T) == \A x \in T : Reserved(T, r).ram = r[x].ram + Reserved(T \ {x}, r).ram
           G == {T \in SUBSET S : Out(T)}
<1>1. \A T \in SUBSET S : T = {} \/ (\A x \in T : T \ {x} \in G) => T \in G
  <2> SUFFICES ASSUME NEW T \in SUBSET S, \A y \in T : Out(T \ {y}), NEW x \in T
               PROVE  Reserved(T, r).ram = r[x].ram + Reserved(T \ {x}, r).ram
    OBVIOUS
  <2> DEFINE y == Pick(T)
             V == (T \ {x}) \ {y}
  <2>1. y \in T
    BY DEF Pick
  <2>2. Reserved(T, r).ram = r[y].ram + Reserved(T \ {y}, r).ram
    <3>1. IsFiniteSet(T)
      BY FS_Subset
    <3> QED BY <3>1, ReservedRam
  <2> HIDE DEF y
  <2>3. CASE x = y
    BY <2>2, <2>3
  <2>4. CASE x # y
    <3>1. x \in T \ {y} /\ y \in T \ {x} /\ (T \ {y}) \ {x} = V
      BY <2>1, <2>4
    <3>2. Reserved(T \ {y}, r).ram = r[x].ram + Reserved(V, r).ram
      BY <2>1, <3>1
    <3>3. Reserved(T \ {x}, r).ram = r[y].ram + Reserved(V, r).ram
      BY <3>1
    <3>4. r[x].ram \in Nat /\ r[y].ram \in Nat /\ Reserved(V, r).ram \in Nat
      BY <2>1, ReservedType DEF Amount
    <3> QED BY <2>2, <3>2, <3>3, <3>4
  <2> QED BY <2>3, <2>4
<1>2. SUBSET S \subseteq G
  <2> HIDE DEF G
  <2> QED BY <1>1, FiniteSetInduction
<1> QED BY <1>2

\* Only what the jobs of the set are charged counts.
LEMMA ReservedLocal ==
  ASSUME NEW S, IsFiniteSet(S), NEW r, NEW q, \A x \in S : r[x] = q[x]
  PROVE  Reserved(S, r).ram = Reserved(S, q).ram
<1> DEFINE G == {T \in SUBSET S : Reserved(T, r).ram = Reserved(T, q).ram}
<1>1. \A T \in SUBSET S : T = {} \/ (\A x \in T : T \ {x} \in G) => T \in G
  <2> SUFFICES ASSUME NEW T \in SUBSET S, T = {} \/ \A x \in T : T \ {x} \in G
               PROVE  T \in G
    OBVIOUS
  <2>1. IsFiniteSet(T)
    BY FS_Subset
  <2>2. T # {} => Pick(T) \in T
    BY DEF Pick
  <2>3. \A f \in {r, q} : Reserved(T, f).ram =
          IF T = {} THEN 0 ELSE f[Pick(T)].ram + Reserved(T \ {Pick(T)}, f).ram
    BY <2>1, ReservedRam
  <2>4. CASE T = {}
    BY <2>3, <2>4
  <2>5. CASE T # {}
    <3>1. T \ {Pick(T)} \in G /\ r[Pick(T)] = q[Pick(T)]
      BY <2>2, <2>5
    <3> QED BY <2>3, <2>5, <3>1
  <2> QED BY <2>4, <2>5
<1>2. SUBSET S \subseteq G
  <2> HIDE DEF G
  <2> QED BY <1>1, FiniteSetInduction
<1> QED BY <1>2

------------------------------------------------------------------------------
(* The reservations fit.                                                   *)

\* Freeing a slot makes the sum no larger.
LEMMA ReceiveKeepsFit ==
  ASSUME TypeOK, ReservationsFit, Receive
  PROVE  ReservationsFit'
<1> DEFINE m == Head(chan)
<1>1. CASE m.kind = "New"
  BY <1>1 DEF Receive, ReservationsFit
<1>2. CASE m.kind # "New"
  <2>1. m.job \in Jobs
    BY TailRange, Messages DEF Receive, TypeOK
  <2> HIDE DEF m
  <2>2. slots' = slots \ {m.job} /\ resv' = [resv EXCEPT ![m.job] = NoAmount]
    BY <1>2 DEF Receive, m
  <2>3. IsFiniteSet(slots) /\ IsFiniteSet(slots') /\ IsFiniteSet(Jobs)
    BY <2>2, ServerAssumption, FS_Subset DEF TypeOK
  <2>4. Reserved(slots', resv').ram = Reserved(slots', resv).ram
    <3>1. \A j \in slots' : resv'[j] = resv[j]
      BY <2>1, <2>2 DEF TypeOK
    <3> QED BY <2>3, <3>1, ReservedLocal
  <2>5. Reserved(slots', resv).ram <= Reserved(slots, resv).ram
    <3>1. Reserved(slots', resv).ram \in Nat
      BY <2>2, <2>3, ReservedType DEF TypeOK
    <3>2. CASE m.job \in slots
      <4>1. Reserved(slots, resv).ram = resv[m.job].ram + Reserved(slots', resv).ram
        <5>1. \A j \in slots :
                Reserved(slots, resv).ram = resv[j].ram + Reserved(slots \ {j}, resv).ram
          BY <2>3, ReservedRemove DEF TypeOK
        <5>2. slots' = slots \ {m.job}
          BY <2>2
        <5> QED BY <3>2, <5>1, <5>2, Zenon
      <4>2. resv[m.job].ram \in Nat
        BY <2>1 DEF TypeOK, Amount
      <4> QED BY <3>1, <4>1, <4>2
    <3>3. CASE m.job \notin slots
      <4>1. slots' = slots
        BY <2>2, <3>3
      <4> QED BY <3>1, <4>1
    <3> QED BY <3>2, <3>3
  <2>6. Reserved(slots, resv).ram \in Nat /\ Reserved(slots', resv).ram \in Nat
    BY <2>2, <2>3, ReservedType DEF TypeOK
  <2>7. RamReserve \in Nat /\ TotalRam \in Nat
    BY ConfigAssumption
  <2> QED BY <2>2, <2>4, <2>5, <2>6, <2>7 DEF ReservationsFit
<1> QED BY <1>1, <1>2

\* can_admit adds the newcomer's charge to what the running jobs are charged.
LEMMA AdmitKeepsFit ==
  ASSUME IInv, Admit
  PROVE  ReservationsFit'
<1> DEFINE j == Head(queue)
<1>1. j \in Jobs /\ j \notin slots
  BY TailRange DEF IInv, TypeOK, ScheduledOnce, Admit
<1> HIDE DEF j
<1>2. PICK est \in Estimates, df \in DfReadings :
        Admissible(est, df) /\ resv' = [resv EXCEPT ![j] = est]
  BY DEF Admit, j
<1>3. slots' = slots \cup {j}
  BY DEF Admit, j
<1>4. est \in Amount
  BY <1>2, EstimatesType DEF IInv
<1>5. Reserved(slots, resv).ram + est.ram + RamReserve <= TotalRam
  BY <1>2 DEF Admissible, CanAdmit, RamFits
<1>6. resv' \in [Jobs -> Amount] /\ IsFiniteSet(Jobs) /\ slots \in SUBSET Jobs /\ IsFiniteSet(slots)
  BY <1>2, <1>4, ServerAssumption, FS_Subset DEF IInv, TypeOK
<1>7. Reserved(slots', resv').ram = est.ram + Reserved(slots, resv').ram
  <2>1. Reserved(slots', resv').ram = resv'[j].ram + Reserved(slots' \ {j}, resv').ram
    BY <1>1, <1>3, <1>6, ReservedRemove
  <2>2. slots' \ {j} = slots /\ resv'[j] = est
    BY <1>1, <1>2, <1>3 DEF IInv, TypeOK
  <2> QED BY <2>1, <2>2
<1>8. Reserved(slots, resv').ram = Reserved(slots, resv).ram
  <2>1. \A k \in slots : resv'[k] = resv[k]
    BY <1>1, <1>2, <1>6 DEF IInv, TypeOK
  <2> QED BY <1>6, <2>1, ReservedLocal
<1>9. Reserved(slots, resv).ram \in Nat /\ est.ram \in Nat
  BY <1>4, <1>6, ReservedType DEF IInv, TypeOK, Amount
<1> QED BY <1>5, <1>7, <1>8, <1>9 DEF ReservationsFit

\* Nothing else touches the slots or what they are charged.
LEMMA FitStep == IInv /\ ReservationsFit /\ [Next]_vars => ReservationsFit'
<1> SUFFICES ASSUME IInv, ReservationsFit, [Next]_vars PROVE ReservationsFit'
  OBVIOUS
<1>1. CASE Receive
  BY <1>1, ReceiveKeepsFit DEF IInv
<1>2. CASE Admit
  BY <1>2, AdmitKeepsFit
<1>3. CASE Crash
  BY <1>3 DEF Crash, ReservationsFit
<1>4. CASE UNCHANGED <<slots, resv>>
  BY <1>4 DEF ReservationsFit
<1>5. Receive \/ Admit \/ Crash \/ UNCHANGED <<slots, resv>>
  BY DEF Next, vars, loop, CreateRow, Handler, WriteInputs, HandlerFails, SendNew,
     RunJob, BeginRun, StartAgent, EndAgent, StartKernel, StageBreaks, StreamBreaks, FinishRun,
     Reclaim, FailRun, Child, Checkout, AgentExits, KernelExits, Expire, Scheduler,
     Tick, StopAdmitting, Sweep, SweepBegins, SweepRemoves, SweepMarks, Restart
<1> QED BY <1>1, <1>2, <1>3, <1>4, <1>5

\* The reservations of the running jobs and the host's reserve fit in physical
\* memory at all times, though the estimate a job is charged changes with the peaks
\* that are learned (can_admit's RAM gate, and the running map it sums).
THEOREM ReservationsFitHolds == Spec => []ReservationsFit
<1>1. Init => ReservationsFit
  BY DEF Init, ReservationsFit
<1> QED BY <1>1, FitStep, Invariance, PTL DEF Spec

------------------------------------------------------------------------------
(* What the gate does with a peak that is too large.  Peaks are never      *)
(* forgotten, and estimate() takes the largest.                            *)

\* A job has ended whose measured peak leaves no room for the host's reserve.
Outgrown == \E k \in Jobs : status[k] \in Ended /\ peak[k].ram + RamReserve > TotalRam

\* Then nothing is admitted any more, whatever ends, is swept or restarts.
OutgrownForGood == [][Outgrown => Outgrown' /\ slots' \subseteq slots]_vars

\* The estimate is no less than any peak on record.
LEMMA EstimateCovers ==
  ASSUME TypeOK, NEW k \in Jobs, status[k] # "none"
  PROVE  Estimate(Peaks).ram >= peak[k].ram
<1> DEFINE Created == {i \in Jobs : status[i] # "none"}
           peaks == [i \in Created |-> peak[i]]
           ram == [p \in Peaks |-> p.ram]
           Rams == {p.ram : p \in Peaks}
<1>1. IsFiniteSet(Created)
  BY ServerAssumption, FS_Subset
<1>2. peaks \in Surjection(Created, Peaks) /\ ram \in Surjection(Peaks, Rams)
  BY DEF Surjection, Peaks
<1>3. IsFiniteSet(Rams)
  BY <1>1, <1>2, FS_Surjection, Zenon
<1>4. Rams \subseteq Nat /\ EstRam \in Nat
  <2>1. Peaks \in SUBSET Amount
    BY DEF TypeOK, Peaks
  <2> QED BY <2>1, ConfigAssumption DEF Amount
<1>5. peak[k].ram \in Rams
  BY DEF Peaks
<1> HIDE DEF Rams
<1>6. {EstRam} \cup Rams = Rams \cup {EstRam}
  OBVIOUS
<1>7. IsFiniteSet({EstRam} \cup Rams) /\ {EstRam} \cup Rams \in SUBSET Nat
  BY <1>3, <1>4, <1>6, FS_AddElement
<1>8. Max({EstRam} \cup Rams) >= peak[k].ram
  BY <1>5, <1>7, MaxNat
<1> QED BY <1>8 DEF Estimate, Rams

\* A step writes a job's peak only when it ends the job.
LEMMA PeakSteps ==
  ASSUME IInv, [Next]_vars, NEW k \in Jobs, status[k] \in Ended
  PROVE  peak'[k] = peak[k]
<1> USE DEF IInv, TypeOK
<1>1. RowOf(k)
  BY InvGroups, RowsPointwise
<1>2. task[k] \notin {"stream", "err"}
  BY <1>1 DEF RowOf, RunPC, Ended
<1>3. ASSUME NEW j \in Jobs, FinishRun(j) \/ FailRun(j)
      PROVE  peak'[k] = peak[k]
  BY <1>2, <1>3 DEF FinishRun, FailRun
<1>4. ASSUME ~(\E j \in Jobs : FinishRun(j) \/ FailRun(j))
      PROVE  UNCHANGED peak
  BY <1>4 DEF Next, vars, disk, CreateRow, Handler, WriteInputs, HandlerFails, SendNew,
     RunJob, BeginRun, StartAgent, EndAgent, StartKernel, StageBreaks, StreamBreaks, Reclaim, Child,
     Checkout, AgentExits, KernelExits, Expire, Scheduler, Receive, Tick, Admit,
     StopAdmitting, Sweep, SweepBegins, SweepRemoves, SweepMarks, Crash, Restart
<1> QED BY <1>3, <1>4

\* A job on the queue is refused while a peak leaves no room, unless the query
\* for the peaks fails and the configured default is used.
LEMMA NoRoom ==
  ASSUME IInv, ~DB, Outgrown
  PROVE  ~Admit
<1> SUFFICES ASSUME Admit PROVE FALSE
  OBVIOUS
<1>1. PICK k \in Jobs : status[k] \in Ended /\ peak[k].ram + RamReserve > TotalRam
  BY DEF Outgrown
<1>2. PICK est \in Estimates, df \in DfReadings : Admissible(est, df)
  BY DEF Admit
<1>3. est = Estimate(Peaks)
  BY DEF Estimates
<1>4. est \in Amount /\ est.ram >= peak[k].ram
  BY <1>1, <1>3, EstimateCovers, EstimatesType DEF IInv, Ended
<1>5. Reserved(slots, resv).ram + est.ram + RamReserve <= TotalRam
  BY <1>2 DEF Admissible, CanAdmit, RamFits
<1>6. Reserved(slots, resv).ram \in Nat
  BY ReservedType, ServerAssumption, FS_Subset DEF IInv, TypeOK
<1>7. est.ram \in Nat /\ peak[k].ram \in Nat /\ RamReserve \in Nat /\ TotalRam \in Nat
  BY <1>4, ConfigAssumption DEF IInv, TypeOK, Amount
<1> QED BY <1>1, <1>4, <1>5, <1>6, <1>7

\* One job that was measured to need more memory than there is, less the host's
\* reserve, closes the server: no job, however small, is admitted after it, also
\* after the sweep and after a restart.  (estimate() takes the largest ram_peak of
\* all rows, can_admit refuses it even with nothing running, and no operation
\* removes a row or lowers a peak.)  A failing query for the peaks would let one in.
THEOREM OutgrownForGoodHolds ==
  ASSUME ~DB
  PROVE  Spec => OutgrownForGood
<1> DEFINE Closed == Outgrown => Outgrown' /\ slots' \subseteq slots
<1>1. IInv /\ [Next]_vars => Closed
  <2> SUFFICES ASSUME IInv, [Next]_vars, Outgrown
               PROVE  Outgrown' /\ slots' \subseteq slots
    OBVIOUS
  <2>1. Outgrown'
    <3>1. PICK k \in Jobs : status[k] \in Ended /\ peak[k].ram + RamReserve > TotalRam
      BY DEF Outgrown
    <3>2. status'[k] = status[k] /\ peak'[k] = peak[k]
      BY <3>1, EndedStep, PeakSteps
    <3> QED BY <3>1, <3>2 DEF Outgrown
  <2>2. slots' \subseteq slots
    <3>1. CASE Receive
      BY <3>1 DEF Receive, loop
    <3>2. CASE Crash
      BY <3>2 DEF Crash
    <3>3. Receive \/ Admit \/ Crash \/ UNCHANGED slots
      BY DEF Next, vars, loop, CreateRow, Handler, WriteInputs, HandlerFails, SendNew,
         RunJob, BeginRun, StartAgent, EndAgent, StartKernel, StageBreaks, StreamBreaks, FinishRun,
         Reclaim, FailRun, Child, Checkout, AgentExits, KernelExits, Expire, Scheduler,
         Tick, StopAdmitting, Sweep, SweepBegins, SweepRemoves, SweepMarks, Restart
    <3> QED BY <3>1, <3>2, <3>3, NoRoom
  <2> QED BY <2>1, <2>2
<1>2. Spec => [][Closed]_vars
  BY <1>1, Invariance, PTL DEF Spec
<1> QED BY <1>2 DEF OutgrownForGood

------------------------------------------------------------------------------
(* The job directories, the children and the API keys.  IInv says where a  *)
(* job is; DirInv adds what its directory holds, which child it can have   *)
(* and whether its key is in memory.  It is inductive together with IInv:  *)
(* that nobody empties or fills the directory of a job on its way rests on *)
(* what its row says.                                                      *)

\* The handler has written the inputs and no task has begun on them.
Ready(j) == Waiting(j) /\ handler[j] # "row"

\* The conjuncts below, of one job.
DirOf(j) ==
  /\ handler[j] = "none" \/ Waiting(j) => proc[j] = "none"
  /\ j \in sweepTodo => status[j] \in Ended
  /\ j \in creds => up /\ j \in ScaffoldJobs
  /\ ~IO =>
       /\ Ready(j) /\ j \in BundleJobs => "bundle" \in files[j] /\ "spec" \notin files[j]
       /\ Ready(j) /\ j \in ScaffoldJobs => "spec" \in files[j] /\ "bundle" \notin files[j]
       /\ task[j] \in {"spawn", "stream"} => "bundle" \in files[j] /\ "spec" \notin files[j]
       /\ task[j] \in {"agent", "spawn", "stream"} => j \notin creds
  /\ ~IO /\ ~DB /\ j \in creds => Ready(j) \/ task[j] = "scaffold"

\* A child belongs to a job a task has begun, the sweep only takes ended jobs,
\* and a job that is ready has exactly the inputs its handler gave it.
DirInv == \A j \in Jobs : DirOf(j)

------------------------------------------------------------------------------
(* Where a job is, from IInv.                                              *)

\* A job its handler has not sent is nowhere in the scheduler.
LEMMA Unsent ==
  ASSUME IInv, NEW j \in Jobs, handler[j] # "sent"
  PROVE  New(j) \notin Range(chan) /\ j \notin Range(queue) /\ task[j] = "none"
  BY DEF IInv, HandlerFresh, SlotHeld

\* A job a task runs is nowhere else.
LEMMA AtTask ==
  ASSUME IInv, NEW j \in Jobs, task[j] # "none"
  PROVE  /\ handler[j] = "sent" /\ New(j) \notin Range(chan) /\ j \notin Range(queue)
         /\ Waiting(j) <=> task[j] = "start"
<1>1. j \in slots
  BY DEF IInv, SlotHeld
<1> QED BY <1>1 DEF IInv, HandlerFresh, ScheduledOnce, Waiting

\* A job that has ended waits for nothing and has no task but to reclaim.
LEMMA AtEnd ==
  ASSUME IInv, NEW j \in Jobs, status[j] \in Ended
  PROVE  ~Waiting(j) /\ task[j] \in {"none", "reclaim"}
<1>1. RowOf(j)
  BY InvGroups, RowsPointwise
<1>2. task[j] \in TaskPC
  BY DEF IInv, TypeOK
<1> QED BY <1>1, <1>2 DEF RowOf, Waiting, RunPC, TaskPC, Ended

------------------------------------------------------------------------------
(* One lemma for the steps of each actor.                                  *)

\* What DirOf looks at is, of job k, as before.
Same(k) ==
  /\ UNCHANGED up
  /\ status'[k] = status[k] /\ handler'[k] = handler[k] /\ task'[k] = task[k]
  /\ proc'[k] = proc[k] /\ files'[k] = files[k]
  /\ k \in creds' <=> k \in creds
  /\ k \in sweepTodo' <=> k \in sweepTodo
  /\ Waiting(k)' <=> Waiting(k)

\* Then DirOf is, too.
LEMMA SameKeepsDir ==
  ASSUME NEW k \in Jobs, DirOf(k), Same(k)
  PROVE  DirOf(k)'
<1>1. Ready(k)' <=> Ready(k)
  BY DEF Same, Ready
<1> QED BY <1>1 DEF Same, DirOf

\* The rule by which the steps of one job are checked.
LEMMA OneDirKept ==
  ASSUME DirInv, NEW j \in Jobs, \A k \in Jobs \ {j} : Same(k), DirOf(j)'
  PROVE  DirInv'
<1>1. ASSUME NEW k \in Jobs \ {j} PROVE DirOf(k)'
  BY <1>1, SameKeepsDir DEF DirInv
<1> QED BY <1>1 DEF DirInv

\* The request handlers: a directory is filled before anybody is told of it.
LEMMA HandlerKeepsDirs ==
  ASSUME IInv, DirInv, NEW j \in Jobs,
         Handler(j) \/ \E p \in Jobs \cup {NoJob} : CreateRow(j, p)
  PROVE  DirInv'
<1> USE DEF http, loop, disk, sweeper
<1>0. TypeOK
  BY DEF IInv
<1>1. DirOf(j) /\ RowOf(j)
  BY InvGroups, RowsPointwise DEF DirInv
<1>2. New(j) \notin Range(chan) /\ j \notin Range(queue) /\ task[j] = "none"
  <2>1. handler[j] # "sent"
    BY DEF Handler, WriteInputs, HandlerFails, SendNew, CreateRow
  <2> QED BY <2>1, Unsent
<1>3. CASE \E p \in Jobs \cup {NoJob} : CreateRow(j, p)
  <2>1. \A k \in Jobs \ {j} : Same(k)
    BY <1>0, <1>3 DEF CreateRow, Same, Waiting, TypeOK
  <2>2. ~Ready(j)' /\ ~Ready(j)
    BY <1>0, <1>2, <1>3 DEF CreateRow, Ready, Waiting, TypeOK
  <2>3. DirOf(j)'
    BY <1>0, <1>1, <1>2, <1>3, <2>2 DEF CreateRow, DirOf, TypeOK, Ended
  <2> QED BY <2>1, <2>3, OneDirKept
<1>4. CASE WriteInputs(j)
  <2>1. \A k \in Jobs \ {j} : Same(k)
    <3>1. files' = [files EXCEPT ![j] = files'[j]]
      BY <1>0, <1>4 DEF WriteInputs, TypeOK
    <3> QED BY <1>0, <1>4, <3>1 DEF WriteInputs, Same, Waiting, TypeOK
  <2>2. ~IO => files'[j] = Inputs(j)
    BY <1>0, <1>4 DEF WriteInputs, TypeOK
  <2>3. /\ ~IO /\ j \in BundleJobs => "bundle" \in files'[j] /\ "spec" \notin files'[j]
        /\ ~IO /\ j \in ScaffoldJobs => "spec" \in files'[j] /\ "bundle" \notin files'[j]
    BY <2>2, ServerAssumption DEF Inputs
  <2>4. Waiting(j) /\ Ready(j)' /\ Waiting(j)' /\ status[j] = "queued"
    BY <1>0, <1>1, <1>4 DEF WriteInputs, Ready, Waiting, TypeOK, RowOf
  <2>5. proc'[j] = "none" /\ j \notin sweepTodo'
    BY <1>1, <1>4, <2>4 DEF WriteInputs, DirOf, Ended
  <2>6. j \in creds' => up' /\ j \in ScaffoldJobs
    BY <1>1, <1>4 DEF WriteInputs, DirOf
  <2>7. task'[j] = "none"
    BY <1>2, <1>4 DEF WriteInputs
  <2>8. DirOf(j)'
    BY <2>3, <2>4, <2>5, <2>6, <2>7 DEF DirOf
  <2> QED BY <2>1, <2>8, OneDirKept
<1>5. CASE HandlerFails(j)
  <2>1. \A k \in Jobs \ {j} : Same(k)
    <3>1. files' = [files EXCEPT ![j] = files'[j]]
      BY <1>0, <1>5 DEF HandlerFails, TypeOK
    <3> QED BY <1>0, <1>5, <3>1 DEF HandlerFails, Same, Waiting, TypeOK
  <2>2. Waiting(j) /\ ~Ready(j) /\ ~Ready(j)' /\ status[j] = "queued"
    BY <1>0, <1>1, <1>2, <1>5 DEF HandlerFails, Ready, Waiting, TypeOK, RowOf
  <2>3. proc'[j] = "none" /\ j \notin sweepTodo' /\ task'[j] = "none" /\ UNCHANGED <<up, creds>>
    BY <1>1, <1>2, <1>5, <2>2 DEF HandlerFails, DirOf, Ended
  <2>4. DirOf(j)'
    BY <1>1, <1>2, <2>2, <2>3 DEF DirOf
  <2> QED BY <2>1, <2>4, OneDirKept
<1>6. CASE SendNew(j)
  <2>1. Range(chan') = Range(chan) \cup {New(j)}
    BY <1>0, <1>6, AppendRange, Messages DEF SendNew, TypeOK
  <2>2. UNCHANGED <<disk, proc, up, creds, queue, task, sweepTodo>>
        /\ handler' = [handler EXCEPT ![j] = "sent"]
    BY <1>6 DEF SendNew
  <2>3. \A k \in Jobs \ {j} : Same(k)
    BY <1>0, <2>1, <2>2, MessagesDiffer DEF Same, Waiting, TypeOK
  <2>4. Waiting(j) /\ Waiting(j)' /\ Ready(j) /\ Ready(j)'
    BY <1>0, <1>6, <2>1, <2>2 DEF SendNew, Ready, Waiting, TypeOK
  <2>5. DirOf(j)'
    BY <1>1, <2>2, <2>4 DEF DirOf
  <2> QED BY <2>3, <2>5, OneDirKept
<1> QED BY <1>3, <1>4, <1>5, <1>6 DEF Handler

\* The tasks: each finds the inputs as they were written, and the key goes
\* before the agent starts.
LEMMA TaskKeepsDirs ==
  ASSUME IInv, DirInv, NEW j \in Jobs, RunJob(j)
  PROVE  DirInv'
<1>0. TypeOK
  BY DEF IInv
<1>1. task[j] # "none" /\ up /\ UNCHANGED <<up, handler, queue, sweepTodo>>
  BY DEF RunJob, BeginRun, StartAgent, EndAgent, StartKernel, StageBreaks, StreamBreaks, FinishRun,
         Reclaim, FailRun, http, loop, sweeper
<1>2. /\ handler[j] = "sent" /\ New(j) \notin Range(chan) /\ j \notin Range(queue)
      /\ Waiting(j) <=> task[j] = "start"
  BY <1>1, AtTask
<1>3. \A k \in Jobs : New(k) \in Range(chan') <=> New(k) \in Range(chan)
  <2>1. CASE UNCHANGED chan
    BY <2>1
  <2>2. CASE chan' = Append(chan, Finished(j))
    BY <1>0, <2>2, AppendRange, Messages, MessagesDiffer DEF TypeOK
  <2> QED BY <2>1, <2>2 DEF RunJob, BeginRun, StartAgent, EndAgent, StartKernel,
             StageBreaks, StreamBreaks, FinishRun, Reclaim, FailRun
<1>4. ASSUME NEW k \in Jobs \ {j} PROVE Same(k)
  <2>1. /\ status'[k] = status[k] /\ task'[k] = task[k] /\ proc'[k] = proc[k]
        /\ files'[k] = files[k] /\ (k \in creds' <=> k \in creds)
    <3> USE <1>0 DEF TypeOK, Raise, disk, http
    <3>1. CASE BeginRun(j)
      BY <3>1 DEF BeginRun
    <3>2. CASE StartAgent(j)
      BY <3>2 DEF StartAgent
    <3>3. CASE EndAgent(j)
      BY <3>3 DEF EndAgent
    <3>4. CASE StartKernel(j)
      BY <3>4 DEF StartKernel
    <3>5. CASE StageBreaks(j) \/ StreamBreaks(j)
      BY <3>5 DEF StageBreaks, StreamBreaks
    <3>6. CASE FinishRun(j)
      BY <3>6 DEF FinishRun
    <3>7. CASE Reclaim(j) \/ FailRun(j)
      BY <3>7 DEF Reclaim, FailRun
    <3> QED BY <3>1, <3>2, <3>3, <3>4, <3>5, <3>6, <3>7 DEF RunJob
  <2> QED BY <1>1, <1>3, <2>1 DEF Same, Waiting
<1>5. task'[j] # "start" => ~Waiting(j)' /\ ~Ready(j)'
  BY <1>1, <1>2, <1>3 DEF Waiting, Ready
<1>6. DirOf(j) /\ (j \in sweepTodo => task[j] = "reclaim" /\ status[j] \in Ended)
  BY <1>1, AtEnd DEF DirInv, DirOf
<1>7. DirOf(j)'
  <2> USE <1>0 DEF TypeOK, Raise, disk, http
  <2>1. CASE BeginRun(j)
    <3>1. Ready(j) /\ task[j] = "start"
      BY <1>2, <2>1 DEF BeginRun, Ready
    <3>2. /\ UNCHANGED <<files, proc, creds, up, handler>> /\ j \notin sweepTodo'
          /\ task'[j] \in {"scaffold", "spawn", "err"}
          /\ task'[j] = "scaffold" => "spec" \in files[j] /\ "bundle" \notin files[j]
          /\ task'[j] = "spawn" => ~("spec" \in files[j] /\ "bundle" \notin files[j])
          /\ ~DB => task'[j] # "err"
      BY <1>1, <1>6, <2>1 DEF BeginRun
    <3>3. j \in BundleJobs \/ j \in ScaffoldJobs
      BY DEF Jobs
    <3>4. ~IO /\ task'[j] = "spawn" => j \in BundleJobs
      BY <1>6, <3>1, <3>2, <3>3 DEF DirOf
    <3>5. j \in BundleJobs => j \notin creds
      BY <1>6, ServerAssumption DEF DirOf
    <3> QED BY <1>2, <1>5, <1>6, <3>1, <3>2, <3>3, <3>4, <3>5 DEF DirOf
  <2>2. CASE StartAgent(j)
    <3>1. /\ UNCHANGED <<files, up, handler>> /\ j \notin sweepTodo'
          /\ task[j] = "scaffold" /\ task'[j] \in {"agent", "err"}
          /\ creds' \subseteq creds
          /\ task'[j] = "agent" => j \notin creds'
          /\ ~IO /\ ~DB => j \notin creds'
      BY <1>1, <1>6, <2>2 DEF StartAgent
    <3> QED BY <1>2, <1>5, <1>6, <3>1 DEF DirOf
  <2>3. CASE EndAgent(j)
    <3>1. /\ UNCHANGED <<up, handler, creds>> /\ j \notin sweepTodo' /\ task[j] = "agent"
          /\ task'[j] \in {"spawn", "err"} /\ proc'[j] = "none"
          /\ ~IO /\ task'[j] = "spawn" => "bundle" \in files'[j] /\ "spec" \notin files'[j]
      BY <1>1, <1>6, <2>3 DEF EndAgent
    <3> QED BY <1>2, <1>5, <1>6, <3>1 DEF DirOf, Ready
  <2>4. CASE StartKernel(j) \/ StageBreaks(j) \/ StreamBreaks(j)
    <3>1. /\ UNCHANGED <<files, up, handler, creds>> /\ j \notin sweepTodo'
          /\ task[j] \in {"agent", "spawn", "stream"} /\ task'[j] \in {"stream", "err"}
          /\ task[j] = "agent" => task'[j] = "err"
      BY <1>1, <1>6, <2>4 DEF StartKernel, StageBreaks, StreamBreaks
    <3> QED BY <1>2, <1>5, <1>6, <3>1 DEF DirOf, Ready
  <2>5. CASE FinishRun(j)
    <3>1. /\ UNCHANGED <<files, up, handler, creds>> /\ j \notin sweepTodo'
          /\ task[j] = "stream" /\ task'[j] \in {"reclaim", "err"}
      BY <1>1, <1>6, <2>5 DEF FinishRun
    <3> QED BY <1>2, <1>5, <1>6, <3>1 DEF DirOf, Ready
  <2>6. CASE Reclaim(j)
    <3>1. /\ UNCHANGED <<up, handler, creds, status, proc>>
          /\ task[j] = "reclaim" /\ task'[j] = "none"
      BY <1>1, <2>6 DEF Reclaim
    <3> QED BY <1>1, <1>2, <1>5, <1>6, <3>1 DEF DirOf, Ready
  <2>7. CASE FailRun(j)
    <3>1. /\ UNCHANGED <<up, handler, creds, proc>> /\ j \notin sweepTodo'
          /\ task[j] = "err" /\ task'[j] = "none"
      BY <1>1, <1>6, <2>7 DEF FailRun
    <3> QED BY <1>2, <1>5, <1>6, <3>1 DEF DirOf, Ready
  <2> QED BY <2>1, <2>2, <2>3, <2>4, <2>5, <2>6, <2>7 DEF RunJob
<1> QED BY <1>4, <1>7, OneDirKept

\* The loop moves jobs about and touches nothing of theirs.
LEMMA SchedulerKeepsDirs ==
  ASSUME IInv, DirInv, Scheduler
  PROVE  DirInv'
<1>0. TypeOK /\ Scheduling
  BY InvGroups
<1>1. CASE Receive
  <2> DEFINE m == Head(chan)
             j == m.job
  <2>1. /\ m \in Msg /\ Range(chan) = Range(chan') \cup {m} /\ m \notin Range(chan')
        /\ UNCHANGED <<status, task, handler, up, proc, files, creds, sweepTodo>>
    BY <1>0, <1>1, TailRange DEF Receive, TypeOK, Scheduling, ScheduledOnce, disk, http, sweeper
  <2>2. j \in Jobs /\ m = IF m.kind = "New" THEN New(j) ELSE Finished(j)
    BY <2>1, Messages
  <2>3. Range(queue') = IF m.kind = "New" THEN Range(queue) \cup {j} ELSE Range(queue)
    <3>1. queue' = IF m.kind = "New" THEN Append(queue, j) ELSE queue
      BY <1>1 DEF Receive
    <3>2. Range(Append(queue, j)) = Range(queue) \cup {j}
      BY <1>0, <2>2, AppendRange DEF TypeOK
    <3> HIDE DEF m, j
    <3> QED BY <3>1, <3>2
  <2> HIDE DEF m, j
  <2>4. \A k \in Jobs : Waiting(k)' <=> Waiting(k)
    BY <2>1, <2>2, <2>3, MessagesDiffer DEF Waiting
  <2>5. \A k \in Jobs : Same(k)
    BY <2>1, <2>4 DEF Same
  <2> QED BY <2>5, SameKeepsDir DEF DirInv
<1>2. CASE Admit
  <2>0. PICK j \in Jobs : j = Head(queue)
    BY <1>0, <1>2, TailRange DEF Admit, TypeOK
  <2>1. /\ Range(queue) = Range(queue') \cup {j}
        /\ task' = [task EXCEPT ![j] = "start"]
        /\ UNCHANGED <<status, chan, handler, up, proc, files, creds, sweepTodo>>
    BY <1>0, <1>2, <2>0, TailRange DEF Admit, TypeOK, disk, http, sweeper
  <2>2. \A k \in Jobs \ {j} : Same(k)
    BY <1>0, <2>1 DEF Same, Waiting, TypeOK
  <2>3. DirOf(j) /\ handler[j] = "sent"
    BY <1>0, <2>1 DEF DirInv, Scheduling, HandlerFresh
  <2>4. Waiting(j) /\ Waiting(j)' /\ Ready(j) /\ Ready(j)' /\ task'[j] = "start"
    BY <1>0, <2>1, <2>3 DEF Waiting, Ready, TypeOK
  <2>5. DirOf(j)'
    BY <2>1, <2>3, <2>4 DEF DirOf
  <2> QED BY <2>2, <2>5, OneDirKept
<1>3. CASE Tick \/ StopAdmitting
  <2>1. \A k \in Jobs : Same(k)
    BY <1>3 DEF Tick, StopAdmitting, Same, Waiting, disk, http, sweeper
  <2> QED BY <2>1, SameKeepsDir DEF DirInv
<1> QED BY <1>1, <1>2, <1>3 DEF Scheduler

\* The children add to the directories, the sweep empties those of ended jobs.
LEMMA DiskKeepsDirs ==
  ASSUME IInv, DirInv,
         Sweep \/ \E j \in Jobs : Child(j) \/ Expire(j)
  PROVE  DirInv'
<1> USE DEF http, loop, disk, sweeper
<1>0. TypeOK
  BY DEF IInv
<1>1. ASSUME NEW j \in Jobs, Child(j)
      PROVE  DirInv'
  <2>1. UNCHANGED <<status, up, handler, chan, queue, task, creds, sweepTodo>>
    BY <1>1 DEF Child, Checkout, AgentExits, KernelExits
  <2>2. \A k \in Jobs : (Waiting(k)' <=> Waiting(k)) /\ (Ready(k)' <=> Ready(k))
    BY <2>1 DEF Waiting, Ready
  <2>3. \A k \in Jobs \ {j} : proc'[k] = proc[k] /\ files'[k] = files[k]
    BY <1>0, <1>1 DEF Child, Checkout, AgentExits, KernelExits, TypeOK
  <2>4. \A k \in Jobs \ {j} : Same(k)
    BY <2>1, <2>2, <2>3 DEF Same
  <2>5. proc[j] \in Alive /\ DirOf(j)
    BY <1>1 DEF Child, Checkout, AgentExits, KernelExits, Alive, DirInv
  <2>6. ~Waiting(j) /\ handler[j] # "none"
    BY <2>5 DEF DirOf, Alive
  <2>7. /\ files[j] \subseteq files'[j]
        /\ "spec" \in files'[j] <=> "spec" \in files[j]
    BY <1>0, <1>1 DEF Child, Checkout, AgentExits, KernelExits, TypeOK
  <2>8. DirOf(j)'
    BY <2>1, <2>2, <2>5, <2>6, <2>7 DEF DirOf, Ready
  <2> QED BY <2>4, <2>8, OneDirKept
<1>2. CASE SweepMarks \/ \E j \in Jobs : Expire(j)
  <2>1. \A k \in Jobs : Same(k)
    BY <1>2 DEF SweepMarks, Expire, Same, Waiting
  <2> QED BY <2>1, SameKeepsDir DEF DirInv
<1>3. CASE SweepBegins
  <2>1. UNCHANGED <<status, up, handler, chan, queue, task, creds, proc, files>>
    BY <1>3 DEF SweepBegins
  <2>2. \A k \in Jobs : (Waiting(k)' <=> Waiting(k)) /\ (Ready(k)' <=> Ready(k))
    BY <2>1 DEF Waiting, Ready
  <2>3. \A k \in Jobs : k \in sweepTodo' => status[k] \in Ended
    BY <1>3 DEF SweepBegins, Reapable
  <2> QED BY <2>1, <2>2, <2>3 DEF DirInv, DirOf
<1>4. ASSUME NEW j \in Jobs, SweepRemoves(j)
      PROVE  DirInv'
  <2>1. UNCHANGED <<status, up, handler, chan, queue, task, creds, proc>>
        /\ sweepTodo' = sweepTodo \ {j}
    BY <1>4 DEF SweepRemoves
  <2>2. \A k \in Jobs : (Waiting(k)' <=> Waiting(k)) /\ (Ready(k)' <=> Ready(k))
    BY <2>1 DEF Waiting, Ready
  <2>3. \A k \in Jobs \ {j} : files'[k] = files[k]
    BY <1>0, <1>4 DEF SweepRemoves, TypeOK
  <2>4. \A k \in Jobs \ {j} : Same(k)
    BY <2>1, <2>2, <2>3 DEF Same
  <2>5. DirOf(j) /\ status[j] \in Ended
    BY <1>4 DEF SweepRemoves, DirInv, DirOf
  <2>6. ~Waiting(j) /\ task[j] \in {"none", "reclaim"}
    BY <2>5, AtEnd
  <2>7. DirOf(j)'
    BY <2>1, <2>2, <2>5, <2>6 DEF DirOf, Ready
  <2> QED BY <2>4, <2>7, OneDirKept
<1> QED BY <1>1, <1>2, <1>3, <1>4 DEF Sweep

\* A server that died has no waiting job and no key; the one that comes back
\* only fails rows.
LEMMA RestartKeepsDirs ==
  ASSUME IInv, DirInv, Crash \/ Restart
  PROVE  DirInv'
<1>0. TypeOK
  BY DEF IInv
<1>1. CASE Crash
  <2> SUFFICES ASSUME NEW k \in Jobs PROVE DirOf(k)'
    BY DEF DirInv
  <2>1. ~Waiting(k)' /\ ~Ready(k)' /\ task'[k] = "none"
    BY <1>0, <1>1, EmptyRange DEF Crash, Waiting, Ready, TypeOK
  <2>2. creds' = {} /\ sweepTodo' = {}
    BY <1>1 DEF Crash
  <2>3. handler'[k] = "none" => proc'[k] = "none"
    BY <1>0, <1>1 DEF Crash, DirInv, DirOf, TypeOK, Alive
  <2> QED BY <2>1, <2>2, <2>3 DEF DirOf
<1>2. CASE Restart
  <2> SUFFICES ASSUME NEW k \in Jobs PROVE DirOf(k)'
    BY DEF DirInv
  <2>1. UNCHANGED <<handler, chan, queue, task, creds, proc, files, sweepTodo>> /\ ~up
    BY <1>2 DEF Restart, disk, http, loop, sweeper
  <2>2. (Waiting(k)' <=> Waiting(k)) /\ (Ready(k)' <=> Ready(k))
    BY <2>1 DEF Waiting, Ready
  <2>3. DirOf(k) /\ k \notin creds
    BY <2>1 DEF DirInv, DirOf
  <2>4. status[k] \in Ended => status'[k] \in Ended
    BY <1>0, <1>2 DEF Restart, TypeOK, Ended
  <2> QED BY <2>1, <2>2, <2>3, <2>4 DEF DirOf
<1> QED BY <1>1, <1>2

------------------------------------------------------------------------------
(* The theorems.                                                           *)

\* Initially there is no row, no child and no key, whatever old ids left.
LEMMA DirInit == Init => DirInv
<1> SUFFICES ASSUME Init, NEW j \in Jobs PROVE DirOf(j)
  BY DEF DirInv
<1>1. ~Waiting(j) /\ ~Ready(j)
  BY EmptyRange DEF Init, Waiting, Ready
<1> QED BY <1>1 DEF Init, DirOf

\* Every step of the program keeps DirInv, where IInv holds.
LEMMA DirStep == IInv /\ DirInv /\ [Next]_vars => DirInv'
<1> SUFFICES ASSUME IInv, DirInv, [Next]_vars PROVE DirInv'
  OBVIOUS
<1>1. CASE UNCHANGED vars
  <2>1. \A k \in Jobs : Same(k)
    BY <1>1 DEF vars, disk, http, loop, sweeper, Same, Waiting
  <2> QED BY <2>1, SameKeepsDir DEF DirInv
<1> QED BY <1>1, HandlerKeepsDirs, TaskKeepsDirs, SchedulerKeepsDirs, DiskKeepsDirs,
           RestartKeepsDirs DEF Next

\* DirInv holds in every state the program reaches.
THEOREM DirsHold == Spec => []DirInv
  BY DirInit, DirStep, Invariance, PTL DEF Spec

\* A pipeline runs on its own job's bundle, never on one an earlier id left,
\* and no key outlives the stage that needed it: for every set of jobs, as
\* long as the file system does as it is told.
THEOREM OwnBundleHolds == Spec => []OwnBundle
<1>1. DirInv => OwnBundle
  BY DEF DirInv, DirOf, OwnBundle
<1> QED BY <1>1, DirsHold, PTL

\* A key in memory is the key of a job that still has its agent before it.
THEOREM KeyConsumedHolds == Spec => []KeyConsumed
<1>1. IInv /\ DirInv => KeyConsumed
  <2> SUFFICES ASSUME IInv, DirInv, ~IO, ~DB, NEW j \in creds
               PROVE  /\ status[j] \in {"queued", "running"}
                      /\ task[j] \in {"none", "start", "scaffold"}
    BY DEF KeyConsumed
  <2>1. j \in Jobs
    BY DEF IInv, TypeOK
  <2>2. RowOf(j) /\ (Ready(j) \/ task[j] = "scaffold")
    BY <2>1, InvGroups, RowsPointwise DEF DirInv, DirOf
  <2>3. Waiting(j) => task[j] \in {"none", "start"}
    BY <2>1, AtTask
  <2> QED BY <2>2, <2>3 DEF RowOf, RunPC, Ready
<1> QED BY <1>1, Invariance, DirsHold, PTL

\* Whatever fails, with any retention, nobody takes the bundle or the logs from
\* under a job that runs: the sweep's list can be as old as it likes.
THEOREM LiveDirKeptHolds == Spec => LiveDirKept
<1> DEFINE Kept == \A j \in Jobs : task[j] \notin {"none", "reclaim"} =>
                     files[j] \cap {"bundle", "logs"} \subseteq files'[j]
<1>1. IInv /\ DirInv /\ [Next]_vars => Kept
  <2> SUFFICES ASSUME IInv, DirInv, [Next]_vars,
                      NEW k \in Jobs, task[k] \notin {"none", "reclaim"}
               PROVE  files[k] \cap {"bundle", "logs"} \subseteq files'[k]
    OBVIOUS
  <2>0. files \in [Jobs -> SUBSET Entry] /\ handler[k] = "sent"
    BY AtTask DEF IInv, TypeOK
  <2>1. ASSUME NEW j \in Jobs, Handler(j)
        PROVE  files'[k] = files[k]
    <3>1. j # k \/ UNCHANGED files
      BY <2>0, <2>1 DEF Handler, WriteInputs, HandlerFails, SendNew, disk
    <3> QED BY <2>0, <2>1, <3>1 DEF Handler, WriteInputs, HandlerFails, SendNew, disk
  <2>2. ASSUME NEW j \in Jobs, RunJob(j)
        PROVE  files[k] \cap {"bundle", "logs"} \subseteq files'[k]
    <3>1. CASE EndAgent(j)
      BY <2>0, <3>1 DEF EndAgent
    <3>2. CASE Reclaim(j)
      BY <2>0, <3>2 DEF Reclaim
    <3>3. CASE ~EndAgent(j) /\ ~Reclaim(j)
      BY <2>2, <3>3 DEF RunJob, BeginRun, StartAgent, StartKernel, StageBreaks, StreamBreaks, FinishRun,
                        FailRun, disk
    <3> QED BY <3>1, <3>2, <3>3
  <2>3. ASSUME NEW j \in Jobs, Child(j) \/ Expire(j)
        PROVE  files[k] \subseteq files'[k]
    BY <2>0, <2>3 DEF Child, Checkout, AgentExits, KernelExits, Expire, disk
  <2>4. ASSUME NEW j \in Jobs, SweepRemoves(j)
        PROVE  files'[k] = files[k]
    <3>1. status[j] \in Ended
      BY <2>4 DEF SweepRemoves, DirInv, DirOf
    <3>2. j # k
      BY <3>1, AtEnd
    <3> QED BY <2>0, <2>4, <3>2 DEF SweepRemoves
  <2>5. ASSUME NEW j \in Jobs, NEW p \in Jobs \cup {NoJob}, CreateRow(j, p)
        PROVE  UNCHANGED files
    BY <2>5 DEF CreateRow
  <2>6. CASE SweepBegins \/ SweepMarks \/ Scheduler \/ Crash \/ Restart \/ UNCHANGED vars
    BY <2>6 DEF SweepBegins, SweepMarks, Scheduler, Receive, Tick, Admit, StopAdmitting,
                Crash, Restart, disk, vars
  <2> QED BY <2>1, <2>2, <2>3, <2>4, <2>5, <2>6 DEF Next, Sweep
<1>2. Spec => [][Kept]_vars
  BY <1>1, Invariance, DirsHold, PTL DEF Spec
<1> QED BY <1>2 DEF LiveDirKept
==============================================================================
