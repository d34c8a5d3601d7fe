------------------------- MODULE OpencodeQueue_proofs -------------------------
(***************************************************************************)
(* For any number of runs and attempts: at most one opencode process       *)
(* executes, an error is returned only once every attempt was made, and    *)
(* the page's list of jobs has every change it was told of.                *)
(***************************************************************************)
EXTENDS OpencodeQueue, TLAPS

\* The types the proofs need (the list plays no part in them).
Types ==
  /\ pc \in [Runs -> PC]
  /\ lock \in Runs \cup {Free}
  /\ tries \in [Runs -> Nat]
  /\ child \in [Runs -> {"none", "alive", "answered", "failed"}]
  /\ live \subseteq Runs \X Nat
  /\ result \in [Runs -> {"none", "ok", "err", "panic"}]

\* The threads between Lock and Unlock are exactly the holder of the mutex.
MutexHeld == \A r \in Runs : pc[r] \in Holding <=> lock = r

\* A process that executes is the one its run polls.
PolledOnly ==
  \A p \in live : p[1] \notin WaitFails =>
    pc[p[1]] = "polling" /\ child[p[1]] = "alive" /\ p[2] = tries[p[1]]

\* Attempts are counted up to Attempts, and one more is begun only below it.
Counted ==
  \A r \in Runs :
    /\ tries[r] <= Attempts
    /\ pc[r] \in {"idle", "entered", "blocked", "locked", "marked"} => tries[r] = 0
    /\ pc[r] = "attempt" => tries[r] < Attempts
    /\ result[r] = "err" => tries[r] = Attempts
    /\ result[r] # "none" => pc[r] \in {"returning", "unlocked", "dropped", "gone"}

QInv == Types /\ MutexHeld /\ PolledOnly /\ Counted

LEMMA InitQInv == Init => QInv
  BY QueueAssumption DEF Init, QInv, Types, MutexHeld, PolledOnly, Counted, PC, Holding

LEMMA StepQInv == QInv /\ [Next]_vars => QInv'
<1> SUFFICES ASSUME QInv, [Next]_vars PROVE QInv'
  OBVIOUS
<1> USE QueueAssumption DEF QInv, Types, MutexHeld, PolledOnly, Counted, PC, Holding
<1>1. CASE UNCHANGED vars
  BY <1>1 DEF vars
<1>2. ASSUME NEW r \in Runs, Enter(r) PROVE QInv'
  BY <1>2 DEF Enter, Move
<1>3. ASSUME NEW r \in Runs, Notify(r) PROVE QInv'
  BY <1>3 DEF Notify, Move, Unannounced
<1>4. ASSUME NEW r \in Runs, Lock(r) PROVE QInv'
  BY <1>4 DEF Lock, Move
<1>5. ASSUME NEW r \in Runs, MarkRunning(r) PROVE QInv'
  BY <1>5 DEF MarkRunning, Move
<1>6. ASSUME NEW r \in Runs, Spawn(r) PROVE QInv'
  BY <1>6 DEF Spawn, Move
<1>7. ASSUME NEW r \in Runs, SpawnFails(r) PROVE QInv'
  BY <1>7 DEF SpawnFails, Move, Return
<1>8. ASSUME NEW r \in Runs, Answer(r) PROVE QInv'
  BY <1>8 DEF Answer, Move, Return
<1>9. ASSUME NEW r \in Runs, BadExit(r) PROVE QInv'
  BY <1>9 DEF BadExit, AttemptFailed, Move, Return
<1>10. ASSUME NEW r \in Runs, Timeout(r) PROVE QInv'
  BY <1>10 DEF Timeout, AttemptFailed, Move, Return
<1>11. ASSUME NEW r \in Runs, WaitError(r) PROVE QInv'
  BY <1>11 DEF WaitError, AttemptFailed, Move, Return
<1>12. ASSUME NEW r \in Runs, Panic(r) PROVE QInv'
  BY <1>12 DEF Panic, Move, Return
<1>13. ASSUME NEW r \in Runs, Unlock(r) PROVE QInv'
  BY <1>13 DEF Unlock, Move
<1>14. ASSUME NEW r \in Runs, DropTicket(r) PROVE QInv'
  BY <1>14 DEF DropTicket, Move
<1>15. ASSUME NEW r \in Runs, Exit(r) PROVE QInv'
  BY <1>15 DEF Exit
<1>16. ASSUME NEW r \in Runs, StrayExits(r) PROVE QInv'
  BY <1>16 DEF StrayExits
<1> QED
  BY <1>1, <1>2, <1>3, <1>4, <1>5, <1>6, <1>7, <1>8, <1>9, <1>10, <1>11, <1>12,
     <1>13, <1>14, <1>15, <1>16 DEF Next, Thread, Process, AllGone

\* The mutex, the processes and the attempts never disagree about whose turn it
\* is: the inductive invariant of this module.
THEOREM QInvariance == Spec => []QInv
  BY InitQInv, StepQInv, PTL DEF Spec

\* A live process is the holder's current attempt: the mutex is not handed on
\* before the process of its holder is gone (opencode_attempt under run_lock).
THEOREM LiveIsHoldersHolds == Spec => []LiveIsHolders
<1>1. QInv => LiveIsHolders
  BY DEF QInv, Types, MutexHeld, PolledOnly, Holding, LiveIsHolders
<1> QED
  BY <1>1, QInvariance, PTL

\* "Only one opencode CLI executes at a time" (summarize.rs:596).
THEOREM OneCLIHolds == Spec => []OneCLI
<1>1. QInv => OneCLI
  <2> SUFFICES ASSUME QInv, NEW p \in live, NEW q \in live,
                         {p[1], q[1]} \cap WaitFails = {}
                  PROVE  p = q
    BY DEF OneCLI
  <2>1. p[1] = lock /\ q[1] = lock /\ p[2] = tries[p[1]] /\ q[2] = tries[q[1]]
    BY DEF QInv, Types, MutexHeld, PolledOnly, Holding
  <2> QED
    BY <2>1 DEF QInv, Types
<1> QED
  BY <1>1, QInvariance, PTL

\* An error means that every attempt was made, an answer that none follows
\* (with_retries).
THEOREM RetriesUsedUpHolds == Spec => []RetriesUsedUp
<1>1. QInv => RetriesUsedUp
  BY DEF QInv, Counted, RetriesUsedUp
<1> QED
  BY <1>1, QInvariance, PTL

------------------------------------------------------------------------------
(* The list and the pings.  A thread is Unannounced from the step that     *)
(* changes the list to the one that tells the page.                        *)

\* A step that leaves the list, the last ping and the threads that owe one as they
\* are leaves the page no further behind.
LEMMA NoNews ==
  ASSUME PageCatchesUp, UNCHANGED <<entries, pinged>>,
         \A r \in Runs : pc[r] \in Unannounced => pc'[r] \in Unannounced
  PROVE  PageCatchesUp'
  BY DEF PageCatchesUp

\* Threads step from the owing points by Notify only.
LEMMA StepPageCatchesUp == QInv /\ PageCatchesUp /\ [Next]_vars => PageCatchesUp'
<1> SUFFICES ASSUME QInv, PageCatchesUp, [Next]_vars PROVE PageCatchesUp'
  OBVIOUS
<1> USE DEF QInv, Types, Unannounced
<1>1. CASE UNCHANGED vars
  BY <1>1, NoNews DEF vars
<1>2. ASSUME NEW r \in Runs, Enter(r) PROVE PageCatchesUp'
  BY <1>2 DEF Enter, Move, PageCatchesUp
<1>3. ASSUME NEW r \in Runs, Notify(r) PROVE PageCatchesUp'
  BY <1>3 DEF Notify, PageCatchesUp
<1>4. ASSUME NEW r \in Runs, MarkRunning(r) PROVE PageCatchesUp'
  BY <1>4 DEF MarkRunning, Move, PageCatchesUp
<1>5. ASSUME NEW r \in Runs, DropTicket(r) PROVE PageCatchesUp'
  <2>1. pc'[r] = "dropped"
    BY <1>5 DEF DropTicket, Move
  <2> QED
    BY <2>1 DEF PageCatchesUp
<1>6. ASSUME NEW r \in Runs, Lock(r) \/ Spawn(r) \/ SpawnFails(r) \/ Unlock(r)
      PROVE  PageCatchesUp'
  <2>1. UNCHANGED <<entries, pinged>>
        /\ \A q \in Runs : pc[q] \in Unannounced => pc'[q] \in Unannounced
    BY <1>6 DEF Lock, Spawn, SpawnFails, Unlock, Move, Return
  <2> QED
    BY <2>1, NoNews
<1>7. ASSUME NEW r \in Runs,
             Answer(r) \/ BadExit(r) \/ Timeout(r) \/ WaitError(r) \/ Panic(r)
      PROVE  PageCatchesUp'
  <2>1. UNCHANGED <<entries, pinged>>
        /\ \A q \in Runs : pc[q] \in Unannounced => pc'[q] \in Unannounced
    BY <1>7 DEF Answer, BadExit, Timeout, WaitError, Panic, AttemptFailed, Move, Return
  <2> QED
    BY <2>1, NoNews
<1>8. ASSUME NEW r \in Runs, Process(r) PROVE PageCatchesUp'
  BY <1>8, NoNews DEF Process, Exit, StrayExits
<1> QED
  BY <1>1, <1>2, <1>3, <1>4, <1>5, <1>6, <1>7, <1>8 DEF Next, Thread, AllGone

\* A page that refetches the list at every ping is never left behind: whenever the
\* list is not what it was told to fetch last, a thread is on its way to tell it
\* (QueueTicket's notify after each change, its Drop included).
THEOREM PageCatchesUpHolds == Spec => []PageCatchesUp
<1>1. Init => PageCatchesUp
  BY DEF Init, PageCatchesUp
<1> QED
  BY <1>1, StepPageCatchesUp, QInvariance, PTL DEF Spec
==============================================================================
