------------------------------ MODULE Admission ------------------------------
(***************************************************************************)
(* The admission decision of server/src/sched.rs and the per-job estimate  *)
(* of server/src/main.rs, as operators.  Amounts are in arbitrary units    *)
(* (the code counts bytes); the configured values are constants.           *)
(***************************************************************************)
EXTENDS Naturals, FiniteSets, FiniteSetsExt

CONSTANTS
  MaxJobs,      \* Cfg.max_jobs (MK_MAX_JOBS)
  RamReserve,   \* Cfg.ram_reserve: RAM kept free for the host
  DiskReserve,  \* Cfg.disk_reserve
  EstRam,       \* Cfg.est_ram: default per-job estimate
  EstDisk,      \* Cfg.est_disk
  TotalRam      \* Resources.total_ram: physical memory, fixed for a host

ASSUME ConfigAssumption ==
  /\ MaxJobs \in Nat
  /\ {RamReserve, DiskReserve, EstRam, EstDisk, TotalRam} \subseteq Nat

\* What one job is charged for, and what it is measured to have used.
Amount == [ram : Nat, disk : Nat]
NoAmount == [ram |-> 0, disk |-> 0]

\* estimate(): the configured default or the largest peak in the jobs table.
Estimate(peaks) ==
  [ram  |-> Max({EstRam} \cup {p.ram : p \in peaks}),
   disk |-> Max({EstDisk} \cup {p.disk : p \in peaks})]

\* The sums rr and dr of the running jobs' reservations.
Reserved(jobs, resv) ==
  [ram  |-> MapThenSumSet(LAMBDA j : resv[j].ram, jobs),
   disk |-> MapThenSumSet(LAMBDA j : resv[j].disk, jobs)]

\* Mutant: what is already reserved is not counted.
RamFits_ThisJobOnly(reserved, est) == est.ram + RamReserve <= TotalRam

\* RAM is gated on reservations alone, against physical memory.
RamFits(reserved, est) == reserved.ram + est.ram + RamReserve <= TotalRam

\* Disk is gated on what df reports now and on reservations against its size.
DiskFits(reserved, est, df) ==
  /\ est.disk + DiskReserve <= df.avail
  /\ reserved.disk + est.disk + DiskReserve <= df.total

CanAdmit(count, reserved, est, df) ==
  /\ count < MaxJobs
  /\ RamFits(reserved, est)
  /\ DiskFits(reserved, est, df)
==============================================================================
