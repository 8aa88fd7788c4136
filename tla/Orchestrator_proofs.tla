------------------------ MODULE Orchestrator_proofs -------------------------
(***************************************************************************)
(* Proofs about Orchestrator, for any number of processes, runs,           *)
(* repositories and containers, any job set, cap and history length.       *)
(***************************************************************************)
EXTENDS Orchestrator, FiniteSetTheorems, TLAPS

\* The fields of a job have their types.
LEMMA JobFields ==
  ASSUME NEW j \in Jobs
  PROVE  /\ j.op \in Ops /\ j.repo \in Repos /\ j.ctr \in Containers
         /\ j.stop \in BOOLEAN /\ j.snap \in BOOLEAN /\ j.hooks \in BOOLEAN
         /\ j.origin \in Origins
  BY JobAssumption DEF JobType

\* Every program counter a helper returns is one.
LEMMA NextPc ==
  ASSUME NEW j \in Jobs
  PROVE  /\ Unwind(j) \in {"release", "unlock"}
         /\ AfterMover(j) \in {"posthooks", "rstart", "release", "unlock"}
         /\ AfterCleanup(j) \in {"coldrelease", "release"}
  BY DEF Unwind, AfterMover, AfterCleanup

LEMMA TypeInit == Init => TypeOK
  BY ProcAssumption, JobAssumption DEF Init, TypeOK, Pc

\* A step of a process keeps the types.
LEMMA TypeProc ==
  ASSUME TypeOK, NEW p \in Procs, ProcStep(p)
  PROVE  TypeOK'
  <1> USE DEF TypeOK, procVars, lockVars, runVars, hostVars
  <1>1. CASE StartProc(p)
    <2>1. Running \subseteq Runs
      BY DEF Running
    <2>2. inUse' \in [Procs -> SUBSET Runs]
      BY <1>1, <2>1 DEF StartProc
    <2>3. phase' \in [Procs -> {"new", "reaping", "up", "cancelled", "gone"}]
      <3>1. PICK l \in {"reaping", "up"} : phase' = [phase EXCEPT ![p] = l]
        BY <1>1, Zenon DEF StartProc
      <3>2. phase \in [Procs -> {"new", "reaping", "up", "cancelled", "gone"}]
        OBVIOUS
      <3> HIDE DEF TypeOK, procVars, lockVars, runVars, hostVars
      <3> QED  BY <3>1, <3>2
    <2>4. mover' \in [Runs -> {"none", "created", "running", "gone"}]
      BY <1>1 DEF StartProc, ReapMovers
    <2> QED
      BY <1>1, <2>2, <2>3, <2>4 DEF StartProc
  <1>2. CASE ReapSnapshotter(p)
    BY <1>2 DEF ReapSnapshotter
  <1>3. CASE TickerReap(p)
    BY <1>3 DEF TickerReap, ReapMovers
  <1>4. CASE Shutdown(p)
    BY <1>4 DEF Shutdown
  <1>5. CASE Exit(p) \/ Crash(p) \/ Killed(p)
    <2>1. Vanish(p)
      BY <1>5 DEF Exit, Crash, Killed
    <2>2. /\ pc' \in [Runs -> Pc]
          /\ refs' \in [Procs -> [Containers -> Int]]
      BY <2>1 DEF Vanish, Pc
    <2> QED  BY <2>1, <2>2 DEF Vanish
  <1> QED
    BY <1>1, <1>2, <1>3, <1>4, <1>5 DEF ProcStep

\* A step of a run keeps the types.
LEMMA TypeRun ==
  ASSUME TypeOK, NEW r \in Runs, RunStep(r)
  PROVE  TypeOK'
  <1>0. /\ owner[r] \in Procs /\ job[r] \in Jobs
        /\ job[r].repo \in Repos /\ job[r].ctr \in Containers
        /\ refs[owner[r]] \in [Containers -> Int]
    BY JobFields DEF TypeOK
  <1>n. \A l \in Pc : Goto(r, l) => pc' \in [Runs -> Pc]
    BY DEF Goto, TypeOK
  <1>p. Pc \cap {"stopping", "snapshot", "create", "unlock", "starting", "release"}
          = {"stopping", "snapshot", "create", "unlock", "starting", "release"}
    BY DEF Pc
  <1>c. ASSUME NEW n \in Int
        PROVE  /\ [refs EXCEPT ![owner[r]][job[r].ctr] = n]
                     \in [Procs -> [Containers -> Int]]
               /\ [coldMu EXCEPT ![owner[r]] = @ \cup {job[r].ctr}]
                     \in [Procs -> SUBSET Containers]
    BY <1>0 DEF TypeOK
  <1>m. MoverReturns(r) => pc' \in [Runs -> Pc]
    BY <1>0, <1>n, NextPc DEF MoverReturns, Pc
  <1>r. Remove(r) => mover' \in [Runs -> {"none", "created", "running", "gone"}]
    BY DEF Remove, TypeOK
  <1> USE DEF TypeOK, procVars, lockVars, runVars, hostVars
  <1>1. CASE LockRepo(r)
    BY <1>1, <1>0 DEF LockRepo, Goto, Pc
  <1>2. CASE AcquireSlot(r)
    BY <1>2, <1>0 DEF AcquireSlot, Goto, Pc
  <1>3. CASE AcquireCancelled(r)
    BY <1>3 DEF AcquireCancelled, Goto, Pc
  <1>4. CASE Prepare(r)
    <2>1. pc' \in [Runs -> Pc]
      <3>1. Unwind(job[r]) \in Pc
        BY <1>0, NextPc DEF Pc
      <3>2. "prehooks" \in Pc /\ "rstop" \in Pc /\ "create" \in Pc
        BY DEF Pc
      <3> QED  BY <1>4, <1>n, <3>1, <3>2 DEF Prepare
    <2> QED  BY <1>4, <2>1 DEF Prepare
  <1>5. CASE Deadline(r)
    BY <1>5 DEF Deadline
  <1>6. CASE PreHooks(r)
    <2>1. pc' \in [Runs -> Pc]
      BY <1>6 DEF PreHooks, Goto, Pc
    <2>2. hook' \in [Runs -> {"none", "pre", "post"}]
      BY <1>6 DEF PreHooks
    <2> QED  BY <1>6, <2>1, <2>2 DEF PreHooks
  <1>7. CASE HoldEnter(r)
    <2>1. pc' \in [Runs -> Pc]
      BY <1>7, <1>n, <1>p DEF HoldEnter
    <2>2. /\ coldMu' \in [Procs -> SUBSET Containers]
          /\ refs' \in [Procs -> [Containers -> Int]]
      <3>1. refs[owner[r]][job[r].ctr] + 1 \in Int
        BY <1>0
      <3> QED  BY <1>7, <1>0, <1>c, <3>1 DEF HoldEnter
    <2> QED  BY <1>7, <2>1, <2>2 DEF HoldEnter
  <1>8. CASE HoldStop(r)
    BY <1>8, <1>0 DEF HoldStop, LeaveColdMu, Goto, Pc
  <1>9. CASE HoldFails(r)
    BY <1>9, <1>0 DEF HoldFails, LeaveColdMu, Goto, Pc
  <1>10. CASE SourceMounts(r)
    <2>1. AfterCleanup(job[r]) \in Pc
      BY <1>0, NextPc DEF Pc
    <2>2. pc' \in [Runs -> Pc]
      BY <1>10, <1>n, <1>p, <2>1 DEF SourceMounts
    <2>3. snap' \in SUBSET Runs
      BY <1>10 DEF SourceMounts
    <2> QED  BY <1>10, <2>2, <2>3 DEF SourceMounts
  <1>11. CASE RestoreStop(r)
    <2>1. pc' \in [Runs -> Pc]
      BY <1>11, <1>n, <1>p DEF RestoreStop
    <2>2. up' \in [Containers -> BOOLEAN]
      BY <1>11, <1>0 DEF RestoreStop
    <2> QED  BY <1>11, <2>1, <2>2 DEF RestoreStop
  <1>12. CASE MoverCreate(r)
    <2>1. pc' \in [Runs -> Pc]
      BY <1>12, <1>m DEF MoverCreate, Goto, Pc
    <2>2. mover' \in [Runs -> {"none", "created", "running", "gone"}]
      BY <1>12 DEF MoverCreate
    <2> QED  BY <1>12, <2>1, <2>2 DEF MoverCreate
  <1>13. CASE MoverStart(r)
    <2>1. pc' \in [Runs -> Pc]
      BY <1>13, <1>m DEF MoverStart, Goto, Pc
    <2>2. mover' \in [Runs -> {"none", "created", "running", "gone"}]
      BY <1>13, <1>r DEF MoverStart
    <2> QED  BY <1>13, <2>1, <2>2 DEF MoverStart
  <1>14. CASE MoverExit(r)
    BY <1>14 DEF MoverExit
  <1>15. CASE WaitStatus(r)
    BY <1>15, <1>m DEF WaitStatus
  <1>16. CASE WaitCancelled(r)
    BY <1>16, <1>m, <1>r DEF WaitCancelled
  <1>17. CASE WaitError(r)
    BY <1>17, <1>m, <1>r DEF WaitError
  <1>18. CASE PostHooks(r)
    BY <1>18 DEF PostHooks, Goto, Pc
  <1>19. CASE SnapCleanup(r)
    BY <1>19, <1>0, NextPc DEF SnapCleanup, Goto, Pc
  <1>20. CASE ReleaseEnter(r)
    <2>1. pc' \in [Runs -> Pc]
      BY <1>20, <1>n, <1>p DEF ReleaseEnter
    <2>2. /\ coldMu' \in [Procs -> SUBSET Containers]
          /\ refs' \in [Procs -> [Containers -> Int]]
      <3>1. refs[owner[r]][job[r].ctr] - 1 \in Int
        BY <1>0
      <3> QED  BY <1>20, <1>0, <1>c, <3>1 DEF ReleaseEnter
    <2> QED  BY <1>20, <2>1, <2>2 DEF ReleaseEnter
  <1>21. CASE ReleaseStart(r)
    BY <1>21, <1>0 DEF ReleaseStart, Restarted, LeaveColdMu, Goto, Pc
  <1>22. CASE RestoreStart(r)
    BY <1>22, <1>0 DEF RestoreStart, Restarted, Goto, Pc
  <1>23. CASE ReleaseSlot(r)
    BY <1>23, <1>0 DEF ReleaseSlot, Goto, Pc
  <1>24. CASE Unlock(r)
    BY <1>24, <1>0 DEF Unlock, Goto, Pc
  <1> QED
    BY <1>1, <1>2, <1>3, <1>4, <1>5, <1>6, <1>7, <1>8, <1>9, <1>10, <1>11,
       <1>12, <1>13, <1>14, <1>15, <1>16, <1>17, <1>18, <1>19, <1>20, <1>21,
       <1>22, <1>23, <1>24 DEF RunStep, CallStep, Blocking

LEMMA TypeTrigger ==
  ASSUME TypeOK, NEW r \in Runs, NEW p \in Procs, NEW j \in Jobs, Trigger(r, p, j)
  PROVE  TypeOK'
  BY DEF TypeOK, procVars, lockVars, hostVars, Trigger, Goto, Pc

LEMMA TypeNext == TypeOK /\ [Next]_vars => TypeOK'
  <1> SUFFICES ASSUME TypeOK, [Next]_vars PROVE TypeOK'
    OBVIOUS
  <1>1. CASE UNCHANGED vars
    BY <1>1 DEF TypeOK, vars, procVars, lockVars, runVars, hostVars
  <1> QED
    BY <1>1, TypeProc, TypeTrigger, TypeRun DEF Next

\* Every variable keeps its type.
THEOREM TypeCorrect == Spec => []TypeOK
  BY TypeInit, TypeNext, PTL DEF Spec

-----------------------------------------------------------------------------
(* Serialisation of runs.  The invariant of the lock: a run between lock   *)
(* and unlock has its repository's key locked in its own process.          *)

LockHeld == \A r \in Runs : InRepo(r) => job[r].repo \in lock[owner[r]]

LockInv == TypeOK /\ LockHeld /\ RepoExclusive

\* Between lock and unlock a run's steps move only its program counter, and
\* keep it between lock and unlock.
LEMMA InnerStep ==
  ASSUME TypeOK, NEW r \in Runs, RunStep(r), ~LockRepo(r), ~Unlock(r)
  PROVE  /\ UNCHANGED <<lock, owner, job>>
         /\ \A s \in Runs : InRepo(s)' <=> InRepo(s)
  <1> DEFINE Inner == Pc \ {"idle", "lock", "done", "dead"}
             Same == \A s \in Runs : InRepo(s)' <=> InRepo(s)
  <1>0. job[r] \in Jobs
    BY DEF TypeOK
  <1>1. /\ Unwind(job[r]) \in Inner /\ AfterMover(job[r]) \in Inner
        /\ AfterCleanup(job[r]) \in Inner
    BY <1>0, NextPc DEF Pc
  <1>2. {"prepare", "prehooks", "rstop", "create", "hold", "stopping", "snapshot",
         "start", "wait", "cleanup", "starting", "release", "unlock"} \subseteq Inner
    BY DEF Pc
  <1>3. ASSUME NEW l \in Inner, pc[r] \in Inner, Goto(r, l)
        PROVE  Same
    BY <1>3 DEF Goto, InRepo, TypeOK
  <1>4. UNCHANGED pc => Same
    BY DEF InRepo
  <1> HIDE DEF Inner, Same
  <1>5. pc[r] \in {"slot", "prepare", "prehooks", "hold", "stopping", "snapshot",
                   "rstop", "create", "start", "wait", "rstart", "posthooks",
                   "cleanup", "coldrelease", "starting", "release"}
        => pc[r] \in Inner
    BY DEF Inner, Pc
  <1>6. CASE AcquireSlot(r) \/ AcquireCancelled(r)
    BY <1>6, <1>2, <1>3, <1>5 DEF AcquireSlot, AcquireCancelled, lockVars, Same
  <1>7. CASE Prepare(r)
    <2>1. Same
      BY <1>7, <1>1, <1>2, <1>3, <1>5 DEF Prepare
    <2> QED  BY <1>7, <2>1 DEF Prepare, lockVars, Same
  <1>8. CASE PreHooks(r) \/ SourceMounts(r)
    <2>1. Same
      BY <1>8, <1>1, <1>2, <1>3, <1>5 DEF PreHooks, SourceMounts
    <2> QED  BY <1>8, <2>1 DEF PreHooks, SourceMounts, lockVars, Same
  <1>9. CASE HoldEnter(r) \/ HoldStop(r) \/ HoldFails(r)
    <2>1. Same
      BY <1>9, <1>2, <1>3, <1>5 DEF HoldEnter, HoldStop, HoldFails
    <2> QED  BY <1>9, <2>1 DEF HoldEnter, HoldStop, HoldFails, Same
  <1>10. CASE RestoreStop(r) \/ RestoreStart(r)
    <2>1. Same
      BY <1>10, <1>2, <1>3, <1>5 DEF RestoreStop, RestoreStart
    <2> QED  BY <1>10, <2>1 DEF RestoreStop, RestoreStart, lockVars, Same
  <1>11. CASE MoverCreate(r) \/ MoverStart(r)
    <2>1. Same
      BY <1>11, <1>1, <1>2, <1>3, <1>5 DEF MoverCreate, MoverStart, MoverReturns
    <2> QED  BY <1>11, <2>1 DEF MoverCreate, MoverStart, lockVars, Same
  <1>12. CASE WaitStatus(r) \/ WaitCancelled(r) \/ WaitError(r)
    <2>1. Same
      BY <1>12, <1>1, <1>3, <1>5 DEF WaitStatus, WaitCancelled, WaitError, MoverReturns
    <2> QED  BY <1>12, <2>1 DEF WaitStatus, WaitCancelled, WaitError, lockVars, Same
  <1>13. CASE PostHooks(r) \/ SnapCleanup(r)
    <2>1. Same
      BY <1>13, <1>1, <1>2, <1>3, <1>5 DEF PostHooks, SnapCleanup
    <2> QED  BY <1>13, <2>1 DEF PostHooks, SnapCleanup, lockVars, Same
  <1>14. CASE ReleaseEnter(r) \/ ReleaseStart(r) \/ ReleaseSlot(r)
    <2>1. Same
      BY <1>14, <1>2, <1>3, <1>5 DEF ReleaseEnter, ReleaseStart, ReleaseSlot
    <2> QED  BY <1>14, <2>1 DEF ReleaseEnter, ReleaseStart, ReleaseSlot, Same
  <1>15. CASE Deadline(r) \/ MoverExit(r)
    BY <1>15, <1>4 DEF Deadline, MoverExit, lockVars, runVars, Same
  <1> QED
    BY <1>6, <1>7, <1>8, <1>9, <1>10, <1>11, <1>12, <1>13, <1>14, <1>15
       DEF RunStep, CallStep, Blocking

LEMMA LockNext == LockInv /\ [Next]_vars => LockInv'
  <1> SUFFICES ASSUME LockInv, [Next]_vars PROVE LockHeld' /\ RepoExclusive'
    BY TypeNext DEF LockInv
  <1> USE DEF LockInv
  <1>1. CASE \E p \in Procs : ProcStep(p)
    <2> PICK p \in Procs : ProcStep(p)
      BY <1>1
    <2>1. CASE Exit(p) \/ Crash(p) \/ Killed(p)
      <3>1. Vanish(p)
        BY <2>1 DEF Exit, Crash, Killed
      <3>2. \A r \in Runs : InRepo(r)' => InRepo(r) /\ owner[r] # p
        BY <3>1 DEF Vanish, InRepo, Active, TypeOK
      <3>3. \A q \in Procs : q # p => lock'[q] = lock[q]
        BY <3>1 DEF Vanish, TypeOK
      <3>4. UNCHANGED <<owner, job>>
        BY <3>1 DEF Vanish
      <3> QED
        BY <3>2, <3>3, <3>4 DEF LockHeld, RepoExclusive, TypeOK
    <2>2. CASE ~Exit(p) /\ ~Crash(p) /\ ~Killed(p)
      <3>1. UNCHANGED <<lock, pc, owner, job>>
        BY <2>2 DEF ProcStep, StartProc, ReapSnapshotter, TickerReap, Shutdown,
                    lockVars, runVars
      <3> QED
        BY <3>1 DEF LockHeld, RepoExclusive, InRepo
    <2> QED  BY <2>1, <2>2
  <1>2. CASE \E r \in Runs, p \in Procs, j \in Jobs : Trigger(r, p, j)
    <2> PICK r \in Runs, p \in Procs, j \in Jobs : Trigger(r, p, j)
      BY <1>2
    <2>1. /\ ~InRepo(r)'
          /\ \A s \in Runs : s # r => /\ InRepo(s)' <=> InRepo(s)
                                      /\ owner'[s] = owner[s] /\ job'[s] = job[s]
          /\ lock' = lock
      BY DEF Trigger, Goto, InRepo, TypeOK, lockVars
    <2> QED
      BY <2>1 DEF LockHeld, RepoExclusive
  <1>3. CASE \E r \in Runs : RunStep(r)
    <2> PICK r \in Runs : RunStep(r)
      BY <1>3
    <2>1. CASE LockRepo(r)
      <3>1. /\ \A s \in Runs : s # r => (InRepo(s)' <=> InRepo(s))
            /\ UNCHANGED <<owner, job>>
            /\ job[r].repo \notin lock[owner[r]]
            /\ job[r].repo \in lock'[owner[r]]
            /\ \A p \in Procs : lock[p] \subseteq lock'[p]
        BY <2>1 DEF LockRepo, Goto, InRepo, TypeOK
      <3>2. \A s \in Runs \ {r} : InRepo(s) /\ owner[s] = owner[r]
                                => job[s].repo # job[r].repo
        BY <3>1 DEF LockHeld
      <3> QED
        BY <3>1, <3>2 DEF LockHeld, RepoExclusive, TypeOK
    <2>2. CASE Unlock(r)
      <3>1. /\ ~InRepo(r)' /\ InRepo(r)
            /\ \A s \in Runs : s # r => (InRepo(s)' <=> InRepo(s))
            /\ UNCHANGED <<owner, job>>
            /\ \A p \in Procs : \A k \in Repos :
                  (p # owner[r] \/ k # job[r].repo) => (k \in lock[p] => k \in lock'[p])
        BY <2>2 DEF Unlock, Goto, InRepo, TypeOK
      <3>2. \A s \in Runs \ {r} : InRepo(s) /\ owner[s] = owner[r]
                                => job[s].repo # job[r].repo
        BY <3>1 DEF RepoExclusive
      <3>3. \A s \in Runs : job[s].repo \in Repos
        BY JobFields DEF TypeOK
      <3> QED
        BY <3>1, <3>2, <3>3 DEF LockHeld, RepoExclusive, TypeOK
    <2>3. CASE ~LockRepo(r) /\ ~Unlock(r)
      BY <2>3, InnerStep DEF LockHeld, RepoExclusive
    <2> QED  BY <2>1, <2>2, <2>3
  <1>4. CASE UNCHANGED vars
    BY <1>4 DEF vars, lockVars, runVars, LockHeld, RepoExclusive, InRepo
  <1> QED
    BY <1>1, <1>2, <1>3, <1>4 DEF Next

LEMMA LockInit == Init => LockInv
  BY TypeInit DEF Init, LockInv, LockHeld, RepoExclusive, InRepo

\* Within one process, at most one run at a time is between the lock and the
\* unlock of a repository.
THEOREM RepoSerialised == Spec => []RepoExclusive
  <1>1. LockInv => RepoExclusive
    BY DEF LockInv
  <1> QED
    BY LockInit, LockNext, <1>1, PTL DEF Spec

-----------------------------------------------------------------------------
(* Serialisation of movers.  A mover outlives its run when a shutdown      *)
(* leaves it running (kept) or its process dies.  What saves the lock's    *)
(* promise is that neither happens while a run of the process can still    *)
(* start a mover: that takes a live context, so a process that is "up".    *)

\* How the state of its process bounds what a run can be.
PhaseInv ==
  \A r \in Runs :
    /\ Active(r) => phase[owner[r]] \in {"up", "cancelled"}
    /\ Active(r) /\ ctx[r] = "live" => phase[owner[r]] = "up"
    /\ Active(r) /\ ctx[r] = "cancelled" => phase[owner[r]] = "cancelled"
    /\ pc[r] = "dead" => phase[owner[r]] = "gone"
    /\ r \in kept => /\ phase[owner[r]] \in {"cancelled", "gone"}
                     /\ pc[r] # "idle" /\ KeepOnShutdown(job[r])

\* Where the run of a mover can be.
MoverInv ==
  \A r \in Runs :
    /\ mover[r] = "created" => pc[r] \in {"start", "dead"}
    /\ mover[r] = "running" => pc[r] \in {"wait", "dead"} \/ r \in kept

\* A step of run r leaves the processes and the other runs alone, revives no
\* context and does not leave "done", "dead" or "idle".
LEMMA RunFrame ==
  ASSUME TypeOK, NEW r \in Runs, RunStep(r)
  PROVE  /\ UNCHANGED <<phase, owner, job>>
         /\ \A s \in Runs : s # r => /\ pc'[s] = pc[s] /\ ctx'[s] = ctx[s]
                                     /\ mover'[s] = mover[s]
                                     /\ s \in kept' <=> s \in kept
         /\ ctx'[r] # ctx[r] => ctx[r] = "live" /\ ctx'[r] = "deadline"
         /\ pc'[r] # pc[r] => pc[r] \notin {"idle", "done", "dead"}
         /\ pc'[r] # pc[r] => pc'[r] \notin {"idle", "dead"}
  <1>0. job[r] \in Jobs
    BY DEF TypeOK
  <1>a. /\ Unwind(job[r]) \notin {"idle", "dead"}
        /\ AfterMover(job[r]) \notin {"idle", "dead"}
        /\ AfterCleanup(job[r]) \notin {"idle", "dead"}
    BY <1>0, NextPc
  <1>g. ASSUME NEW l, l \notin {"idle", "dead"}, Goto(r, l),
               pc[r] \notin {"idle", "done", "dead"}
        PROVE  /\ \A s \in Runs : s # r => pc'[s] = pc[s]
               /\ pc'[r] # pc[r] => pc[r] \notin {"idle", "done", "dead"}
               /\ pc'[r] # pc[r] => pc'[r] \notin {"idle", "dead"}
    BY <1>g DEF Goto, TypeOK
  <1> DEFINE Moved == /\ \A s \in Runs : s # r => pc'[s] = pc[s]
                      /\ pc'[r] # pc[r] => pc[r] \notin {"idle", "done", "dead"}
                      /\ pc'[r] # pc[r] => pc'[r] \notin {"idle", "dead"}
  <1>x. /\ Remove(r) => \A s \in Runs : s # r => mover'[s] = mover[s]
        /\ UNCHANGED pc => Moved
    BY DEF Remove, TypeOK
  <1> USE DEF procVars, lockVars, runVars, hostVars
  <1>1. CASE \/ LockRepo(r) \/ AcquireSlot(r) \/ AcquireCancelled(r)
             \/ PreHooks(r) \/ HoldEnter(r) \/ HoldStop(r) \/ HoldFails(r)
             \/ RestoreStop(r) \/ PostHooks(r) \/ ReleaseEnter(r)
             \/ ReleaseStart(r) \/ RestoreStart(r) \/ ReleaseSlot(r) \/ Unlock(r)
    <2>1. Moved
      BY <1>1, <1>g DEF LockRepo, AcquireSlot, AcquireCancelled, PreHooks, HoldEnter,
        HoldStop, HoldFails, RestoreStop, PostHooks, ReleaseEnter, ReleaseStart,
        RestoreStart, ReleaseSlot, Unlock
    <2>2. UNCHANGED <<phase, owner, job, ctx, mover, kept>>
      BY <1>1 DEF LockRepo, AcquireSlot, AcquireCancelled, PreHooks, HoldEnter,
        HoldStop, HoldFails, RestoreStop, PostHooks, ReleaseEnter, ReleaseStart,
        RestoreStart, ReleaseSlot, Unlock
    <2> QED  BY <2>1, <2>2
  <1>2. CASE Prepare(r) \/ SourceMounts(r) \/ SnapCleanup(r) \/ WaitStatus(r)
    <2>1. Moved
      BY <1>2, <1>g, <1>a DEF Prepare, SourceMounts, SnapCleanup, WaitStatus, MoverReturns
    <2>2. UNCHANGED <<phase, owner, job, ctx, mover, kept>>
      BY <1>2 DEF Prepare, SourceMounts, SnapCleanup, WaitStatus
    <2> QED  BY <2>1, <2>2
  <1>3. CASE MoverCreate(r) \/ MoverStart(r) \/ WaitError(r)
    <2>1. Moved
      BY <1>3, <1>g, <1>a DEF MoverCreate, MoverStart, WaitError, MoverReturns
    <2>2. UNCHANGED <<phase, owner, job, ctx, kept>>
      BY <1>3 DEF MoverCreate, MoverStart, WaitError
    <2>3. \A s \in Runs : s # r => mover'[s] = mover[s]
      BY <1>3, <1>x DEF MoverCreate, MoverStart, WaitError, TypeOK
    <2> QED  BY <2>1, <2>2, <2>3
  <1>4. CASE WaitCancelled(r)
    <2>1. Moved
      BY <1>4, <1>g, <1>a DEF WaitCancelled, MoverReturns
    <2>2. UNCHANGED <<phase, owner, job, ctx>>
      BY <1>4 DEF WaitCancelled
    <2>3. \A s \in Runs : s # r => mover'[s] = mover[s] /\ (s \in kept' <=> s \in kept)
      BY <1>4, <1>x DEF WaitCancelled
    <2> QED  BY <2>1, <2>2, <2>3
  <1>5. CASE Deadline(r)
    BY <1>5, <1>x DEF Deadline, TypeOK
  <1>6. CASE MoverExit(r)
    BY <1>6, <1>x DEF MoverExit, TypeOK
  <1> QED
    BY <1>1, <1>2, <1>3, <1>4, <1>5, <1>6 DEF RunStep, CallStep, Blocking

LEMMA PhaseInit == Init => PhaseInv
  BY DEF Init, PhaseInv, Active

LEMMA PhaseNext == TypeOK /\ PhaseInv /\ [Next]_vars => PhaseInv'
  <1> SUFFICES ASSUME TypeOK, PhaseInv, [Next]_vars PROVE PhaseInv'
    OBVIOUS
  <1>1. CASE \E p \in Procs : ProcStep(p)
    <2> PICK p \in Procs : ProcStep(p)
      BY <1>1
    <2>1. CASE Exit(p) \/ Crash(p) \/ Killed(p)
      <3>1. Vanish(p)
        BY <2>1 DEF Exit, Crash, Killed
      <3> QED
        BY <3>1 DEF Vanish, PhaseInv, TypeOK, Active
    <2>2. CASE Shutdown(p)
      BY <2>2 DEF Shutdown, PhaseInv, TypeOK, Active
    <2>3. CASE StartProc(p) \/ ReapSnapshotter(p)
      <3>1. /\ phase[p] \in {"new", "reaping"}
            /\ \A q \in Procs : q # p => phase'[q] = phase[q]
            /\ UNCHANGED runVars
        BY <2>3 DEF StartProc, ReapSnapshotter, TypeOK
      <3> QED
        BY <3>1 DEF PhaseInv, TypeOK, Active, runVars
    <2>4. CASE TickerReap(p)
      BY <2>4 DEF TickerReap, PhaseInv, Active, procVars, runVars
    <2> QED  BY <2>1, <2>2, <2>3, <2>4 DEF ProcStep
  <1>2. CASE \E r \in Runs, p \in Procs, j \in Jobs : Trigger(r, p, j)
    BY <1>2 DEF Trigger, Goto, PhaseInv, TypeOK, Active, procVars
  <1>3. CASE \E r \in Runs : RunStep(r)
    <2> PICK r \in Runs : RunStep(r)
      BY <1>3
    <2>1. r \in kept' /\ r \notin kept =>
            /\ ctx[r] = "cancelled" /\ pc[r] = "wait" /\ KeepOnShutdown(job[r])
      BY DEF RunStep, CallStep, Blocking, AcquireCancelled, Prepare, PreHooks, HoldStop,
             HoldFails, SourceMounts, RestoreStop, MoverCreate, MoverStart, WaitStatus,
             WaitCancelled, PostHooks, SnapCleanup, ReleaseStart, RestoreStart,
             ReleaseSlot, Unlock, LockRepo, AcquireSlot, HoldEnter, ReleaseEnter,
             Deadline, WaitError, MoverExit, runVars
    <2>2. r \in kept' /\ r \notin kept => phase[owner[r]] \in {"cancelled", "gone"}
      BY <2>1 DEF PhaseInv, TypeOK, Active
    <2> QED
      BY <2>1, <2>2, RunFrame DEF PhaseInv, TypeOK, Active
  <1>4. CASE UNCHANGED vars
    BY <1>4 DEF vars, procVars, runVars, PhaseInv, Active
  <1> QED
    BY <1>1, <1>2, <1>3, <1>4 DEF Next

\* With a ContainerRemove that works, a mover is where its run says it is.
LEMMA MoverNext ==
  ASSUME "remove" \notin Faults
  PROVE  TypeOK /\ PhaseInv /\ MoverInv /\ [Next]_vars => MoverInv'
  <1> SUFFICES ASSUME TypeOK, PhaseInv, MoverInv, [Next]_vars PROVE MoverInv'
    OBVIOUS
  <1>1. CASE \E p \in Procs : ProcStep(p)
    <2> PICK p \in Procs : ProcStep(p)
      BY <1>1
    <2>1. CASE Exit(p) \/ Crash(p) \/ Killed(p)
      <3>1. Vanish(p)
        BY <2>1 DEF Exit, Crash, Killed
      <3> QED
        BY <3>1 DEF Vanish, MoverInv, TypeOK, Active, hostVars
    <2>2. CASE StartProc(p) \/ ReapSnapshotter(p) \/ TickerReap(p) \/ Shutdown(p)
      <3>1. /\ UNCHANGED <<pc, kept>>
            /\ \A r \in Runs : mover'[r] = mover[r] \/ mover'[r] = "gone"
        BY <2>2 DEF StartProc, ReapSnapshotter, TickerReap, Shutdown, ReapMovers,
                    runVars, hostVars, TypeOK
      <3> QED  BY <3>1 DEF MoverInv
    <2> QED  BY <2>1, <2>2 DEF ProcStep
  <1>2. CASE \E r \in Runs, p \in Procs, j \in Jobs : Trigger(r, p, j)
    BY <1>2 DEF Trigger, Goto, MoverInv, PhaseInv, TypeOK, hostVars
  <1>3. CASE \E r \in Runs : RunStep(r)
    <2> PICK r \in Runs : RunStep(r)
      BY <1>3
    <2> DEFINE Ok == /\ mover'[r] = "created" => pc'[r] \in {"start", "dead"}
                     /\ mover'[r] = "running" => pc'[r] \in {"wait", "dead"} \/ r \in kept'
    <2>r. Remove(r) => mover'[r] = "gone"
      BY DEF Remove, TypeOK
    <2>1. ASSUME MoverCreate(r) PROVE Ok
      BY <2>1 DEF MoverCreate, Goto, MoverReturns, MoverInv, TypeOK
    <2>2. ASSUME MoverStart(r) PROVE Ok
      BY <2>2, <2>r DEF MoverStart, Goto, TypeOK
    <2>3. ASSUME WaitCancelled(r) \/ WaitError(r) \/ WaitStatus(r) PROVE Ok
      BY <2>3, <2>r DEF WaitCancelled, WaitError, WaitStatus, MoverInv, hostVars
    <2>4. ASSUME MoverExit(r) \/ Deadline(r) PROVE Ok
      BY <2>4 DEF MoverExit, Deadline, MoverInv, TypeOK, runVars, hostVars
    <2>5. ASSUME ~MoverCreate(r), ~MoverStart(r), ~WaitCancelled(r),
                 ~WaitError(r), ~WaitStatus(r), ~MoverExit(r), ~Deadline(r)
          PROVE  Ok
      <3>1. /\ pc[r] \notin {"start", "wait", "dead"}
            /\ mover'[r] = mover[r] /\ (r \in kept' <=> r \in kept)
        BY <2>5 DEF RunStep, CallStep, Blocking, AcquireCancelled, Prepare, PreHooks, HoldStop,
             HoldFails, SourceMounts, RestoreStop, PostHooks, SnapCleanup, ReleaseStart,
             RestoreStart, ReleaseSlot, Unlock, LockRepo, AcquireSlot, HoldEnter,
             ReleaseEnter, hostVars
      <3> QED  BY <3>1 DEF MoverInv
    <2>6. Ok
      BY <2>1, <2>2, <2>3, <2>4, <2>5
    <2> QED
      BY <2>6, RunFrame DEF MoverInv
  <1>4. CASE UNCHANGED vars
    BY <1>4 DEF vars, runVars, hostVars, MoverInv
  <1> QED
    BY <1>1, <1>2, <1>3, <1>4 DEF Next

\* The only step that makes a mover run is MoverStart, with a live context.
LEMMA NewlyRunning ==
  ASSUME TypeOK, [Next]_vars, NEW r \in Running', r \notin Running
  PROVE  MoverStart(r) /\ ctx[r] = "live" /\ pc[r] = "start"
  <1> USE DEF Running
  <1>1. \A p \in Procs : ~ProcStep(p)
    BY DEF ProcStep, StartProc, ReapSnapshotter, TickerReap, Shutdown, Exit, Crash, Killed,
           Vanish, ReapMovers, hostVars, TypeOK
  <1>2. \A s \in Runs, p \in Procs, j \in Jobs : ~Trigger(s, p, j)
    BY DEF Trigger, hostVars
  <1>3. ~UNCHANGED vars
    BY DEF vars, hostVars
  <1>4. PICK s \in Runs : RunStep(s)
    BY <1>1, <1>2, <1>3 DEF Next
  <1>5. s = r
    BY <1>4, RunFrame
  <1>6. CASE MoverStart(r)
    BY <1>6 DEF MoverStart, Remove, TypeOK
  <1>7. CASE ~MoverStart(r)
    <2>1. CASE MoverCreate(r) \/ MoverExit(r) \/ WaitCancelled(r) \/ WaitError(r)
      BY <2>1 DEF MoverCreate, MoverExit, WaitCancelled, WaitError, Remove, TypeOK
    <2>2. CASE ~(MoverCreate(r) \/ MoverExit(r) \/ WaitCancelled(r) \/ WaitError(r))
      <3>1. UNCHANGED mover
        BY <1>4, <1>5, <1>7, <2>2 DEF RunStep, CallStep, Blocking, AcquireCancelled, Prepare,
             PreHooks, HoldStop, HoldFails, SourceMounts, RestoreStop, WaitStatus,
             PostHooks, SnapCleanup, ReleaseStart, RestoreStart, ReleaseSlot, Unlock,
             LockRepo, AcquireSlot, HoldEnter, ReleaseEnter, Deadline, hostVars
      <3> QED  BY <3>1
    <2> QED  BY <2>1, <2>2
  <1> QED  BY <1>6, <1>7

\* Runs of which a mover runs are past their trigger: their owner and job stay.
LEMMA RunningKeepsJob ==
  ASSUME TypeOK, PhaseInv, MoverInv, [Next]_vars, NEW r \in Running
  PROVE  owner'[r] = owner[r] /\ job'[r] = job[r]
  <1>0. pc[r] # "idle" /\ r \in Runs
    BY DEF MoverInv, PhaseInv, Running
  <1>1. CASE \E p \in Procs : ProcStep(p)
    BY <1>1 DEF ProcStep, StartProc, ReapSnapshotter, TickerReap, Shutdown, Exit, Crash, Killed,
                Vanish, runVars
  <1>2. CASE \E s \in Runs, p \in Procs, j \in Jobs : Trigger(s, p, j)
    BY <1>2, <1>0 DEF Trigger, TypeOK
  <1>3. CASE \E s \in Runs : RunStep(s)
    BY <1>3, RunFrame
  <1>4. CASE UNCHANGED vars
    BY <1>4 DEF vars, runVars
  <1> QED  BY <1>1, <1>2, <1>3, <1>4 DEF Next

OneMoverInv == LockInv /\ PhaseInv /\ MoverInv /\ OneMoverPerRepo

LEMMA OneMoverNext ==
  ASSUME "remove" \notin Faults
  PROVE  OneMoverInv /\ [Next]_vars => OneMoverInv'
  <1> SUFFICES ASSUME OneMoverInv, [Next]_vars PROVE OneMoverPerRepo'
    BY LockNext, PhaseNext, MoverNext DEF OneMoverInv, LockInv
  <1> USE DEF OneMoverInv, LockInv
  <1> SUFFICES ASSUME NEW r \in Running', NEW s \in Running', r # s,
                      owner'[r] = owner'[s]
               PROVE  job'[r].repo # job'[s].repo
    BY DEF OneMoverPerRepo
  <1>0. r \in Runs /\ s \in Runs
    BY DEF Running
  \* A mover about to start finds no other mover on its repository.
  <1>1. ASSUME NEW a \in Running', NEW b \in Running, a # b, a \notin Running,
               owner'[a] = owner'[b]
        PROVE  job'[a].repo # job'[b].repo
    <2>0. a \in Runs /\ b \in Runs
      BY DEF Running
    <2>1. MoverStart(a) /\ ctx[a] = "live" /\ pc[a] = "start"
      BY <1>1, NewlyRunning
    <2>2. UNCHANGED <<owner, job>>
      BY <2>1 DEF MoverStart
    <2>3. phase[owner[a]] = "up"
      BY <2>0, <2>1 DEF PhaseInv, Active
    <2>4. pc[b] = "wait"
      BY <2>0, <2>2, <2>3, <1>1 DEF MoverInv, PhaseInv, Running
    <2>5. InRepo(a) /\ InRepo(b)
      BY <2>1, <2>4 DEF InRepo
    <2> QED
      BY <2>0, <2>2, <2>5, <1>1 DEF RepoExclusive
  <1>2. CASE r \in Running /\ s \in Running
    BY <1>2, RunningKeepsJob DEF OneMoverPerRepo
  <1>3. CASE r \notin Running /\ s \in Running
    BY <1>3, <1>1
  <1>4. CASE r \in Running /\ s \notin Running
    BY <1>4, <1>1
  <1>5. CASE r \notin Running /\ s \notin Running
    <2>1. MoverStart(r) /\ MoverStart(s)
      BY <1>5, NewlyRunning
    <2>2. mover'[r] = mover[r]
      BY <1>0, <2>1 DEF MoverStart, Remove, TypeOK
    <2> QED  BY <1>5, <1>0, <2>2 DEF Running
  <1> QED  BY <1>2, <1>3, <1>4, <1>5

\* Movers started by one process never work on one repository at the same time,
\* whatever is cancelled, times out, crashes or is left running.
THEOREM MoversSerialised ==
  ASSUME "remove" \notin Faults
  PROVE  Spec => []OneMoverPerRepo
  <1>1. Init => OneMoverInv
    BY LockInit, PhaseInit DEF Init, OneMoverInv, MoverInv, OneMoverPerRepo, Running
  <1>2. OneMoverInv => OneMoverPerRepo
    BY DEF OneMoverInv
  <1> QED
    BY <1>1, <1>2, OneMoverNext, PTL DEF Spec

-----------------------------------------------------------------------------
(* Cold backups.  The count of a coldStop is the number of its holders;    *)
(* while the mutex is held across Stop or Start the count is 0; a holder's *)
(* container is down.                                                      *)

\* Which jobs reach the steps of RunTarget and of a stopping restore.
PcInv ==
  \A r \in Runs :
    /\ pc[r] \in {"prehooks", "hold", "stopping", "snapshot", "posthooks", "cleanup",
                  "coldrelease", "starting"} => job[r].op = "backup"
    /\ pc[r] \in {"hold", "stopping", "coldrelease", "starting"} => ColdBackup(job[r])
    /\ pc[r] \in {"rstop", "rstart"} => StopRestore(job[r])

LEMMA PcNext == TypeOK /\ PcInv /\ [Next]_vars => PcInv'
  <1> SUFFICES ASSUME TypeOK, PcInv, [Next]_vars PROVE PcInv'
    OBVIOUS
  <1>1. CASE \E p \in Procs : ProcStep(p)
    <2>1. UNCHANGED job /\ \A r \in Runs : pc'[r] = pc[r] \/ pc'[r] = "dead"
      BY <1>1 DEF ProcStep, StartProc, ReapSnapshotter, TickerReap, Shutdown, Exit,
                  Crash, Killed, Vanish, runVars, TypeOK
    <2> QED  BY <2>1 DEF PcInv
  <1>2. CASE \E r \in Runs, p \in Procs, j \in Jobs : Trigger(r, p, j)
    BY <1>2 DEF Trigger, Goto, PcInv, TypeOK
  <1>3. CASE \E r \in Runs : RunStep(r)
    <2> PICK r \in Runs : RunStep(r)
      BY <1>3
    <2>0. job[r] \in Jobs /\ UNCHANGED job
      BY RunFrame DEF TypeOK
    <2> DEFINE Ok(l) ==
          /\ l \in {"prehooks", "hold", "stopping", "snapshot", "posthooks", "cleanup",
                    "coldrelease", "starting"} => job[r].op = "backup"
          /\ l \in {"hold", "stopping", "coldrelease", "starting"} => ColdBackup(job[r])
          /\ l \in {"rstop", "rstart"} => StopRestore(job[r])
    <2>1. ASSUME MoverReturns(r) PROVE Ok(pc'[r])
      <3>1. pc'[r] = AfterMover(job[r])
        BY <2>1 DEF MoverReturns, Goto, TypeOK
      <3> QED  BY <3>1 DEF AfterMover, Unwind
    <2>2. ASSUME \/ MoverCreate(r) \/ MoverStart(r) \/ WaitStatus(r)
                 \/ WaitCancelled(r) \/ WaitError(r)
          PROVE  Ok(pc'[r])
      BY <2>1, <2>2 DEF MoverCreate, MoverStart, WaitStatus, WaitCancelled, WaitError,
                        Goto, TypeOK
    <2>3. ASSUME Prepare(r) PROVE Ok(pc'[r])
      BY <2>3 DEF Prepare, Goto, Unwind, TypeOK, StopRestore
    <2>4. ASSUME SourceMounts(r) \/ SnapCleanup(r) PROVE Ok(pc'[r])
      BY <2>4 DEF SourceMounts, SnapCleanup, AfterCleanup, Goto, PcInv, ColdBackup, TypeOK
    <2>5. ASSUME Deadline(r) \/ MoverExit(r) PROVE Ok(pc'[r])
      BY <2>5 DEF Deadline, MoverExit, PcInv, runVars
    <2>6. ASSUME PreHooks(r) \/ PostHooks(r) PROVE Ok(pc'[r])
      BY <2>6 DEF PreHooks, PostHooks, Goto, PcInv, ColdBackup, TypeOK
    <2>7. ASSUME HoldEnter(r) \/ HoldStop(r) \/ HoldFails(r) PROVE Ok(pc'[r])
      BY <2>7 DEF HoldEnter, HoldStop, HoldFails, Goto, PcInv, TypeOK
    <2>8. ASSUME ReleaseEnter(r) \/ ReleaseStart(r) \/ ReleaseSlot(r) PROVE Ok(pc'[r])
      BY <2>8 DEF ReleaseEnter, ReleaseStart, ReleaseSlot, Goto, PcInv, TypeOK
    <2>9. ASSUME \/ LockRepo(r) \/ AcquireSlot(r) \/ AcquireCancelled(r)
                 \/ RestoreStop(r) \/ RestoreStart(r) \/ Unlock(r)
          PROVE  Ok(pc'[r])
      BY <2>9 DEF LockRepo, AcquireSlot, AcquireCancelled, RestoreStop, RestoreStart,
                  Unlock, Goto, TypeOK
    <2>10. Ok(pc'[r])
      BY <2>2, <2>3, <2>4, <2>5, <2>6, <2>7, <2>8, <2>9 DEF RunStep, CallStep, Blocking
    <2> QED
      BY <2>0, <2>10, RunFrame DEF PcInv
  <1>4. CASE UNCHANGED vars
    BY <1>4 DEF vars, runVars, PcInv
  <1> QED
    BY <1>1, <1>2, <1>3, <1>4 DEF Next

Holders(p, c) == {r \in RunsOf(p) : InCold(r) /\ job[r].ctr = c}

LEMMA HoldersFinite ==
  ASSUME NEW p, NEW c
  PROVE  IsFiniteSet(Holders(p, c))
  BY RunAssumption, FS_Subset DEF Holders, RunsOf

\* Every other step of a run leaves the holders and the counts alone.
LEMMA ColdFrame ==
  ASSUME TypeOK, PcInv, NEW r \in Runs, RunStep(r),
         ~HoldEnter(r), ~HoldStop(r), ~ReleaseEnter(r)
  PROVE  /\ UNCHANGED refs
         /\ \A s \in Runs : InCold(s)' <=> InCold(s)
  <1>0. job[r] \in Jobs /\ UNCHANGED job
    BY RunFrame DEF TypeOK
  <1>1. InCold(r)' <=> InCold(r)
    <2> USE DEF InCold, ColdBackup
    <2>1. CASE \/ MoverCreate(r) \/ MoverStart(r) \/ WaitStatus(r)
               \/ WaitCancelled(r) \/ WaitError(r)
      <3>1. /\ pc[r] \in {"create", "start", "wait"}
            /\ pc'[r] \in {"start", "wait", AfterMover(job[r])}
        BY <2>1 DEF MoverCreate, MoverStart, WaitStatus, WaitCancelled, WaitError,
                    MoverReturns, Goto, TypeOK
      <3>2. job[r].op = "backup" => AfterMover(job[r]) = "posthooks"
        BY DEF AfterMover, StopRestore
      <3> QED  BY <1>0, <3>1, <3>2
    <2>2. CASE Prepare(r)
      BY <2>2, <1>0 DEF Prepare, Goto, Unwind, TypeOK
    <2>3. CASE SourceMounts(r) \/ SnapCleanup(r)
      BY <2>3, <1>0 DEF SourceMounts, SnapCleanup, AfterCleanup, Goto, TypeOK
    <2>4. CASE Deadline(r) \/ MoverExit(r)
      BY <2>4, <1>0 DEF Deadline, MoverExit, runVars
    <2>5. CASE PreHooks(r)
      BY <2>5, <1>0 DEF PreHooks, Goto, TypeOK
    <2>6. CASE PostHooks(r)
      BY <2>6, <1>0 DEF PostHooks, Goto, TypeOK
    <2>7. CASE HoldFails(r) \/ ReleaseStart(r) \/ ReleaseSlot(r)
      BY <2>7, <1>0 DEF HoldFails, ReleaseStart, ReleaseSlot, Goto, TypeOK
    <2>8. CASE RestoreStop(r) \/ RestoreStart(r)
      BY <2>8, <1>0 DEF RestoreStop, RestoreStart, Goto, TypeOK, PcInv, StopRestore
    <2>9. CASE LockRepo(r) \/ AcquireSlot(r) \/ AcquireCancelled(r) \/ Unlock(r)
      BY <2>9, <1>0 DEF LockRepo, AcquireSlot, AcquireCancelled, Unlock, Goto, TypeOK
    <2> QED
      BY <2>1, <2>2, <2>3, <2>4, <2>5, <2>6, <2>7, <2>8, <2>9 DEF RunStep, CallStep, Blocking
  <1>2. UNCHANGED refs
    BY DEF RunStep, CallStep, Blocking, AcquireCancelled, Prepare, PreHooks, HoldFails,
           SourceMounts, RestoreStop, MoverCreate, MoverStart, WaitStatus, WaitCancelled,
           PostHooks, SnapCleanup, ReleaseStart, RestoreStart, ReleaseSlot, Unlock,
           LockRepo, AcquireSlot, Deadline, WaitError, MoverExit, lockVars
  <1> QED
    BY <1>0, <1>1, <1>2, RunFrame DEF InCold

\* One holder more, or one less, for the container of run r in its process.
LEMMA HoldersStep ==
  ASSUME TypeOK, NEW r \in Runs, UNCHANGED <<owner, job>>,
         \A s \in Runs : s # r => (InCold(s)' <=> InCold(s)),
         NEW p \in Procs, NEW c \in Containers
  PROVE  /\ p # owner[r] \/ c # job[r].ctr => Holders(p, c)' = Holders(p, c)
         /\ ~InCold(r) /\ InCold(r)' /\ p = owner[r] /\ c = job[r].ctr =>
              Cardinality(Holders(p, c)') = Cardinality(Holders(p, c)) + 1
         /\ InCold(r) /\ ~InCold(r)' /\ p = owner[r] /\ c = job[r].ctr =>
              Cardinality(Holders(p, c)') = Cardinality(Holders(p, c)) - 1
  <1>1. ASSUME p # owner[r] \/ c # job[r].ctr
        PROVE  Holders(p, c)' = Holders(p, c)
    BY <1>1 DEF Holders, RunsOf
  <1>2. ASSUME ~InCold(r), InCold(r)', p = owner[r], c = job[r].ctr
        PROVE  Cardinality(Holders(p, c)') = Cardinality(Holders(p, c)) + 1
    <2>1. Holders(p, c)' = Holders(p, c) \cup {r} /\ r \notin Holders(p, c)
      BY <1>2 DEF Holders, RunsOf
    <2> QED  BY <2>1, HoldersFinite, FS_AddElement
  <1>3. ASSUME InCold(r), ~InCold(r)', p = owner[r], c = job[r].ctr
        PROVE  Cardinality(Holders(p, c)') = Cardinality(Holders(p, c)) - 1
    <2>1. Holders(p, c)' = Holders(p, c) \ {r} /\ r \in Holders(p, c)
      BY <1>3 DEF Holders, RunsOf
    <2> QED  BY <2>1, HoldersFinite, FS_RemoveElement
  <1> QED  BY <1>1, <1>2, <1>3

\* The mutex of a coldStop excludes, and its count is 0, while a run calls Stop
\* or Start.
InCall(r) == pc[r] \in {"stopping", "starting"}

MutexInv ==
  \A r \in Runs : InCall(r) =>
    /\ job[r].ctr \in coldMu[owner[r]]
    /\ refs[owner[r]][job[r].ctr] = 0
    /\ \A s \in Runs : InCall(s) /\ s # r /\ owner[s] = owner[r]
                        => job[s].ctr # job[r].ctr

RefsInv == TypeOK /\ PcInv /\ MutexInv /\ RefsCountHolders

LEMMA RefsDef ==
  RefsCountHolders <=>
    \A p \in Procs, c \in Containers : refs[p][c] = Cardinality(Holders(p, c))
  BY DEF RefsCountHolders, Holders

\* The end of a process ends its holders.
LEMMA VanishCold ==
  ASSUME RefsInv, NEW p \in Procs, Vanish(p)
  PROVE  MutexInv' /\ RefsCountHolders'
  <1> USE DEF RefsInv
  <1>1. /\ UNCHANGED <<owner, job>>
        /\ \A r \in Runs : IF owner[r] = p /\ Active(r) THEN pc'[r] = "dead"
                                                     ELSE pc'[r] = pc[r]
        /\ \A q \in Procs : q # p => refs'[q] = refs[q] /\ coldMu'[q] = coldMu[q]
        /\ \A c \in Containers : refs'[p][c] = 0
    BY DEF Vanish, TypeOK
  <1>2. \A r \in Runs : /\ InCall(r)' => InCall(r) /\ owner[r] # p
                        /\ InCold(r)' <=> InCold(r) /\ owner[r] # p
    BY <1>1 DEF InCall, InCold, Active
  <1>3. MutexInv'
    BY <1>1, <1>2 DEF MutexInv, TypeOK
  <1>4. ASSUME NEW q \in Procs, NEW c \in Containers
        PROVE  refs'[q][c] = Cardinality(Holders(q, c)')
    <2>1. CASE q = p
      <3>1. Holders(q, c)' = {}
        BY <1>1, <1>2, <2>1 DEF Holders, RunsOf
      <3> QED  BY <3>1, <2>1, <1>1, FS_EmptySet
    <2>2. CASE q # p
      <3>1. Holders(q, c)' = Holders(q, c)
        BY <1>1, <1>2, <2>2 DEF Holders, RunsOf
      <3> QED  BY <3>1, <2>2, <1>1, RefsDef
    <2> QED  BY <2>1, <2>2
  <1>5. RefsCountHolders'
    BY <1>4 DEF RefsCountHolders, Holders
  <1> QED  BY <1>3, <1>5

\* hold and release count the run that calls them, and no other.
LEMMA CountStep ==
  ASSUME RefsInv, NEW r \in Runs, HoldEnter(r) \/ HoldStop(r) \/ ReleaseEnter(r)
  PROVE  RefsCountHolders'
  <1> USE DEF RefsInv
  <1>0. /\ UNCHANGED <<owner, job>> /\ owner[r] \in Procs /\ job[r].ctr \in Containers
        /\ \A s \in Runs : s # r => (InCold(s)' <=> InCold(s))
        /\ ColdBackup(job[r])
    BY JobFields DEF HoldEnter, HoldStop, ReleaseEnter, Goto, InCold, PcInv, TypeOK
  <1> DEFINE p0 == owner[r]
             c0 == job[r].ctr
  <1>1. \A p \in Procs, c \in Containers : refs[p][c] \in Int
    BY DEF TypeOK
  <1>2. \/ /\ ~InCold(r) /\ InCold(r)'
           /\ refs' = [refs EXCEPT ![p0][c0] = @ + 1]
        \/ /\ InCold(r) /\ ~InCold(r)'
           /\ refs' = [refs EXCEPT ![p0][c0] = @ - 1]
        \/ /\ ~InCold(r) /\ ~InCold(r)' /\ refs' = refs
    <2>1. CASE HoldEnter(r)
      BY <2>1, <1>0 DEF HoldEnter, Goto, InCold, TypeOK
    <2>2. CASE HoldStop(r)
      BY <2>2, <1>0 DEF HoldStop, Goto, InCold, TypeOK
    <2>3. CASE ReleaseEnter(r)
      BY <2>3, <1>0 DEF ReleaseEnter, Goto, InCold, TypeOK
    <2> QED  BY <2>1, <2>2, <2>3
  <1>3. ASSUME NEW p \in Procs, NEW c \in Containers
        PROVE  refs'[p][c] = Cardinality(Holders(p, c)')
    <2>1. refs[p][c] = Cardinality(Holders(p, c))
      BY RefsDef
    <2>2. CASE ~InCold(r) /\ ~InCold(r)' /\ refs' = refs
      <3>1. Holders(p, c)' = Holders(p, c)
        BY <1>0, <2>2 DEF Holders, RunsOf
      <3> QED  BY <3>1, <2>1, <2>2
    <2>3. CASE p # p0 \/ c # c0
      <3>1. Holders(p, c)' = Holders(p, c)
        BY <1>0, <2>3, HoldersStep
      <3>2. refs'[p][c] = refs[p][c]
        BY <1>2, <2>3, <1>0 DEF TypeOK
      <3> QED  BY <3>1, <3>2, <2>1
    <2>4. CASE /\ p = p0 /\ c = c0 /\ ~InCold(r) /\ InCold(r)'
               /\ refs' = [refs EXCEPT ![p0][c0] = @ + 1]
      <3>1. refs'[p][c] = refs[p][c] + 1
        BY <2>4, <1>0 DEF TypeOK
      <3> QED  BY <3>1, <2>1, <2>4, <1>0, HoldersStep
    <2>5. CASE /\ p = p0 /\ c = c0 /\ InCold(r) /\ ~InCold(r)'
               /\ refs' = [refs EXCEPT ![p0][c0] = @ - 1]
      <3>1. refs'[p][c] = refs[p][c] - 1
        BY <2>5, <1>0 DEF TypeOK
      <3> QED  BY <3>1, <2>1, <2>5, <1>0, HoldersStep
    <2> QED  BY <1>2, <2>2, <2>3, <2>4, <2>5
  <1> QED  BY <1>3 DEF RefsCountHolders, Holders

\* The steps of a run keep the mutex of its coldStop.
LEMMA MutexStep ==
  ASSUME RefsInv, NEW r \in Runs, RunStep(r)
  PROVE  MutexInv'
  <1> USE DEF RefsInv
  <1>0. /\ owner[r] \in Procs /\ job[r] \in Jobs /\ job[r].ctr \in Containers
        /\ UNCHANGED <<owner, job>>
        /\ \A s \in Runs : s # r => (InCall(s)' <=> InCall(s))
    BY RunFrame, JobFields DEF TypeOK, InCall
  <1>t. \A s \in Runs : owner[s] \in Procs /\ job[s].ctr \in Containers
    BY JobFields DEF TypeOK
  <1>1. CASE HoldEnter(r) \/ ReleaseEnter(r)
    <2>1. /\ ~InCall(r) /\ job[r].ctr \notin coldMu[owner[r]]
          /\ \A p \in Procs : coldMu[p] \subseteq coldMu'[p]
          /\ \A p \in Procs, c \in Containers :
                p # owner[r] \/ c # job[r].ctr => refs'[p][c] = refs[p][c]
          /\ InCall(r)' => /\ job[r].ctr \in coldMu'[owner[r]]
                           /\ refs'[owner[r]][job[r].ctr] = 0
      <3>r. refs[owner[r]][job[r].ctr] \in Int /\ pc[r] \in Pc /\ coldMu[owner[r]] \subseteq Containers
        BY <1>0 DEF TypeOK
      <3>1. CASE HoldEnter(r) /\ refs[owner[r]][job[r].ctr] = 0
        <4>1. /\ pc[r] = "hold" /\ job[r].ctr \notin coldMu[owner[r]] /\ refs' = refs
              /\ coldMu' = [coldMu EXCEPT ![owner[r]] = @ \cup {job[r].ctr}]
          BY <3>1 DEF HoldEnter
        <4> QED  BY <3>1, <4>1, <1>0, <3>r DEF InCall, TypeOK
      <3>2. CASE HoldEnter(r) /\ refs[owner[r]][job[r].ctr] # 0
        <4>1. /\ pc[r] = "hold" /\ pc'[r] = "snapshot" /\ coldMu' = coldMu
              /\ job[r].ctr \notin coldMu[owner[r]]
              /\ refs' = [refs EXCEPT ![owner[r]][job[r].ctr] = @ + 1]
          BY <3>2 DEF HoldEnter, Goto, TypeOK
        <4>2. ~InCall(r) /\ ~InCall(r)'
          BY <4>1 DEF InCall
        <4> QED  BY <4>1, <4>2, <1>0 DEF TypeOK
      <3>3. CASE ReleaseEnter(r)
        <4>1. /\ pc[r] = "coldrelease" /\ job[r].ctr \notin coldMu[owner[r]]
              /\ refs' = [refs EXCEPT ![owner[r]][job[r].ctr] = @ - 1]
          BY <3>3 DEF ReleaseEnter
        <4>2. /\ ~InCall(r)
              /\ \A p \in Procs, c \in Containers :
                   p # owner[r] \/ c # job[r].ctr => refs'[p][c] = refs[p][c]
              /\ refs'[owner[r]][job[r].ctr] = refs[owner[r]][job[r].ctr] - 1
          BY <4>1, <1>0, <3>r DEF InCall, TypeOK
        <4>3. CASE refs[owner[r]][job[r].ctr] = 1
          <5>1. coldMu' = [coldMu EXCEPT ![owner[r]] = @ \cup {job[r].ctr}]
            BY <3>3, <4>3 DEF ReleaseEnter
          <5> QED  BY <4>1, <4>2, <4>3, <5>1, <1>0 DEF TypeOK
        <4>4. CASE refs[owner[r]][job[r].ctr] # 1
          <5>1. coldMu' = coldMu /\ pc'[r] = "release"
            BY <3>3, <4>4 DEF ReleaseEnter, Goto, TypeOK
          <5>2. ~InCall(r)'
            BY <5>1 DEF InCall
          <5> QED  BY <4>1, <4>2, <5>1, <5>2
        <4> QED  BY <4>3, <4>4
      <3> QED  BY <1>1, <3>1, <3>2, <3>3
    <2>2. \A s \in Runs : InCall(s) /\ owner[s] = owner[r] => job[s].ctr # job[r].ctr
      BY <2>1 DEF MutexInv
    <2> QED
      BY <1>0, <1>t, <2>1, <2>2 DEF MutexInv
  <1>2. CASE HoldStop(r) \/ HoldFails(r) \/ ReleaseStart(r)
    <2>1. /\ InCall(r) /\ ~InCall(r)'
          /\ \A p \in Procs, c \in Containers :
                p # owner[r] \/ c # job[r].ctr =>
                  /\ refs'[p][c] = refs[p][c]
                  /\ c \in coldMu'[p] <=> c \in coldMu[p]
      BY <1>2, <1>0 DEF HoldStop, HoldFails, ReleaseStart, LeaveColdMu, Goto, InCall, TypeOK
    <2> QED
      BY <1>0, <1>t, <2>1 DEF MutexInv
  <1>3. CASE /\ ~HoldEnter(r) /\ ~ReleaseEnter(r) /\ ~HoldStop(r)
             /\ ~HoldFails(r) /\ ~ReleaseStart(r)
    <2>1. UNCHANGED <<refs, coldMu>>
      BY <1>3 DEF RunStep, CallStep, Blocking, AcquireCancelled, Prepare, PreHooks, SourceMounts,
           RestoreStop, MoverCreate, MoverStart, WaitStatus, WaitCancelled, PostHooks,
           SnapCleanup, RestoreStart, ReleaseSlot, Unlock, LockRepo, AcquireSlot,
           Deadline, WaitError, MoverExit, lockVars
    <2>2. InCall(r)' => InCall(r)
      <3>1. /\ Unwind(job[r]) \notin {"stopping", "starting"}
            /\ AfterMover(job[r]) \notin {"stopping", "starting"}
            /\ AfterCleanup(job[r]) \notin {"stopping", "starting"}
        BY <1>0, NextPc
      <3>2. CASE Prepare(r)
        BY <3>1, <3>2 DEF Prepare, Goto, InCall, TypeOK
      <3>3. CASE SourceMounts(r) \/ SnapCleanup(r) \/ PreHooks(r) \/ PostHooks(r)
        BY <3>1, <3>3 DEF SourceMounts, SnapCleanup, PreHooks, PostHooks, Goto, InCall, TypeOK
      <3>4. CASE \/ MoverCreate(r) \/ MoverStart(r) \/ WaitStatus(r)
                 \/ WaitCancelled(r) \/ WaitError(r)
        BY <3>1, <3>4 DEF MoverCreate, MoverStart, WaitStatus, WaitCancelled, WaitError,
                          MoverReturns, Goto, InCall, TypeOK
      <3>5. CASE Deadline(r) \/ MoverExit(r)
        BY <3>5 DEF Deadline, MoverExit, InCall, runVars
      <3>6. CASE \/ LockRepo(r) \/ AcquireSlot(r) \/ AcquireCancelled(r) \/ Unlock(r)
                 \/ RestoreStop(r) \/ RestoreStart(r) \/ ReleaseSlot(r)
        BY <3>6 DEF LockRepo, AcquireSlot, AcquireCancelled, Unlock, RestoreStop,
                    RestoreStart, ReleaseSlot, Goto, InCall, TypeOK
      <3> QED
        BY <1>3, <3>2, <3>3, <3>4, <3>5, <3>6 DEF RunStep, CallStep, Blocking
    <2> QED
      BY <1>0, <2>1, <2>2 DEF MutexInv
  <1> QED  BY <1>1, <1>2, <1>3

LEMMA RefsNext == RefsInv /\ [Next]_vars => RefsInv'
  <1> SUFFICES ASSUME RefsInv, [Next]_vars PROVE MutexInv' /\ RefsCountHolders'
    BY TypeNext, PcNext DEF RefsInv
  <1>f. ASSUME UNCHANGED <<refs, coldMu>>,
               \A s \in Runs : InCold(s) \/ InCold(s)' \/ InCall(s) \/ InCall(s)'
                  => pc'[s] = pc[s] /\ owner'[s] = owner[s] /\ job'[s] = job[s]
        PROVE  MutexInv' /\ RefsCountHolders'
    <2>1. \A s \in Runs : InCall(s)' => InCall(s) /\ owner'[s] = owner[s] /\ job'[s] = job[s]
      BY <1>f DEF InCall
    <2>2. \A s \in Runs : /\ InCold(s)' <=> InCold(s)
                          /\ InCold(s) => owner'[s] = owner[s] /\ job'[s] = job[s]
      BY <1>f DEF InCold
    <2>3. \A p \in Procs, c \in Containers : Holders(p, c)' = Holders(p, c)
      BY <2>2 DEF Holders, RunsOf
    <2>4. RefsCountHolders'
      BY <1>f, <2>3, RefsDef DEF RefsInv, RefsCountHolders, Holders
    <2> QED  BY <1>f, <2>1, <2>4 DEF RefsInv, MutexInv
  <1>1. CASE \E p \in Procs : ProcStep(p)
    <2> PICK p \in Procs : ProcStep(p)
      BY <1>1
    <2>1. CASE Exit(p) \/ Crash(p) \/ Killed(p)
      BY <2>1, VanishCold DEF Exit, Crash, Killed
    <2>2. CASE StartProc(p) \/ ReapSnapshotter(p) \/ TickerReap(p) \/ Shutdown(p)
      BY <2>2, <1>f DEF StartProc, ReapSnapshotter, TickerReap, Shutdown, lockVars, runVars
    <2> QED  BY <2>1, <2>2 DEF ProcStep
  <1>2. CASE \E r \in Runs, p \in Procs, j \in Jobs : Trigger(r, p, j)
    <2> PICK r \in Runs, p \in Procs, j \in Jobs : Trigger(r, p, j)
      BY <1>2
    <2>1. /\ pc[r] = "idle" /\ pc'[r] = "lock" /\ UNCHANGED <<refs, coldMu>>
          /\ \A s \in Runs : s # r => pc'[s] = pc[s] /\ owner'[s] = owner[s] /\ job'[s] = job[s]
      BY DEF Trigger, Goto, RefsInv, TypeOK, lockVars
    <2>2. ~InCold(r) /\ ~InCall(r) /\ ~InCold(r)' /\ ~InCall(r)'
      BY <2>1 DEF InCold, InCall
    <2> QED  BY <1>f, <2>1, <2>2
  <1>3. CASE \E r \in Runs : RunStep(r)
    <2> PICK r \in Runs : RunStep(r)
      BY <1>3
    <2>1. CASE HoldEnter(r) \/ HoldStop(r) \/ ReleaseEnter(r)
      BY <2>1, CountStep, MutexStep
    <2>2. CASE ~HoldEnter(r) /\ ~HoldStop(r) /\ ~ReleaseEnter(r)
      <3>1. UNCHANGED <<refs, owner, job>> /\ \A s \in Runs : InCold(s)' <=> InCold(s)
        BY <2>2, ColdFrame, RunFrame DEF RefsInv
      <3>2. \A p \in Procs, c \in Containers : Holders(p, c)' = Holders(p, c)
        BY <3>1 DEF Holders, RunsOf
      <3>3. RefsCountHolders'
        BY <3>1, <3>2, RefsDef DEF RefsInv, RefsCountHolders, Holders
      <3> QED  BY <3>3, MutexStep
    <2> QED  BY <2>1, <2>2
  <1>4. CASE UNCHANGED vars
    BY <1>4, <1>f DEF vars, lockVars, runVars
  <1> QED
    BY <1>1, <1>2, <1>3, <1>4 DEF Next

LEMMA RefsInit == Init => RefsInv
  <1> SUFFICES ASSUME Init PROVE PcInv /\ MutexInv /\ RefsCountHolders
    BY TypeInit DEF RefsInv
  <1>1. PcInv /\ MutexInv
    BY DEF Init, PcInv, MutexInv, InCall
  <1>2. \A p \in Procs, c \in Containers : Holders(p, c) = {}
    <2>1. \A r \in Runs : pc[r] = "idle"
      BY DEF Init
    <2>2. \A r \in Runs : ~InCold(r)
      BY <2>1 DEF InCold
    <2> QED  BY <2>2 DEF Holders, RunsOf
  <1>3. \A p \in Procs, c \in Containers : refs[p][c] = 0
    BY DEF Init
  <1>4. RefsCountHolders
    BY <1>2, <1>3, FS_EmptySet, RefsDef
  <1> QED
    BY <1>1, <1>4

\* The reference count of a container is exactly the number of cold backups
\* between hold and release, in every process, whatever calls fail.
THEOREM RefsExact == Spec => []RefsCountHolders
  <1>1. RefsInv => RefsCountHolders
    BY DEF RefsInv
  <1> QED
    BY RefsInit, RefsNext, <1>1, PTL DEF Spec

-----------------------------------------------------------------------------
(* Cold backups.  Within one daemon the reference count makes overlapping  *)
(* cold backups share one downtime: while it is not zero the container is  *)
(* down, and the only start happens at zero with mu held.  A CLI process   *)
(* or an in-place restore bypasses the count, so the theorem excludes both *)
(* (the run orch_restore_vs_cold shows that it has to).                    *)

\* Daemons are started one after the other.
OneAlive == \A p, q \in Procs : Alive(p) /\ Alive(q) => p = q

LEMMA OneAliveNext ==
  ASSUME \A p \in Procs : Kind[p] = "daemon"
  PROVE  TypeOK /\ OneAlive /\ [Next]_vars => OneAlive'
  <1> SUFFICES ASSUME TypeOK, OneAlive, [Next]_vars PROVE OneAlive'
    OBVIOUS
  <1>1. CASE \E p \in Procs : ProcStep(p)
    <2> PICK p \in Procs : ProcStep(p)
      BY <1>1
    <2>1. CASE StartProc(p)
      <3>1. \A q \in Procs : q # p => phase'[q] = phase[q]
        BY <2>1 DEF StartProc, TypeOK
      <3>2. \A q \in Procs : q # p => ~Alive(q)
        BY <2>1 DEF StartProc
      <3> QED  BY <3>1, <3>2 DEF OneAlive, Alive
    <2>2. CASE ~StartProc(p)
      <3>1. /\ \A q \in Procs : q # p => phase'[q] = phase[q]
            /\ phase'[p] \in {"reaping", "up", "cancelled"} =>
                 phase[p] \in {"reaping", "up", "cancelled"}
        BY <2>2 DEF ProcStep, ReapSnapshotter, TickerReap, Shutdown, Exit, Crash, Killed, Vanish,
                    procVars, TypeOK
      <3> QED  BY <3>1 DEF OneAlive, Alive
    <2> QED  BY <2>1, <2>2
  <1>2. CASE \E r \in Runs, p \in Procs, j \in Jobs : Trigger(r, p, j)
    BY <1>2 DEF Trigger, procVars, OneAlive, Alive
  <1>3. CASE \E r \in Runs : RunStep(r)
    BY <1>3, RunFrame DEF OneAlive, Alive
  <1>4. CASE UNCHANGED vars
    BY <1>4 DEF vars, procVars, OneAlive, Alive
  <1> QED
    BY <1>1, <1>2, <1>3, <1>4 DEF Next

\* Every holder of a cold stop has its container down.
ColdDown == \A r \in Runs : InCold(r) => ~up[job[r].ctr]

\* All holders belong to the one daemon that is alive, so a zero count means
\* that nobody on the host relies on the container being down.
LEMMA ZeroMeansNobody ==
  ASSUME RefsInv, PhaseInv, OneAlive, NEW r \in Runs, Active(r),
         refs[owner[r]][job[r].ctr] = 0,
         NEW s \in Runs, InCold(s)
  PROVE  job[s].ctr # job[r].ctr
  <1>1. owner[r] \in Procs /\ owner[s] \in Procs /\ job[r].ctr \in Containers
    BY JobFields DEF RefsInv, TypeOK
  <1>2. Active(s)
    BY DEF InCold, Active
  <1>3. owner[s] = owner[r]
    BY <1>1, <1>2 DEF PhaseInv, OneAlive, Alive
  <1>4. Cardinality(Holders(owner[r], job[r].ctr)) = 0
    BY <1>1, RefsDef DEF RefsInv
  <1>5. Holders(owner[r], job[r].ctr) = {}
    BY <1>4, HoldersFinite, FS_EmptySet
  <1> QED
    BY <1>3, <1>5 DEF Holders, RunsOf

\* A run that joins a cold stop joins a holder of its own process.
LEMMA JoinsHolder ==
  ASSUME RefsInv, NEW r \in Runs, refs[owner[r]][job[r].ctr] # 0
  PROVE  \E s \in Runs : InCold(s) /\ job[s].ctr = job[r].ctr
  <1>1. owner[r] \in Procs /\ job[r].ctr \in Containers
    BY JobFields DEF RefsInv, TypeOK
  <1>2. Cardinality(Holders(owner[r], job[r].ctr)) # 0
    BY <1>1, RefsDef DEF RefsInv
  <1>3. Holders(owner[r], job[r].ctr) # {}
    BY <1>2, FS_EmptySet
  <1> QED
    BY <1>3 DEF Holders, RunsOf

LEMMA ColdDownNext ==
  ASSUME \A j \in Jobs : ~StopRestore(j)
  PROVE  RefsInv /\ PhaseInv /\ OneAlive /\ ColdDown /\ [Next]_vars => ColdDown'
  <1> SUFFICES ASSUME RefsInv, PhaseInv, OneAlive, ColdDown, [Next]_vars PROVE ColdDown'
    OBVIOUS
  <1>t. TypeOK /\ \A s \in Runs : job[s] \in Jobs /\ job[s].ctr \in Containers
    BY JobFields DEF RefsInv, TypeOK
  <1>f. ASSUME UNCHANGED up,
               \A s \in Runs : InCold(s)' => InCold(s) /\ job'[s] = job[s]
        PROVE  ColdDown'
    BY <1>f DEF ColdDown
  <1>1. CASE \E p \in Procs : ProcStep(p)
    <2> PICK p \in Procs : ProcStep(p)
      BY <1>1
    <2>1. UNCHANGED <<up, job>> /\ \A s \in Runs : pc'[s] = pc[s] \/ pc'[s] = "dead"
      BY <1>t DEF ProcStep, StartProc, ReapSnapshotter, TickerReap, Shutdown, Exit, Crash, Killed,
             Vanish, runVars, hostVars, TypeOK
    <2>2. \A s \in Runs : InCold(s)' => InCold(s)
      BY <2>1 DEF InCold
    <2> QED  BY <2>1, <2>2, <1>f
  <1>2. CASE \E r \in Runs, p \in Procs, j \in Jobs : Trigger(r, p, j)
    <2> PICK r \in Runs, p \in Procs, j \in Jobs : Trigger(r, p, j)
      BY <1>2
    <2>1. /\ UNCHANGED up /\ pc'[r] = "lock"
          /\ \A s \in Runs : s # r => pc'[s] = pc[s] /\ job'[s] = job[s]
      BY <1>t DEF Trigger, Goto, hostVars, TypeOK
    <2>2. \A s \in Runs : InCold(s)' => InCold(s) /\ job'[s] = job[s]
      BY <2>1 DEF InCold
    <2> QED  BY <2>1, <2>2, <1>f
  <1>3. CASE \E r \in Runs : RunStep(r)
    <2> PICK r \in Runs : RunStep(r)
      BY <1>3
    <2>0. /\ UNCHANGED <<owner, job>>
          /\ \A s \in Runs : s # r => pc'[s] = pc[s]
      BY <1>t, RunFrame
    <2>o. \A s \in Runs : s # r => (InCold(s)' <=> InCold(s))
      BY <2>0 DEF InCold
    <2>1. CASE HoldEnter(r)
      <3>1. UNCHANGED up
        BY <2>1 DEF HoldEnter, hostVars
      <3>2. CASE refs[owner[r]][job[r].ctr] = 0
        <4>1. pc'[r] = "stopping"
          BY <2>1, <3>2, <1>t DEF HoldEnter, Goto, TypeOK
        <4>2. ~InCold(r)'
          BY <4>1 DEF InCold
        <4> QED  BY <4>2, <3>1, <2>0, <2>o, <1>f
      <3>3. CASE refs[owner[r]][job[r].ctr] # 0
        <4>1. ~up[job[r].ctr]
          BY <3>3, JoinsHolder DEF ColdDown
        <4> QED  BY <4>1, <3>1, <2>0, <2>o DEF ColdDown
      <3> QED  BY <3>2, <3>3
    <2>2. CASE HoldStop(r)
      <3>1. up' = [up EXCEPT ![job[r].ctr] = FALSE]
        BY <2>2 DEF HoldStop
      <3>2. ~up'[job[r].ctr] /\ \A c \in Containers : ~up[c] => ~up'[c]
        BY <3>1, <1>t DEF TypeOK
      <3>3. \A s \in Runs : job'[s] = job[s]
        BY <2>0
      <3> QED  BY <3>2, <3>3, <2>o, <1>t DEF ColdDown
    <2>3. CASE ReleaseStart(r)
      <3>1. InCall(r) /\ Active(r) /\ pc'[r] = "release"
        BY <2>3, <1>t DEF ReleaseStart, Goto, InCall, Active, TypeOK
      <3>2. refs[owner[r]][job[r].ctr] = 0
        BY <3>1 DEF RefsInv, MutexInv
      <3>3. \A s \in Runs : InCold(s) => job[s].ctr # job[r].ctr
        BY <3>1, <3>2, ZeroMeansNobody
      <3>4. ~InCold(r)'
        BY <3>1 DEF InCold
      <3>5. \A c \in Containers : c # job[r].ctr => up'[c] = up[c]
        BY <2>3, <1>t DEF ReleaseStart, Restarted, TypeOK
      <3> QED  BY <3>3, <3>4, <3>5, <2>0, <2>o, <1>t DEF ColdDown
    <2>4. CASE HoldFails(r)
      <3>1. pc'[r] = "release"
        BY <2>4, <1>t DEF HoldFails, Goto, TypeOK
      <3>2. ~InCold(r)'
        BY <3>1 DEF InCold
      <3>3. \A c \in Containers : ~up[c] => ~up'[c]
        BY <2>4, <1>t DEF HoldFails, TypeOK
      <3> QED  BY <3>2, <3>3, <2>0, <2>o, <1>t DEF ColdDown
    <2>5. CASE ReleaseEnter(r)
      <3>1. UNCHANGED up /\ pc'[r] \in {"starting", "release"}
        BY <2>5, <1>t DEF ReleaseEnter, Goto, hostVars, TypeOK
      <3>2. ~InCold(r)'
        BY <3>1 DEF InCold
      <3> QED  BY <3>1, <3>2, <2>0, <2>o, <1>f
    <2>6. CASE /\ ~HoldEnter(r) /\ ~HoldStop(r) /\ ~ReleaseStart(r)
               /\ ~HoldFails(r) /\ ~ReleaseEnter(r)
      <3>1. ~RestoreStart(r) /\ ~RestoreStop(r)
        BY <1>t DEF RestoreStart, RestoreStop, RefsInv, PcInv
      <3>2. UNCHANGED up
        BY <2>6, <3>1 DEF RunStep, CallStep, Blocking, AcquireCancelled, Prepare, PreHooks,
             SourceMounts, MoverCreate, MoverStart, WaitStatus, WaitCancelled, PostHooks,
             SnapCleanup, ReleaseSlot, Unlock, LockRepo, AcquireSlot, Deadline, WaitError,
             MoverExit, hostVars
      <3>3. \A s \in Runs : InCold(s)' <=> InCold(s)
        BY <2>6, ColdFrame DEF RefsInv
      <3> QED  BY <3>2, <3>3, <2>0, <1>f
    <2> QED  BY <2>1, <2>2, <2>3, <2>4, <2>5, <2>6
  <1>4. CASE UNCHANGED vars
    <2>1. UNCHANGED <<up, pc, job>>
      BY <1>4 DEF vars, runVars, hostVars
    <2> QED  BY <2>1, <1>f DEF InCold
  <1> QED
    BY <1>1, <1>2, <1>3, <1>4 DEF Next


\* A cold mover that lost its process has its app down until a cold backup of
\* another process is past its own restart.
ColdOrphanDown ==
  \A r \in Runs :
    mover[r] = "running" /\ ColdBackup(job[r]) /\ pc[r] = "dead"
    => ~up[job[r].ctr] \/ ReleasedElsewhere(r)

\* A run past its restart stays there.
LEMMA StaysReleased ==
  ASSUME TypeOK, NEW q \in Runs, RunStep(q), NEW u \in Runs,
         pc[u] \in {"release", "unlock", "done", "dead"}
  PROVE  pc'[u] \in {"release", "unlock", "done", "dead"}
  <1>1. CASE u # q
    BY <1>1, RunFrame
  <1>2. CASE u = q /\ (ReleaseSlot(q) \/ Unlock(q))
    BY <1>2 DEF ReleaseSlot, Unlock, Goto, TypeOK
  <1>3. CASE u = q /\ ~ReleaseSlot(q) /\ ~Unlock(q)
    <2>1. pc[q] \notin {"release", "unlock"} \/ UNCHANGED pc
      BY <1>3 DEF RunStep, CallStep, Blocking, AcquireCancelled, Prepare, PreHooks, HoldStop,
         HoldFails, SourceMounts, RestoreStop, MoverCreate, MoverStart, WaitStatus,
         WaitCancelled, PostHooks, SnapCleanup, ReleaseStart, RestoreStart, LockRepo,
         AcquireSlot, HoldEnter, ReleaseEnter, Deadline, WaitError, MoverExit, runVars
    <2> QED  BY <1>3, <2>1, RunFrame
  <1> QED  BY <1>1, <1>2, <1>3

LEMMA ColdOrphanDownNext ==
  ASSUME \A j \in Jobs : ~StopRestore(j)
  PROVE  /\ RefsInv /\ PhaseInv /\ MoverInv /\ ColdDown /\ ColdOrphanDown /\ [Next]_vars
         => ColdOrphanDown'
  <1> SUFFICES ASSUME RefsInv, PhaseInv, MoverInv, ColdDown, ColdOrphanDown, [Next]_vars,
                      NEW r \in Runs, mover'[r] = "running", ColdBackup(job[r])',
                      pc'[r] = "dead", up'[job'[r].ctr]
               PROVE  ReleasedElsewhere(r)'
    BY DEF ColdOrphanDown
  <1>t. TypeOK /\ \A s \in Runs : job[s] \in Jobs /\ job[s].ctr \in Containers
    BY JobFields DEF RefsInv, TypeOK
  <1>r. mover[r] = "running" /\ job'[r] = job[r] /\ owner'[r] = owner[r] /\ ColdBackup(job[r])
    <2>1. CASE r \notin Running
      <3>1. MoverStart(r) /\ pc[r] = "start"
        BY <1>t, <2>1, NewlyRunning DEF Running
      <3>2. RunStep(r)
        BY <3>1 DEF RunStep, CallStep
      <3> QED  BY <1>t, <3>1, <3>2, RunFrame
    <2>2. CASE r \in Running
      <3>1. job'[r] = job[r] /\ owner'[r] = owner[r]
        BY <1>t, <2>2, RunningKeepsJob
      <3> QED  BY <2>2, <3>1 DEF Running, ColdBackup
    <2> QED  BY <2>1, <2>2
  \* Who was past its restart still is.
  <1>s. ASSUME pc[r] = "dead", up[job[r].ctr],
               \A u \in Runs : pc[u] \in {"release", "unlock", "done", "dead"} =>
                 /\ pc'[u] \in {"release", "unlock", "done", "dead"}
                 /\ job'[u] = job[u] /\ owner'[u] = owner[u]
        PROVE  ReleasedElsewhere(r)'
    <2>1. PICK u \in Runs :
            /\ owner[u] # owner[r] /\ pc[u] \in {"release", "unlock", "done", "dead"}
            /\ ColdBackup(job[u]) /\ job[u].ctr = job[r].ctr
      BY <1>r, <1>s DEF ColdOrphanDown, ReleasedElsewhere
    <2> QED  BY <1>r, <1>s, <2>1 DEF ReleasedElsewhere, ColdBackup
  <1>1. CASE \E p \in Procs : ProcStep(p)
    <2>1. UNCHANGED <<up, job, owner>> /\ \A s \in Runs : pc'[s] = pc[s] \/ pc'[s] = "dead"
      BY <1>t, <1>1 DEF ProcStep, StartProc, ReapSnapshotter, TickerReap, Shutdown, Exit, Crash,
             Killed, Vanish, runVars, hostVars, TypeOK
    <2>2. CASE pc[r] = "dead"
      BY <1>s, <2>1, <2>2
    <2>3. CASE pc[r] # "dead"
      <3>1. r \notin kept
        BY <1>r DEF PhaseInv, ColdBackup, KeepOnShutdown
      <3>2. pc[r] = "wait"
        BY <1>r, <2>3, <3>1 DEF MoverInv
      <3>3. ~up[job[r].ctr]
        BY <1>r, <3>2 DEF ColdDown, InCold
      <3> QED  BY <1>r, <2>1, <3>3
    <2> QED  BY <2>2, <2>3
  <1>2. CASE \E s \in Runs, p \in Procs, j \in Jobs : Trigger(s, p, j)
    <2> PICK s \in Runs, p \in Procs, j \in Jobs : Trigger(s, p, j)
      BY <1>2
    <2>1. /\ UNCHANGED up /\ pc[s] = "idle" /\ pc'[s] = "lock"
          /\ \A u \in Runs : u # s => /\ pc'[u] = pc[u] /\ job'[u] = job[u]
                                      /\ owner'[u] = owner[u]
      BY <1>t DEF Trigger, Goto, hostVars, TypeOK
    <2> QED  BY <1>r, <1>s, <2>1
  <1>3. CASE \E q \in Runs : RunStep(q)
    <2> PICK q \in Runs : RunStep(q)
      BY <1>3
    <2>1. pc[r] = "dead" /\ UNCHANGED <<job, owner, phase>>
      BY <1>t, RunFrame
    <2>2. CASE up[job[r].ctr]
      BY <1>s, <1>t, <2>1, <2>2, StaysReleased
    <2>3. CASE ~up[job[r].ctr]
      <3>1. ~RestoreStart(q) /\ ~RestoreStop(q)
        BY <1>t DEF RestoreStart, RestoreStop, RefsInv, PcInv
      <3>2. CASE ReleaseStart(q)
        <4>1. job[q].ctr = job[r].ctr
          BY <1>r, <1>t, <2>3, <3>2 DEF ReleaseStart, Restarted, TypeOK
        <4>2. pc[q] = "starting" /\ pc'[q] = "release"
          BY <1>t, <3>2 DEF ReleaseStart, Goto, TypeOK
        <4>3. ColdBackup(job[q])
          BY <4>2 DEF RefsInv, PcInv
        <4>4. owner[q] # owner[r]
          BY <2>1, <4>2 DEF PhaseInv, Active
        <4> QED  BY <1>r, <2>1, <4>1, <4>2, <4>3, <4>4 DEF ReleasedElsewhere, ColdBackup
      <3>3. CASE HoldStop(q) \/ HoldFails(q)
        BY <1>r, <1>t, <2>3, <3>3 DEF HoldStop, HoldFails, TypeOK
      <3>4. CASE ~ReleaseStart(q) /\ ~HoldStop(q) /\ ~HoldFails(q)
        <4>1. UNCHANGED up
          BY <3>1, <3>4 DEF RunStep, CallStep, Blocking, AcquireCancelled, Prepare, PreHooks,
             SourceMounts, MoverCreate, MoverStart, WaitStatus, WaitCancelled, PostHooks,
             SnapCleanup, ReleaseSlot, Unlock, LockRepo, AcquireSlot, HoldEnter, ReleaseEnter,
             Deadline, WaitError, MoverExit, hostVars
        <4> QED  BY <1>r, <2>3, <4>1
      <3> QED  BY <3>2, <3>3, <3>4
    <2> QED  BY <2>2, <2>3
  <1>4. CASE UNCHANGED vars
    BY <1>4, <1>r, <1>s DEF vars, runVars, hostVars
  <1> QED
    BY <1>1, <1>2, <1>3, <1>4 DEF Next

ColdInv == /\ RefsInv /\ PhaseInv /\ MoverInv /\ OneAlive
           /\ ColdDown /\ ColdOrphanDown

\* Under one daemon at a time, without in-place restores, no mover of a cold
\* backup reads a running container, whatever number of cold backups overlap and
\* whichever of their calls fail or are cancelled.  Once its process has exited or
\* crashed, that lasts until a cold backup of another daemon ends.
THEOREM ColdBackupsQuiesced ==
  ASSUME "remove" \notin Faults,
         \A p \in Procs : Kind[p] = "daemon",
         \A j \in Jobs : ~StopRestore(j)
  PROVE  Spec => []ColdQuiescence
  <1>1. Init => ColdInv
    <2> SUFFICES ASSUME Init PROVE OneAlive /\ ColdDown /\ ColdOrphanDown /\ MoverInv
      BY RefsInit, PhaseInit DEF ColdInv
    <2>1. \A r \in Runs : ~InCold(r) /\ pc[r] = "idle"
      BY DEF Init, InCold
    <2> QED  BY <2>1 DEF Init, OneAlive, Alive, ColdDown, ColdOrphanDown, MoverInv
  <1>2. ColdInv /\ [Next]_vars => ColdInv'
    BY RefsNext, PhaseNext, MoverNext, OneAliveNext, ColdDownNext, ColdOrphanDownNext
       DEF ColdInv, RefsInv
  <1>3. ColdInv => ColdQuiescence
    <2> SUFFICES ASSUME ColdInv, NEW r \in Running, ColdBackup(job[r]),
                        pc[r] = "dead" => ~ReleasedElsewhere(r)
                 PROVE  ~up[job[r].ctr]
      BY DEF ColdQuiescence
    <2>1. CASE pc[r] = "dead"
      BY <2>1 DEF ColdInv, ColdOrphanDown, Running
    <2>2. CASE pc[r] # "dead"
      <3>1. r \notin kept
        BY DEF ColdInv, PhaseInv, Running, ColdBackup, KeepOnShutdown
      <3>2. pc[r] = "wait"
        BY <2>2, <3>1 DEF ColdInv, MoverInv, Running
      <3>3. InCold(r)
        BY <3>2 DEF InCold
      <3> QED  BY <3>3 DEF ColdInv, ColdDown, Running
    <2> QED  BY <2>1, <2>2
  <1> QED
    BY <1>1, <1>2, <1>3, PTL DEF Spec

=============================================================================
