---------------------- MODULE OrchestratorHost_proofs -----------------------
(***************************************************************************)
(* Proofs about what the runs of Orchestrator leave on the host: the hooks *)
(* they have run, the snapshots they have taken, the slots they occupy and *)
(* the apps they have stopped.  For any number of processes, runs,         *)
(* repositories and containers; a theorem that needs a call to succeed     *)
(* names the fault it excludes.                                            *)
(***************************************************************************)
EXTENDS Orchestrator_proofs

-----------------------------------------------------------------------------
(* Frames: what a step leaves alone.                                       *)

\* A step of a process ends runs and reaps movers that never started; it moves
\* no run.
LEMMA ProcFrame ==
  ASSUME TypeOK, NEW p \in Procs, ProcStep(p)
  PROVE  /\ UNCHANGED <<owner, job, kept, hook, up>>
         /\ \A r \in Runs :
              /\ pc'[r] = pc[r] \/ (Active(r) /\ pc'[r] = "dead")
              /\ mover'[r] = mover[r] \/ (mover[r] = "created" /\ mover'[r] = "gone")
  <1> USE DEF procVars, lockVars, runVars, hostVars, TypeOK
  <1>1. CASE StartProc(p)
    BY <1>1 DEF StartProc, ReapMovers, Reaped
  <1>2. CASE TickerReap(p)
    BY <1>2 DEF TickerReap, ReapMovers, Reaped
  <1>3. CASE ReapSnapshotter(p) \/ Shutdown(p)
    BY <1>3 DEF ReapSnapshotter, Shutdown
  <1>4. CASE Exit(p) \/ Crash(p) \/ Killed(p)
    BY <1>4 DEF Exit, Crash, Killed, Vanish
  <1> QED
    BY <1>1, <1>2, <1>3, <1>4 DEF ProcStep

\* A trigger gives an idle run its process and its job.
LEMMA TriggerFrame ==
  ASSUME TypeOK, NEW r \in Runs, NEW p \in Procs, NEW j \in Jobs, Trigger(r, p, j)
  PROVE  /\ pc[r] = "idle" /\ pc'[r] = "lock" /\ owner'[r] = p /\ job'[r] = j
         /\ \A s \in Runs : s # r => /\ pc'[s] = pc[s]
                                     /\ owner'[s] = owner[s] /\ job'[s] = job[s]
         /\ UNCHANGED <<phase, inUse, sem, refs, kept, hook, up, mover, snap>>
  BY DEF Trigger, Goto, TypeOK, procVars, lockVars, hostVars

\* The steps that touch hooks, snapshots, slots and apps.
LEMMA HostFrame ==
  ASSUME TypeOK, NEW r \in Runs, RunStep(r)
  PROVE  /\ UNCHANGED inUse
         /\ ~PreHooks(r) /\ ~PostHooks(r) => UNCHANGED hook
         /\ ~SourceMounts(r) /\ ~SnapCleanup(r) => UNCHANGED snap
         /\ ~AcquireSlot(r) /\ ~ReleaseSlot(r) => UNCHANGED sem
         /\ \A s \in Runs : s # r => /\ hook'[s] = hook[s]
                                     /\ s \in snap' <=> s \in snap
  <1> USE DEF procVars, lockVars, runVars, hostVars
  <1>1. CASE PreHooks(r) \/ PostHooks(r)
    BY <1>1 DEF PreHooks, PostHooks, TypeOK
  <1>2. CASE SourceMounts(r) \/ SnapCleanup(r)
    BY <1>2 DEF SourceMounts, SnapCleanup
  <1>3. CASE AcquireSlot(r) \/ ReleaseSlot(r)
    BY <1>3 DEF AcquireSlot, ReleaseSlot
  <1>4. CASE \/ LockRepo(r) \/ AcquireCancelled(r) \/ Prepare(r) \/ Deadline(r)
             \/ HoldEnter(r) \/ HoldStop(r) \/ HoldFails(r) \/ RestoreStop(r)
             \/ ReleaseEnter(r) \/ ReleaseStart(r) \/ RestoreStart(r) \/ Unlock(r)
    BY <1>4 DEF LockRepo, AcquireCancelled, Prepare, Deadline, HoldEnter, HoldStop,
                HoldFails, RestoreStop, ReleaseEnter, ReleaseStart, RestoreStart, Unlock
  <1>5. CASE \/ MoverCreate(r) \/ MoverStart(r) \/ MoverExit(r) \/ WaitStatus(r)
             \/ WaitCancelled(r) \/ WaitError(r)
    BY <1>5 DEF MoverCreate, MoverStart, MoverExit, WaitStatus, WaitCancelled, WaitError
  <1> QED
    BY <1>1, <1>2, <1>3, <1>4, <1>5 DEF RunStep, CallStep, Blocking

\* Where the mover leads its run.
LEMMA MoverSteps ==
  ASSUME TypeOK, NEW r \in Runs,
         \/ MoverCreate(r) \/ MoverStart(r) \/ WaitStatus(r)
         \/ WaitCancelled(r) \/ WaitError(r)
  PROVE  /\ pc[r] \in {"create", "start", "wait"}
         /\ pc'[r] \in {"start", "wait", AfterMover(job[r])}
         /\ UNCHANGED <<job, owner, hook, snap, up, sem>>
  <1> USE DEF procVars, lockVars, runVars, hostVars
  <1>1. Goto(r, AfterMover(job[r])) => pc'[r] = AfterMover(job[r])
    BY DEF Goto, TypeOK
  <1>2. /\ Goto(r, "start") => pc'[r] = "start"
        /\ Goto(r, "wait") => pc'[r] = "wait"
    BY DEF Goto, TypeOK
  <1> QED
    BY <1>1, <1>2 DEF MoverCreate, MoverStart, WaitStatus, WaitCancelled, WaitError,
                      MoverReturns

-----------------------------------------------------------------------------
(* Post-hooks.  A run that has got as far as its mover cannot return       *)
(* without passing the deferred post-hooks, whatever the mover did.        *)

BeforeMover == {"idle", "lock", "slot", "prepare", "prehooks", "hold", "stopping",
                "snapshot", "rstop", "create"}

\* A run has no mover before MoverCreate; after it, a backup with hooks is on
\* its way to the post-hooks, has run them or has lost its process.
HookInv ==
  \A r \in Runs :
    /\ pc[r] \in BeforeMover => mover[r] = "none"
    /\ mover[r] # "none" /\ job[r].op = "backup" /\ job[r].hooks
       => pc[r] \in {"start", "wait", "posthooks", "dead"} \/ hook[r] = "post"

LEMMA HookNext == TypeOK /\ PcInv /\ HookInv /\ [Next]_vars => HookInv'
  <1> SUFFICES ASSUME TypeOK, PcInv, HookInv, [Next]_vars PROVE HookInv'
    OBVIOUS
  <1>1. CASE \E p \in Procs : ProcStep(p)
    BY <1>1, ProcFrame DEF HookInv, BeforeMover
  <1>2. CASE \E r \in Runs, p \in Procs, j \in Jobs : Trigger(r, p, j)
    BY <1>2, TriggerFrame DEF HookInv, BeforeMover
  <1>3. CASE \E r \in Runs : RunStep(r)
    <2> PICK r \in Runs : RunStep(r)
      BY <1>3
    <2>0. UNCHANGED job /\ job[r] \in Jobs
      BY RunFrame DEF TypeOK
    <2> DEFINE Ok == /\ pc'[r] \in BeforeMover => mover'[r] = "none"
                     /\ mover'[r] # "none" /\ job[r].op = "backup" /\ job[r].hooks
                        => pc'[r] \in {"start", "wait", "posthooks", "dead"}
                           \/ hook'[r] = "post"
    <2>1. ASSUME \/ MoverCreate(r) \/ MoverStart(r) \/ WaitStatus(r)
                 \/ WaitCancelled(r) \/ WaitError(r)
          PROVE  Ok
      <3>1. pc'[r] \in {"start", "wait", AfterMover(job[r])}
        BY <2>1, MoverSteps
      <3>2. AfterMover(job[r]) \notin BeforeMover
        BY <2>0, NextPc DEF BeforeMover
      <3>3. job[r].op = "backup" => AfterMover(job[r]) = "posthooks"
        BY DEF AfterMover, StopRestore
      <3> QED  BY <3>1, <3>2, <3>3 DEF BeforeMover
    <2>2. ASSUME MoverExit(r) \/ Deadline(r) PROVE Ok
      BY <2>2 DEF MoverExit, Deadline, HookInv, BeforeMover, runVars, hostVars, TypeOK
    <2>3. ASSUME PostHooks(r) PROVE Ok
      BY <2>3 DEF PostHooks, Goto, HookInv, BeforeMover, hostVars, TypeOK
    <2>4. ASSUME PreHooks(r) PROVE Ok
      BY <2>4 DEF PreHooks, Goto, HookInv, BeforeMover, hostVars, TypeOK
    <2>5. ASSUME /\ ~MoverCreate(r) /\ ~MoverStart(r) /\ ~WaitStatus(r)
                 /\ ~WaitCancelled(r) /\ ~WaitError(r) /\ ~MoverExit(r)
                 /\ ~Deadline(r) /\ ~PostHooks(r) /\ ~PreHooks(r)
          PROVE  Ok
      <3>1. /\ mover' = mover /\ hook' = hook
            /\ pc'[r] \in BeforeMover => pc[r] \in BeforeMover
            /\ pc[r] \notin {"start", "wait", "posthooks", "dead"}
        <4>1. CASE LockRepo(r) \/ AcquireSlot(r) \/ AcquireCancelled(r) \/ Unlock(r)
          BY <4>1 DEF LockRepo, AcquireSlot, AcquireCancelled, Unlock, Goto, hostVars,
                      BeforeMover, TypeOK
        <4>2. CASE Prepare(r)
          BY <4>2 DEF Prepare, Goto, hostVars, BeforeMover, TypeOK
        <4>3. CASE HoldEnter(r) \/ HoldStop(r) \/ HoldFails(r)
          BY <4>3 DEF HoldEnter, HoldStop, HoldFails, Goto, hostVars, BeforeMover, TypeOK
        <4>4. CASE SourceMounts(r) \/ SnapCleanup(r)
          BY <4>4, <2>0, NextPc DEF SourceMounts, SnapCleanup, Goto, BeforeMover, TypeOK
        <4>5. CASE RestoreStop(r) \/ RestoreStart(r)
          BY <4>5 DEF RestoreStop, RestoreStart, Goto, BeforeMover, TypeOK
        <4>6. CASE ReleaseEnter(r) \/ ReleaseStart(r) \/ ReleaseSlot(r)
          BY <4>6 DEF ReleaseEnter, ReleaseStart, ReleaseSlot, Goto, hostVars,
                      BeforeMover, TypeOK
        <4> QED
          BY <2>5, <4>1, <4>2, <4>3, <4>4, <4>5, <4>6 DEF RunStep, CallStep, Blocking
      <3> QED  BY <3>1 DEF HookInv
    <2>6. Ok
      BY <2>1, <2>2, <2>3, <2>4, <2>5
    <2> QED
      BY <2>0, <2>6, RunFrame, HostFrame DEF HookInv
  <1>4. CASE UNCHANGED vars
    BY <1>4 DEF vars, runVars, hostVars, HookInv
  <1> QED
    BY <1>1, <1>2, <1>3, <1>4 DEF Next

\* A backup that returns after it got as far as its mover has run its post-hooks:
\* whether the mover ended, failed, timed out, was cancelled or was left running,
\* and whichever other calls fail.
THEOREM HooksUndone == Spec => []PostHooksFollow
  <1> DEFINE Inv == TypeOK /\ PcInv /\ HookInv
  <1>1. Init => Inv
    BY TypeInit, RefsInit DEF Init, RefsInv, HookInv
  <1>2. Inv /\ [Next]_vars => Inv'
    BY TypeNext, PcNext, HookNext
  <1>3. Inv => PostHooksFollow
    BY DEF HookInv, PostHooksFollow, TypeOK
  <1> QED
    BY <1>1, <1>2, <1>3, PTL DEF Spec

-----------------------------------------------------------------------------
(* Snapshots.  The snapshot of a backup exists from sourceMountsFor on,    *)
(* and as long as a mover may read it: the deferred cleanup spares the     *)
(* snapshot of a mover left running, and the reap of the next daemon spares *)
(* every snapshot that a running mover has mounted.  The reap lists the    *)
(* mounts first and destroys later; between the two no mover may start.    *)

\* Where a run has its snapshot and no cleanup has run yet.
Reading == {"create", "start", "wait", "posthooks", "cleanup"}

SnapUsed ==
  \A r \in Runs :
    /\ job[r].op = "backup" /\ job[r].snap
    /\ mover[r] = "running" \/ pc[r] \in Reading
    => r \in snap

\* What a reap has listed still covers the movers of backups that run.
ReapSpares ==
  \A p \in Procs : phase[p] = "reaping" =>
    \A r \in Running : job[r].op = "backup" => r \in inUse[p]

\* Only a process that runs backups reaps snapshots, and no other runs a backup.
BackupProc ==
  /\ \A r \in Runs : pc[r] # "idle" /\ job[r].op = "backup" => Kind[owner[r]] # "command"
  /\ \A p \in Procs : phase[p] = "reaping" => Kind[p] # "command"

\* Daemons are started one after the other, whatever commands run beside them.
OneDaemon ==
  \A p, q \in Procs : /\ Kind[p] = "daemon" /\ Kind[q] = "daemon"
                      /\ Alive(p) /\ Alive(q)
                      => p = q

LEMMA BackupProcNext == TypeOK /\ BackupProc /\ [Next]_vars => BackupProc'
  <1> SUFFICES ASSUME TypeOK, BackupProc, [Next]_vars PROVE BackupProc'
    OBVIOUS
  <1>1. CASE \E p \in Procs : ProcStep(p)
    <2> PICK p \in Procs : ProcStep(p)
      BY <1>1
    <2>1. \A r \in Runs : pc'[r] # "idle" => pc[r] # "idle"
      BY ProcFrame DEF Active
    <2>2. UNCHANGED <<owner, job>>
      BY ProcFrame
    <2>3. CASE StartProc(p)
      <3>1. \A q \in Procs : q # p => phase'[q] = phase[q]
        BY <2>3 DEF StartProc, TypeOK
      <3>2. Kind[p] = "command" => phase'[p] = "up"
        BY <2>3 DEF StartProc, TypeOK
      <3> QED  BY <2>1, <2>2, <3>1, <3>2 DEF BackupProc
    <2>4. CASE ~StartProc(p)
      <3>1. \A q \in Procs : phase'[q] = "reaping" => phase[q] = "reaping"
        BY <2>4 DEF ProcStep, ReapSnapshotter, TickerReap, Shutdown, Exit, Crash, Killed, Vanish,
                    procVars, TypeOK
      <3> QED  BY <3>1, <2>1, <2>2 DEF BackupProc
    <2> QED  BY <2>3, <2>4
  <1>2. CASE \E r \in Runs, p \in Procs, j \in Jobs : Trigger(r, p, j)
    <2> PICK r \in Runs, p \in Procs, j \in Jobs : Trigger(r, p, j)
      BY <1>2
    <2>1. Kind[p] = "command" => j.op # "backup"
      BY DEF Trigger, Offers
    <2> QED  BY <2>1, TriggerFrame DEF BackupProc
  <1>3. CASE \E r \in Runs : RunStep(r)
    BY <1>3, RunFrame DEF BackupProc
  <1>4. CASE UNCHANGED vars
    BY <1>4 DEF vars, procVars, runVars, BackupProc
  <1> QED
    BY <1>1, <1>2, <1>3, <1>4 DEF Next

LEMMA OneDaemonNext == TypeOK /\ OneDaemon /\ [Next]_vars => OneDaemon'
  <1> SUFFICES ASSUME TypeOK, OneDaemon, [Next]_vars PROVE OneDaemon'
    OBVIOUS
  <1>1. CASE \E p \in Procs : ProcStep(p)
    <2> PICK p \in Procs : ProcStep(p)
      BY <1>1
    <2>1. CASE StartProc(p)
      <3>1. \A q \in Procs : q # p => phase'[q] = phase[q]
        BY <2>1 DEF StartProc, TypeOK
      <3>2. Kind[p] = "daemon" => \A q \in Procs : Kind[q] = "daemon" => ~Alive(q)
        BY <2>1 DEF StartProc
      <3> QED  BY <3>1, <3>2 DEF OneDaemon, Alive
    <2>2. CASE ~StartProc(p)
      <3>1. \A q \in Procs : phase'[q] \in {"reaping", "up", "cancelled"} =>
                               phase[q] \in {"reaping", "up", "cancelled"}
        BY <2>2 DEF ProcStep, ReapSnapshotter, TickerReap, Shutdown, Exit, Crash, Killed, Vanish,
                    procVars, TypeOK
      <3> QED  BY <3>1 DEF OneDaemon, Alive
    <2> QED  BY <2>1, <2>2
  <1>2. CASE \E r \in Runs, p \in Procs, j \in Jobs : Trigger(r, p, j)
    BY <1>2, TriggerFrame DEF OneDaemon, Alive
  <1>3. CASE \E r \in Runs : RunStep(r)
    BY <1>3, RunFrame DEF OneDaemon, Alive
  <1>4. CASE UNCHANGED vars
    BY <1>4 DEF vars, procVars, OneDaemon, Alive
  <1> QED
    BY <1>1, <1>2, <1>3, <1>4 DEF Next

\* While a daemon reaps, no backup is going on: the runs of earlier daemons died
\* with them and its own have not been triggered.
LEMMA NoBackupWhileReaping ==
  ASSUME TypeOK, PhaseInv, BackupProc, OneDaemon,
         \A q \in Procs : Kind[q] # "backup",
         NEW p \in Procs, phase[p] = "reaping",
         NEW r \in Runs, Active(r)
  PROVE  job[r].op # "backup"
  <1> SUFFICES ASSUME job[r].op = "backup" PROVE FALSE
    OBVIOUS
  <1>1. owner[r] \in Procs /\ pc[r] # "idle"
    BY DEF TypeOK, Active
  <1>2. Kind[owner[r]] = "daemon" /\ Kind[p] = "daemon"
    BY <1>1, ProcAssumption DEF BackupProc, ProcKind
  <1>3. phase[owner[r]] \in {"up", "cancelled"}
    BY DEF PhaseInv
  <1> QED  BY <1>1, <1>2, <1>3 DEF OneDaemon, Alive

\* A process that is reaping has listed the mounts in this step or earlier.
LEMMA ReapingStep ==
  ASSUME TypeOK, [Next]_vars, NEW p \in Procs, phase'[p] = "reaping"
  PROVE  \/ inUse'[p] = Running
         \/ phase[p] = "reaping" /\ inUse'[p] = inUse[p]
  <1>1. CASE \E q \in Procs : ProcStep(q)
    <2> PICK q \in Procs : ProcStep(q)
      BY <1>1
    <2>1. CASE StartProc(q)
      BY <2>1 DEF StartProc, TypeOK
    <2>2. CASE ReapSnapshotter(q) \/ Exit(q) \/ Crash(q) \/ Killed(q)
      BY <2>2 DEF ReapSnapshotter, Exit, Crash, Killed, Vanish, TypeOK
    <2>3. CASE TickerReap(q) \/ Shutdown(q)
      BY <2>3 DEF TickerReap, Shutdown, procVars, TypeOK
    <2> QED  BY <2>1, <2>2, <2>3 DEF ProcStep
  <1>2. CASE \E r \in Runs, q \in Procs, j \in Jobs : Trigger(r, q, j)
    BY <1>2, TriggerFrame
  <1>3. CASE \E r \in Runs : RunStep(r)
    BY <1>3, RunFrame, HostFrame
  <1>4. CASE UNCHANGED vars
    BY <1>4 DEF vars, procVars
  <1> QED
    BY <1>1, <1>2, <1>3, <1>4 DEF Next

SnapInv == /\ TypeOK /\ PcInv /\ PhaseInv /\ MoverInv
           /\ BackupProc /\ OneDaemon /\ ReapSpares /\ SnapUsed

LEMMA ReapSparesNext ==
  ASSUME \A q \in Procs : Kind[q] # "backup"
  PROVE  SnapInv /\ [Next]_vars => ReapSpares'
  <1> SUFFICES ASSUME SnapInv, [Next]_vars,
                      NEW p \in Procs, phase'[p] = "reaping",
                      NEW r \in Running', job'[r].op = "backup"
               PROVE  r \in inUse'[p]
    BY DEF ReapSpares
  <1> USE DEF SnapInv
  <1>0. r \in Runs
    BY DEF Running
  <1>1. CASE r \in Running
    <2>1. job'[r] = job[r]
      BY <1>1, RunningKeepsJob
    <2> QED  BY <1>1, <2>1, ReapingStep DEF ReapSpares
  <1>2. CASE r \notin Running
    <2>1. MoverStart(r) /\ pc[r] = "start"
      BY <1>2, NewlyRunning
    <2>2. UNCHANGED <<phase, job>>
      BY <2>1 DEF MoverStart, procVars
    <2>3. Active(r)
      BY <2>1 DEF Active
    <2> QED  BY <1>0, <2>2, <2>3, NoBackupWhileReaping
  <1> QED  BY <1>1, <1>2

LEMMA SnapUsedNext ==
  ASSUME \A q \in Procs : Kind[q] # "backup"
  PROVE  SnapInv /\ [Next]_vars => SnapUsed'
  <1> SUFFICES ASSUME SnapInv, [Next]_vars PROVE SnapUsed'
    OBVIOUS
  <1> USE DEF SnapInv
  <1> DEFINE Uses(r) == /\ job[r].op = "backup" /\ job[r].snap
                        /\ mover[r] = "running" \/ pc[r] \in Reading
  <1>1. CASE \E p \in Procs : ProcStep(p)
    <2> PICK p \in Procs : ProcStep(p)
      BY <1>1
    <2>1. \A r \in Runs : Uses(r)' => Uses(r)
      BY ProcFrame DEF Reading
    <2>2. CASE ReapSnapshotter(p)
      <3> SUFFICES ASSUME NEW r \in Runs, Uses(r) PROVE r \in snap'
        BY <2>1 DEF SnapUsed
      <3>1. phase[p] = "reaping"
        BY <2>2 DEF ReapSnapshotter
      <3>2. ~Active(r)
        BY <3>1, NoBackupWhileReaping
      <3>3. r \in Running
        BY <3>2 DEF Running, Active, Reading
      <3>4. r \in inUse[p] /\ r \in snap
        BY <3>1, <3>3 DEF ReapSpares, SnapUsed
      <3> QED  BY <2>2, <3>4 DEF ReapSnapshotter
    <2>3. CASE ~ReapSnapshotter(p)
      <3>1. UNCHANGED snap
        BY <2>3 DEF ProcStep, StartProc, TickerReap, Shutdown, Exit, Crash, Killed, Vanish, hostVars
      <3> QED  BY <2>1, <3>1 DEF SnapUsed
    <2> QED  BY <2>2, <2>3
  <1>2. CASE \E r \in Runs, p \in Procs, j \in Jobs : Trigger(r, p, j)
    <2> PICK r \in Runs, p \in Procs, j \in Jobs : Trigger(r, p, j)
      BY <1>2
    <2>1. mover[r] # "running"
      BY TriggerFrame DEF MoverInv, PhaseInv
    <2> QED  BY <2>1, TriggerFrame DEF SnapUsed, Reading
  <1>3. CASE \E r \in Runs : RunStep(r)
    <2> PICK r \in Runs : RunStep(r)
      BY <1>3
    <2>0. UNCHANGED job /\ job[r] \in Jobs
      BY RunFrame DEF TypeOK
    <2>1. ASSUME \/ MoverCreate(r) \/ MoverStart(r) \/ WaitStatus(r)
                 \/ WaitCancelled(r) \/ WaitError(r)
          PROVE  Uses(r)' => r \in snap'
      BY <2>0, <2>1, MoverSteps DEF SnapUsed, Reading
    <2>2. ASSUME MoverExit(r) \/ Deadline(r) \/ PostHooks(r)
          PROVE  Uses(r)' => r \in snap'
      BY <2>0, <2>2 DEF MoverExit, Deadline, PostHooks, SnapUsed, Reading, runVars, hostVars,
                        TypeOK
    <2>3. ASSUME SnapCleanup(r) PROVE Uses(r)' => r \in snap'
      <3>1. pc[r] = "cleanup" /\ pc'[r] = AfterCleanup(job[r]) /\ UNCHANGED mover
        BY <2>3 DEF SnapCleanup, Goto, TypeOK
      <3>2. AfterCleanup(job[r]) \notin Reading
        BY <2>0, NextPc DEF Reading
      <3>3. mover[r] = "running" => r \in kept
        BY <3>1 DEF MoverInv
      <3>4. r \in kept => UNCHANGED snap
        BY <2>3 DEF SnapCleanup
      <3> QED  BY <2>0, <3>1, <3>2, <3>3, <3>4 DEF SnapUsed
    <2>4. ASSUME SourceMounts(r) PROVE Uses(r)' => r \in snap'
      <3>1. snap \subseteq snap' /\ UNCHANGED mover
        BY <2>4 DEF SourceMounts
      <3>2. \/ job[r].snap => r \in snap'
            \/ pc'[r] = AfterCleanup(job[r])
        BY <2>4 DEF SourceMounts, Goto, TypeOK
      <3>3. AfterCleanup(job[r]) \notin Reading
        BY <2>0, NextPc DEF Reading
      <3> QED  BY <2>0, <3>1, <3>2, <3>3 DEF SnapUsed
    <2>5. ASSUME /\ ~MoverCreate(r) /\ ~MoverStart(r) /\ ~WaitStatus(r)
                 /\ ~WaitCancelled(r) /\ ~WaitError(r) /\ ~MoverExit(r)
                 /\ ~Deadline(r) /\ ~PostHooks(r) /\ ~SnapCleanup(r) /\ ~SourceMounts(r)
          PROVE  Uses(r)' => r \in snap'
      <3>1. /\ UNCHANGED <<mover, snap>>
            /\ pc'[r] \in Reading => job[r].op # "backup"
        <4>1. CASE LockRepo(r) \/ AcquireSlot(r) \/ AcquireCancelled(r) \/ Unlock(r)
          BY <4>1 DEF LockRepo, AcquireSlot, AcquireCancelled, Unlock, Goto, hostVars,
                      Reading, TypeOK
        <4>2. CASE Prepare(r)
          <5>1. Unwind(job[r]) \notin Reading
            BY <2>0, NextPc DEF Reading
          <5>2. \/ pc'[r] = Unwind(job[r])
                \/ job[r].op = "backup" => pc'[r] = "prehooks"
            BY <4>2 DEF Prepare, Goto, StopRestore, TypeOK
          <5> QED  BY <4>2, <5>1, <5>2 DEF Prepare, hostVars, Reading
        <4>3. CASE HoldEnter(r) \/ HoldStop(r) \/ HoldFails(r) \/ PreHooks(r)
          BY <4>3 DEF HoldEnter, HoldStop, HoldFails, PreHooks, Goto, hostVars, Reading,
                      TypeOK
        <4>4. CASE RestoreStop(r) \/ RestoreStart(r)
          BY <4>4 DEF RestoreStop, RestoreStart, Goto, Reading, PcInv, StopRestore, TypeOK
        <4>5. CASE ReleaseEnter(r) \/ ReleaseStart(r) \/ ReleaseSlot(r)
          BY <4>5 DEF ReleaseEnter, ReleaseStart, ReleaseSlot, Goto, hostVars, Reading,
                      TypeOK
        <4> QED
          BY <2>5, <4>1, <4>2, <4>3, <4>4, <4>5 DEF RunStep, CallStep, Blocking
      <3> QED  BY <2>0, <3>1 DEF SnapUsed
    <2>6. Uses(r)' => r \in snap'
      BY <2>1, <2>2, <2>3, <2>4, <2>5
    <2>7. \A s \in Runs : s # r => /\ Uses(s)' => Uses(s)
                                   /\ s \in snap' <=> s \in snap
      BY <2>0, RunFrame, HostFrame
    <2> QED
      BY <2>6, <2>7 DEF SnapUsed
  <1>4. CASE UNCHANGED vars
    BY <1>4 DEF vars, runVars, hostVars, SnapUsed
  <1> QED
    BY <1>1, <1>2, <1>3, <1>4 DEF Next

\* Under one daemon at a time, with any number of restore, check, prune and
\* listing commands beside it, the snapshot of a backup exists as long as its
\* mover is about to read it or reads it: across cancellation, timeouts, the
\* death of the daemon and the reap of the next one.  `sabon backup` beside a
\* daemon is excluded: its reap can destroy the snapshot of a mover that the
\* daemon has yet to start.
THEOREM SnapshotsOutliveMovers ==
  ASSUME "remove" \notin Faults,
         \A q \in Procs : Kind[q] # "backup"
  PROVE  Spec => []SnapshotHeld
  <1>1. Init => SnapInv
    <2> SUFFICES ASSUME Init PROVE MoverInv /\ BackupProc /\ OneDaemon /\ ReapSpares /\ SnapUsed
      BY TypeInit, RefsInit, PhaseInit DEF SnapInv, RefsInv
    <2> QED
      BY DEF Init, MoverInv, BackupProc, OneDaemon, Alive, ReapSpares, SnapUsed, Reading
  <1>2. SnapInv /\ [Next]_vars => SnapInv'
    BY TypeNext, PcNext, PhaseNext, MoverNext, BackupProcNext, OneDaemonNext,
       ReapSparesNext, SnapUsedNext DEF SnapInv
  <1>3. SnapInv => SnapshotHeld
    BY DEF SnapInv, SnapUsed, SnapshotHeld, Reading
  <1> QED
    BY <1>1, <1>2, <1>3, PTL DEF Spec

\* A snapshot belongs to a backup whose cleanup is still to come, whose mover was
\* left running, or whose process died.
SnapOwned ==
  \A r \in snap : /\ job[r].op = "backup"
                  /\ pc[r] \in Reading \cup {"dead"} \/ r \in kept

LEMMA SnapOwnedNext ==
  ASSUME {"snapshot", "destroy"} \cap Faults = {}
  PROVE  TypeOK /\ PcInv /\ PhaseInv /\ SnapOwned /\ [Next]_vars => SnapOwned'
  <1> SUFFICES ASSUME TypeOK, PcInv, PhaseInv, SnapOwned, [Next]_vars PROVE SnapOwned'
    OBVIOUS
  <1>t. snap \subseteq Runs
    BY DEF TypeOK
  <1>1. CASE \E p \in Procs : ProcStep(p)
    <2> PICK p \in Procs : ProcStep(p)
      BY <1>1
    <2>1. snap' \subseteq snap
      BY DEF ProcStep, StartProc, ReapSnapshotter, TickerReap, Shutdown, Exit, Crash, Killed, Vanish,
             hostVars
    <2> QED  BY <1>t, <2>1, ProcFrame DEF SnapOwned
  <1>2. CASE \E r \in Runs, p \in Procs, j \in Jobs : Trigger(r, p, j)
    <2> PICK r \in Runs, p \in Procs, j \in Jobs : Trigger(r, p, j)
      BY <1>2
    <2>1. r \notin snap
      BY TriggerFrame DEF SnapOwned, PhaseInv, Reading
    <2> QED  BY <1>t, <2>1, TriggerFrame DEF SnapOwned
  <1>3. CASE \E r \in Runs : RunStep(r)
    <2> PICK r \in Runs : RunStep(r)
      BY <1>3
    <2>0. UNCHANGED job /\ job[r] \in Jobs
      BY RunFrame DEF TypeOK
    <2>k. r \in kept => r \in kept'
      BY DEF RunStep, CallStep, Blocking, AcquireCancelled, Prepare, PreHooks, HoldStop,
             HoldFails, SourceMounts, RestoreStop, MoverCreate, MoverStart, WaitStatus,
             WaitCancelled, PostHooks, SnapCleanup, ReleaseStart, RestoreStart,
             ReleaseSlot, Unlock, LockRepo, AcquireSlot, HoldEnter, ReleaseEnter,
             Deadline, WaitError, MoverExit, runVars
    <2> DEFINE Ok == r \in snap' => /\ job[r].op = "backup"
                                    /\ pc'[r] \in Reading \cup {"dead"} \/ r \in kept'
    <2>1. ASSUME \/ MoverCreate(r) \/ MoverStart(r) \/ WaitStatus(r)
                 \/ WaitCancelled(r) \/ WaitError(r)
          PROVE  Ok
      <3>1. UNCHANGED snap /\ pc'[r] \in {"start", "wait", AfterMover(job[r])}
        BY <2>1, MoverSteps
      <3>2. job[r].op = "backup" => AfterMover(job[r]) = "posthooks"
        BY DEF AfterMover, StopRestore
      <3> QED  BY <3>1, <3>2 DEF SnapOwned, Reading
    <2>2. ASSUME MoverExit(r) \/ Deadline(r) \/ PostHooks(r) PROVE Ok
      BY <2>2 DEF MoverExit, Deadline, PostHooks, Goto, SnapOwned, Reading, runVars,
                  hostVars, TypeOK
    <2>3. ASSUME SourceMounts(r) PROVE Ok
      <3>1. job[r].op = "backup" /\ r \notin kept => r \notin snap
        BY <2>3 DEF SourceMounts, SnapOwned, Reading
      <3>2. \/ pc'[r] = "create"
            \/ UNCHANGED snap
        BY <2>3 DEF SourceMounts, Goto, TypeOK
      <3>3. job[r].op = "backup"
        BY <2>3 DEF SourceMounts, PcInv
      <3> QED  BY <2>k, <3>1, <3>2, <3>3 DEF Reading
    <2>4. ASSUME SnapCleanup(r) PROVE Ok
      BY <2>k, <2>4 DEF SnapCleanup, SnapOwned
    <2>5. ASSUME /\ ~MoverCreate(r) /\ ~MoverStart(r) /\ ~WaitStatus(r)
                 /\ ~WaitCancelled(r) /\ ~WaitError(r) /\ ~MoverExit(r)
                 /\ ~Deadline(r) /\ ~PostHooks(r) /\ ~SnapCleanup(r) /\ ~SourceMounts(r)
          PROVE  Ok
      <3>1. UNCHANGED snap
        BY <2>5, HostFrame
      <3>2. pc[r] \notin Reading \cup {"dead"}
        BY <2>5 DEF RunStep, CallStep, Blocking, LockRepo, AcquireSlot, AcquireCancelled,
             Prepare, PreHooks, HoldEnter, HoldStop, HoldFails, RestoreStop, ReleaseEnter,
             ReleaseStart, RestoreStart, ReleaseSlot, Unlock, Reading
      <3> QED  BY <2>k, <3>1, <3>2 DEF SnapOwned
    <2>6. Ok
      BY <2>1, <2>2, <2>3, <2>4, <2>5
    <2>7. snap' \subseteq Runs
      BY TypeNext DEF TypeOK
    <2> QED
      BY <1>t, <2>0, <2>6, <2>7, RunFrame, HostFrame DEF SnapOwned
  <1>4. CASE UNCHANGED vars
    BY <1>4 DEF vars, runVars, hostVars, SnapOwned
  <1> QED
    BY <1>1, <1>2, <1>3, <1>4 DEF Next

\* With a snapshot call that takes nothing when it fails and a destroy that
\* works, a run that returned leaves a snapshot behind only for a mover it left
\* running, whatever else fails and whichever processes run beside each other.
THEOREM SnapshotsCleanedUp ==
  ASSUME {"snapshot", "destroy"} \cap Faults = {}
  PROVE  Spec => []NoSnapshotLeak
  <1> DEFINE Inv == TypeOK /\ PcInv /\ PhaseInv /\ SnapOwned
  <1>1. Init => Inv
    BY TypeInit, RefsInit, PhaseInit DEF Init, RefsInv, SnapOwned
  <1>2. Inv /\ [Next]_vars => Inv'
    BY TypeNext, PcNext, PhaseNext, SnapOwnedNext
  <1>3. Inv => NoSnapshotLeak
    BY DEF SnapOwned, NoSnapshotLeak, Reading
  <1> QED
    BY <1>1, <1>2, <1>3, PTL DEF Spec

-----------------------------------------------------------------------------
(* Slots.  The channel sem holds one token per run between acquire and     *)
(* release.  A mover left running by a shutdown gives its token back, but  *)
(* no run of a process that shuts down can start another mover.            *)

\* The run is between acquire and its deferred release.
HasSlot(r) == /\ TakesSlot(job[r])
              /\ pc[r] \notin {"idle", "lock", "slot", "unlock", "done", "dead"}

Tokens(p) == {r \in RunsOf(p) : HasSlot(r)}

SlotPc == \A r \in Runs : pc[r] \in {"slot", "release"} => TakesSlot(job[r])

TokenInv ==
  MaxParallel > 0 =>
    \A p \in Procs : sem[p] = Cardinality(Tokens(p)) /\ sem[p] <= MaxParallel

LEMMA TokensFinite ==
  ASSUME NEW p
  PROVE  IsFiniteSet(Tokens(p))
  BY RunAssumption, FS_Subset DEF Tokens, RunsOf

\* Between acquire and release a run keeps its token; no other step takes one.
LEMMA SlotFrame ==
  ASSUME TypeOK, PcInv, SlotPc, NEW r \in Runs, RunStep(r)
  PROVE  /\ pc'[r] \in {"slot", "release"} => TakesSlot(job[r])
         /\ ~AcquireSlot(r) /\ ~ReleaseSlot(r) => (HasSlot(r)' <=> HasSlot(r))
         /\ AcquireSlot(r) => HasSlot(r)' /\ ~HasSlot(r)
         /\ ReleaseSlot(r) => HasSlot(r) /\ ~HasSlot(r)'
  <1>0. UNCHANGED job /\ job[r] \in Jobs
    BY RunFrame DEF TypeOK
  <1> DEFINE Out == {"idle", "lock", "slot", "unlock", "done", "dead"}
  <1>h. HasSlot(r)' <=> TakesSlot(job[r]) /\ pc'[r] \notin Out
    BY <1>0 DEF HasSlot
  <1>u. /\ TakesSlot(job[r]) => Unwind(job[r]) = "release"
        /\ ~TakesSlot(job[r]) => Unwind(job[r]) = "unlock"
        /\ TakesSlot(job[r]) => AfterMover(job[r]) \in {"posthooks", "release"}
        /\ ~TakesSlot(job[r]) => AfterMover(job[r]) \in {"rstart", "unlock"}
        /\ AfterCleanup(job[r]) \in {"coldrelease", "release"}
    BY DEF Unwind, AfterMover, AfterCleanup, StopRestore, TakesSlot
  <1>b. job[r].op = "backup" => TakesSlot(job[r])
    BY DEF TakesSlot
  <1>1. CASE AcquireSlot(r) \/ ReleaseSlot(r)
    BY <1>1, <1>h DEF AcquireSlot, ReleaseSlot, Goto, HasSlot, SlotPc, TypeOK
  <1>2. CASE \/ MoverCreate(r) \/ MoverStart(r) \/ WaitStatus(r)
             \/ WaitCancelled(r) \/ WaitError(r)
    <2>1. /\ pc[r] \in {"create", "start", "wait"}
          /\ pc'[r] \in {"start", "wait", AfterMover(job[r])}
      BY <1>2, MoverSteps
    <2>2. ~AcquireSlot(r) /\ ~ReleaseSlot(r)
      BY <2>1 DEF AcquireSlot, ReleaseSlot
    <2> QED  BY <1>h, <1>u, <2>1, <2>2 DEF HasSlot
  <1>3. CASE MoverExit(r) \/ Deadline(r)
    <2>1. UNCHANGED pc
      BY <1>3 DEF MoverExit, Deadline, runVars
    <2>2. ~AcquireSlot(r) /\ ~ReleaseSlot(r)
      BY <2>1 DEF AcquireSlot, ReleaseSlot, Goto, TypeOK
    <2> QED  BY <1>0, <2>1, <2>2 DEF HasSlot, SlotPc
  <1>4. CASE ~AcquireSlot(r) /\ ~ReleaseSlot(r)
    <2> SUFFICES ASSUME TRUE
                 PROVE /\ pc'[r] \in {"slot", "release"} => TakesSlot(job[r])
                       /\ HasSlot(r)' <=> HasSlot(r)
      BY <1>4
    <2> USE <1>h DEF HasSlot
    <2>1. CASE LockRepo(r) \/ AcquireCancelled(r) \/ Unlock(r)
      BY <2>1 DEF LockRepo, AcquireCancelled, Unlock, Goto, TypeOK
    <2>2. CASE Prepare(r)
      BY <1>u, <1>b, <2>2 DEF Prepare, Goto, TypeOK
    <2>3. CASE PreHooks(r) \/ PostHooks(r)
      BY <1>b, <2>3 DEF PreHooks, PostHooks, Goto, PcInv, TypeOK
    <2>4. CASE HoldEnter(r) \/ HoldStop(r) \/ HoldFails(r)
      BY <1>b, <2>4 DEF HoldEnter, HoldStop, HoldFails, Goto, PcInv, TypeOK
    <2>5. CASE SourceMounts(r) \/ SnapCleanup(r)
      BY <1>u, <1>b, <2>5 DEF SourceMounts, SnapCleanup, Goto, PcInv, TypeOK
    <2>6. CASE RestoreStop(r) \/ RestoreStart(r)
      BY <2>6 DEF RestoreStop, RestoreStart, Goto, PcInv, StopRestore, TakesSlot, TypeOK
    <2>7. CASE ReleaseEnter(r) \/ ReleaseStart(r)
      BY <1>b, <2>7 DEF ReleaseEnter, ReleaseStart, Goto, PcInv, TypeOK
    <2> QED
      BY <1>2, <1>3, <1>4, <2>1, <2>2, <2>3, <2>4, <2>5, <2>6, <2>7
         DEF RunStep, CallStep, Blocking
  <1> QED  BY <1>1, <1>4

LEMMA SlotPcNext == TypeOK /\ PcInv /\ SlotPc /\ [Next]_vars => SlotPc'
  <1> SUFFICES ASSUME TypeOK, PcInv, SlotPc, [Next]_vars PROVE SlotPc'
    OBVIOUS
  <1>1. CASE \E p \in Procs : ProcStep(p)
    BY <1>1, ProcFrame DEF SlotPc
  <1>2. CASE \E r \in Runs, p \in Procs, j \in Jobs : Trigger(r, p, j)
    BY <1>2, TriggerFrame DEF SlotPc
  <1>3. CASE \E r \in Runs : RunStep(r)
    BY <1>3, SlotFrame, RunFrame DEF SlotPc
  <1>4. CASE UNCHANGED vars
    BY <1>4 DEF vars, runVars, SlotPc
  <1> QED
    BY <1>1, <1>2, <1>3, <1>4 DEF Next

LEMMA TokenNext == TypeOK /\ PcInv /\ SlotPc /\ TokenInv /\ [Next]_vars => TokenInv'
  <1> SUFFICES ASSUME TypeOK, PcInv, SlotPc, TokenInv, [Next]_vars, MaxParallel > 0,
                      NEW p \in Procs
               PROVE  sem'[p] = Cardinality(Tokens(p)') /\ sem'[p] <= MaxParallel
    BY DEF TokenInv
  <1>0. sem[p] = Cardinality(Tokens(p)) /\ sem[p] <= MaxParallel /\ sem[p] \in Int
    BY DEF TokenInv, TypeOK
  <1>s. ASSUME sem'[p] = sem[p], Tokens(p)' = Tokens(p)
        PROVE  sem'[p] = Cardinality(Tokens(p)') /\ sem'[p] <= MaxParallel
    BY <1>0, <1>s
  <1>1. CASE \E q \in Procs : ProcStep(q)
    <2> PICK q \in Procs : ProcStep(q)
      BY <1>1
    <2>0. UNCHANGED <<owner, job>>
      BY ProcFrame
    <2>1. CASE Exit(q) \/ Crash(q) \/ Killed(q)
      <3>1. Vanish(q)
        BY <2>1 DEF Exit, Crash, Killed
      <3>2. \A r \in Runs : IF owner[r] = q /\ Active(r) THEN pc'[r] = "dead"
                                                     ELSE pc'[r] = pc[r]
        BY <3>1 DEF Vanish, TypeOK
      <3>3. CASE q = p
        <4>1. Tokens(p)' = {}
          BY <2>0, <3>2, <3>3 DEF Tokens, RunsOf, HasSlot, Active
        <4>2. sem'[p] = 0
          BY <3>1, <3>3 DEF Vanish, TypeOK
        <4>3. 0 <= MaxParallel
          BY ConfigAssumption
        <4> QED  BY <4>1, <4>2, <4>3, FS_EmptySet
      <3>4. CASE q # p
        <4>1. Tokens(p)' = Tokens(p)
          BY <2>0, <3>2, <3>4 DEF Tokens, RunsOf, HasSlot
        <4>2. sem'[p] = sem[p]
          BY <3>1, <3>4 DEF Vanish, TypeOK
        <4> QED  BY <1>s, <4>1, <4>2
      <3> QED  BY <3>3, <3>4
    <2>2. CASE StartProc(q) \/ ReapSnapshotter(q) \/ TickerReap(q) \/ Shutdown(q)
      <3>1. UNCHANGED <<sem, pc>>
        BY <2>2 DEF StartProc, ReapSnapshotter, TickerReap, Shutdown, lockVars, runVars
      <3>2. Tokens(p)' = Tokens(p)
        BY <2>0, <3>1 DEF Tokens, RunsOf, HasSlot
      <3> QED  BY <1>s, <3>1, <3>2
    <2> QED  BY <2>1, <2>2 DEF ProcStep
  <1>2. CASE \E r \in Runs, q \in Procs, j \in Jobs : Trigger(r, q, j)
    <2> PICK r \in Runs, q \in Procs, j \in Jobs : Trigger(r, q, j)
      BY <1>2
    <2>1. ~HasSlot(r) /\ ~HasSlot(r)'
      BY TriggerFrame DEF HasSlot
    <2>2. \A s \in Runs : s # r => /\ HasSlot(s)' <=> HasSlot(s)
                                   /\ owner'[s] = owner[s]
      BY TriggerFrame DEF HasSlot
    <2>3. Tokens(p)' = Tokens(p)
      BY <2>1, <2>2 DEF Tokens, RunsOf
    <2> QED  BY <1>s, <2>3, TriggerFrame
  <1>3. CASE \E r \in Runs : RunStep(r)
    <2> PICK r \in Runs : RunStep(r)
      BY <1>3
    <2>0. /\ UNCHANGED owner /\ owner[r] \in Procs
          /\ \A s \in Runs : s # r => (HasSlot(s)' <=> HasSlot(s))
      BY RunFrame DEF HasSlot, TypeOK
    <2>1. CASE AcquireSlot(r)
      <3>1. /\ sem[owner[r]] < MaxParallel
            /\ sem' = [sem EXCEPT ![owner[r]] = @ + 1]
        BY <2>1, ConfigAssumption DEF AcquireSlot
      <3>2. ~HasSlot(r) /\ HasSlot(r)'
        BY <2>1, SlotFrame
      <3>3. CASE p = owner[r]
        <4>1. Tokens(p)' = Tokens(p) \cup {r} /\ r \notin Tokens(p)
          BY <2>0, <3>2, <3>3 DEF Tokens, RunsOf
        <4>2. Cardinality(Tokens(p)') = Cardinality(Tokens(p)) + 1
          BY <4>1, TokensFinite, FS_AddElement
        <4>3. sem'[p] = sem[p] + 1 /\ sem[p] < MaxParallel
          BY <3>1, <3>3 DEF TypeOK
        <4> QED  BY <1>0, <4>2, <4>3, ConfigAssumption
      <3>4. CASE p # owner[r]
        <4>1. Tokens(p)' = Tokens(p)
          BY <2>0, <3>4 DEF Tokens, RunsOf
        <4>2. sem'[p] = sem[p]
          BY <2>0, <3>1, <3>4 DEF TypeOK
        <4> QED  BY <1>s, <4>1, <4>2
      <3> QED  BY <3>3, <3>4
    <2>2. CASE ReleaseSlot(r)
      <3>1. sem' = [sem EXCEPT ![owner[r]] = @ - 1]
        BY <2>2 DEF ReleaseSlot
      <3>2. HasSlot(r) /\ ~HasSlot(r)'
        BY <2>2, SlotFrame
      <3>3. CASE p = owner[r]
        <4>1. Tokens(p)' = Tokens(p) \ {r} /\ r \in Tokens(p)
          BY <2>0, <3>2, <3>3 DEF Tokens, RunsOf
        <4>2. Cardinality(Tokens(p)') = Cardinality(Tokens(p)) - 1
          BY <4>1, TokensFinite, FS_RemoveElement
        <4>3. sem'[p] = sem[p] - 1
          BY <3>1, <3>3 DEF TypeOK
        <4> QED  BY <1>0, <4>2, <4>3, ConfigAssumption
      <3>4. CASE p # owner[r]
        <4>1. Tokens(p)' = Tokens(p)
          BY <2>0, <3>4 DEF Tokens, RunsOf
        <4>2. sem'[p] = sem[p]
          BY <2>0, <3>1, <3>4 DEF TypeOK
        <4> QED  BY <1>s, <4>1, <4>2
      <3> QED  BY <3>3, <3>4
    <2>3. CASE ~AcquireSlot(r) /\ ~ReleaseSlot(r)
      <3>1. UNCHANGED sem /\ (HasSlot(r)' <=> HasSlot(r))
        BY <2>3, HostFrame, SlotFrame
      <3>2. Tokens(p)' = Tokens(p)
        BY <2>0, <3>1 DEF Tokens, RunsOf
      <3> QED  BY <1>s, <3>1, <3>2
    <2> QED  BY <2>1, <2>2, <2>3
  <1>4. CASE UNCHANGED vars
    <2>1. UNCHANGED <<sem, pc, owner, job>>
      BY <1>4 DEF vars, lockVars, runVars
    <2>2. Tokens(p)' = Tokens(p)
      BY <2>1 DEF Tokens, RunsOf, HasSlot
    <2> QED  BY <1>s, <2>1, <2>2
  <1> QED
    BY <1>1, <1>2, <1>3, <1>4 DEF Next

\* The movers that count against the cap of a process.
SlotMovers(p) == {r \in RunsOf(p) \cap Running : TakesSlot(job[r])}

SlotInv == /\ TypeOK /\ PcInv /\ PhaseInv /\ MoverInv
           /\ SlotPc /\ TokenInv /\ SlotBound

LEMMA SlotBoundNext ==
  ASSUME "remove" \notin Faults
  PROVE  SlotInv /\ [Next]_vars => SlotInv'
  <1> SUFFICES ASSUME SlotInv, [Next]_vars PROVE SlotBound'
    BY TypeNext, PcNext, PhaseNext, MoverNext, SlotPcNext, TokenNext DEF SlotInv
  <1> USE DEF SlotInv
  <1> SUFFICES ASSUME MaxParallel > 0, NEW p \in Procs
               PROVE  Cardinality(SlotMovers(p)') <= MaxParallel
    BY DEF SlotBound, SlotMovers
  <1>t. TypeOK' /\ PhaseInv' /\ MoverInv' /\ TokenInv'
    BY TypeNext, PhaseNext, MoverNext, TokenNext
  <1>m. MaxParallel \in Nat
    BY ConfigAssumption
  <1>1. CASE \E r \in SlotMovers(p)' : r \notin Running
    <2> PICK r \in SlotMovers(p)' : r \notin Running
      BY <1>1
    <2>0. r \in Running' /\ r \in Runs /\ owner'[r] = p
      BY DEF SlotMovers, RunsOf, Running
    <2>1. MoverStart(r) /\ ctx[r] = "live" /\ pc[r] = "start"
      BY <2>0, NewlyRunning
    <2>2. UNCHANGED <<phase, owner>>
      BY <2>1 DEF MoverStart, procVars
    <2>3. phase'[p] = "up"
      BY <2>0, <2>1, <2>2 DEF PhaseInv, Active
    \* In a process that is up, every mover that runs has its run's token.
    <2>4. ASSUME NEW s \in SlotMovers(p)' PROVE s \in Tokens(p)'
      <3>1. /\ s \in Runs /\ owner'[s] = p /\ mover'[s] = "running"
            /\ TakesSlot(job'[s])
        BY DEF SlotMovers, RunsOf, Running
      <3>2. pc'[s] = "wait"
        BY <1>t, <2>3, <3>1 DEF MoverInv, PhaseInv
      <3> QED  BY <3>1, <3>2 DEF Tokens, RunsOf, HasSlot
    <2>5. IsFiniteSet(Tokens(p)')
      BY RunAssumption, FS_Subset DEF Tokens, RunsOf
    <2>6. /\ Cardinality(SlotMovers(p)') <= Cardinality(Tokens(p)')
          /\ Cardinality(SlotMovers(p)') \in Nat
      BY <2>4, <2>5, FS_Subset, FS_CardinalityType
    <2>7. Cardinality(Tokens(p)') <= MaxParallel /\ Cardinality(Tokens(p)') \in Nat
      BY <1>t, <2>5, FS_CardinalityType DEF TokenInv
    <2> QED  BY <1>m, <2>6, <2>7
  <1>2. CASE \A r \in SlotMovers(p)' : r \in Running
    <2>1. SlotMovers(p)' \subseteq SlotMovers(p)
      <3> SUFFICES ASSUME NEW r \in SlotMovers(p)' PROVE r \in SlotMovers(p)
        OBVIOUS
      <3>1. r \in Running /\ r \in Runs
        BY <1>2 DEF SlotMovers, RunsOf
      <3> QED  BY <3>1, RunningKeepsJob DEF SlotMovers, RunsOf
    <2>2. IsFiniteSet(SlotMovers(p))
      BY RunAssumption, FS_Subset DEF SlotMovers, RunsOf
    <2>3. /\ Cardinality(SlotMovers(p)') <= Cardinality(SlotMovers(p))
          /\ Cardinality(SlotMovers(p)') \in Nat /\ Cardinality(SlotMovers(p)) \in Nat
      BY <2>1, <2>2, FS_Subset, FS_CardinalityType
    <2>4. Cardinality(SlotMovers(p)) <= MaxParallel
      BY DEF SlotBound, SlotMovers
    <2> QED  BY <1>m, <2>3, <2>4
  <1> QED  BY <1>1, <1>2

\* SABON_MAX_PARALLEL bounds the movers of backups, checks and prunes that one
\* process has running at any time, those it leaves running on a shutdown
\* included, for every cap and however many runs compete for a slot.
THEOREM SlotsBounded ==
  ASSUME "remove" \notin Faults
  PROVE  Spec => []SlotBound
  <1>1. Init => SlotInv
    <2> SUFFICES ASSUME Init PROVE MoverInv /\ SlotPc /\ TokenInv /\ SlotBound
      BY TypeInit, RefsInit, PhaseInit DEF SlotInv, RefsInv
    <2>1. MoverInv /\ SlotPc
      BY DEF Init, MoverInv, SlotPc
    <2>2. \A r \in Runs : ~HasSlot(r) /\ r \notin Running
      BY DEF Init, HasSlot, Running
    <2>3. \A p \in Procs : Tokens(p) = {} /\ SlotMovers(p) = {}
      BY <2>2 DEF Tokens, SlotMovers, RunsOf
    <2>4. \A p \in Procs : sem[p] = 0
      BY DEF Init
    <2>5. 0 <= MaxParallel /\ Cardinality({}) = 0
      BY ConfigAssumption, FS_EmptySet
    <2>6. TokenInv
      BY <2>3, <2>4, <2>5 DEF TokenInv
    <2>7. SlotBound
      BY <2>3, <2>5 DEF SlotBound, SlotMovers
    <2> QED  BY <2>1, <2>6, <2>7
  <1>2. SlotInv /\ [Next]_vars => SlotInv'
    BY SlotBoundNext
  <1>3. SlotInv => SlotBound
    BY DEF SlotInv
  <1> QED
    BY <1>1, <1>2, <1>3, PTL DEF Spec

-----------------------------------------------------------------------------
(* Stopped apps.  Whoever stops an app owes it a start until the start has *)
(* been made; the last holder of a cold stop takes over the debt of those  *)
(* that left before it.                                                    *)

\* A holder that leaves and is not the last one leaves another behind.
LEMMA AnotherHolder ==
  ASSUME RefsInv, NEW r \in Runs, InCold(r), refs[owner[r]][job[r].ctr] # 1
  PROVE  \E s \in Runs : s # r /\ InCold(s) /\ job[s].ctr = job[r].ctr
  <1> DEFINE H == Holders(owner[r], job[r].ctr)
  <1>1. owner[r] \in Procs /\ job[r].ctr \in Containers
    BY JobFields DEF RefsInv, TypeOK
  <1>2. Cardinality(H) # 1
    BY <1>1, RefsDef DEF RefsInv
  <1>3. r \in H
    BY DEF Holders, RunsOf
  <1>4. H # {r}
    BY <1>2, FS_Singleton
  <1>5. PICK s \in H : s # r
    BY <1>3, <1>4
  <1> QED  BY <1>5 DEF Holders, RunsOf

\* Only a job that stops its app ever owes it a start.
LEMMA OwesMeansStop ==
  ASSUME PcInv, NEW r \in Runs, OwesStart(r)
  PROVE  Active(r) /\ job[r].stop
  BY DEF PcInv, OwesStart, InCold, Active, ColdBackup, StopRestore

\* A run that owes a start goes on owing it until it makes the start or leaves
\* the cold stop to another holder.
LEMMA StillOwes ==
  ASSUME TypeOK, PcInv, NEW r \in Runs, RunStep(r), OwesStart(r),
         ~ReleaseStart(r), ~RestoreStart(r), ~ReleaseEnter(r)
  PROVE  OwesStart(r)'
  <1>0. UNCHANGED job /\ job[r] \in Jobs
    BY RunFrame DEF TypeOK
  <1> USE DEF OwesStart, InCold, ColdBackup, StopRestore
  <1>1. CASE \/ MoverCreate(r) \/ MoverStart(r) \/ WaitStatus(r)
             \/ WaitCancelled(r) \/ WaitError(r)
    <2>1. /\ pc[r] \in {"create", "start", "wait"}
          /\ pc'[r] \in {"start", "wait", AfterMover(job[r])}
      BY <1>1, MoverSteps
    <2>2. /\ job[r].op = "backup" => AfterMover(job[r]) = "posthooks"
          /\ job[r].op = "restore" /\ job[r].stop => AfterMover(job[r]) = "rstart"
      BY DEF AfterMover
    <2> QED  BY <1>0, <2>1, <2>2
  <1>2. CASE SourceMounts(r) \/ SnapCleanup(r)
    BY <1>0, <1>2 DEF SourceMounts, SnapCleanup, AfterCleanup, Goto, TypeOK
  <1>3. CASE PostHooks(r)
    BY <1>0, <1>3 DEF PostHooks, Goto, TypeOK
  <1>4. CASE MoverExit(r) \/ Deadline(r)
    BY <1>0, <1>4 DEF MoverExit, Deadline, runVars
  <1>5. /\ ~LockRepo(r) /\ ~AcquireSlot(r) /\ ~AcquireCancelled(r) /\ ~Prepare(r)
        /\ ~PreHooks(r) /\ ~HoldEnter(r) /\ ~HoldStop(r) /\ ~HoldFails(r)
        /\ ~RestoreStop(r) /\ ~ReleaseSlot(r) /\ ~Unlock(r)
    BY DEF LockRepo, AcquireSlot, AcquireCancelled, Prepare, PreHooks, HoldEnter, HoldStop,
           HoldFails, RestoreStop, ReleaseSlot, Unlock
  <1> QED
    BY <1>1, <1>2, <1>3, <1>4, <1>5 DEF RunStep, CallStep, Blocking

\* The run that owes c a start is cut off in this step, and may be.
CutOff(c) == \E r \in Runs : /\ OwesStart(r) /\ job[r].ctr = c
                            /\ pc'[r] = "dead" /\ Unawaited(r)

\* A step leaves an app down and unowed only if it was so before, or if the step
\* cuts off the run that owed it.
LEMMA DebtStep ==
  ASSUME {"stop", "start", "crash"} \cap Faults = {},
         RefsInv, [Next]_vars, NEW c \in Containers,
         ~up'[c], up[c] \/ Owed(c), ~CutOff(c)
  PROVE  Owed(c)'
  <1>t. TypeOK /\ PcInv /\ \A s \in Runs : job[s] \in Jobs /\ job[s].ctr \in Containers
    BY JobFields DEF RefsInv, TypeOK
  <1>1. CASE \E p \in Procs : ProcStep(p)
    <2> PICK p \in Procs : ProcStep(p)
      BY <1>1
    <2>1. ~up[c] /\ UNCHANGED job
      BY <1>t, ProcFrame
    <2>2. PICK r \in Runs : OwesStart(r) /\ job[r].ctr = c
      BY <2>1 DEF Owed
    <2>3. Active(r) /\ (pc'[r] = "dead" => ~Unawaited(r))
      BY <1>t, <2>2, OwesMeansStop DEF CutOff
    <2>4. pc'[r] = pc[r]
      <3>1. CASE Exit(p) \/ Killed(p)
        <4>1. owner[r] = p => Unawaited(r)
          BY <2>3, <3>1 DEF Exit, Killed, RunsOf, Unawaited
        <4>2. Vanish(p)
          BY <3>1 DEF Exit, Killed
        <4> QED  BY <1>t, <2>3, <4>1, <4>2 DEF Vanish, TypeOK
      <3>2. ~Crash(p)
        BY DEF Crash
      <3>3. CASE ~Exit(p) /\ ~Killed(p)
        BY <3>2, <3>3 DEF ProcStep, StartProc, ReapSnapshotter, TickerReap, Shutdown, runVars
      <3> QED  BY <3>1, <3>3
    <2>5. OwesStart(r)'
      BY <2>1, <2>2, <2>4 DEF OwesStart, InCold
    <2> QED  BY <2>1, <2>2, <2>5 DEF Owed
  <1>2. CASE \E r \in Runs, p \in Procs, j \in Jobs : Trigger(r, p, j)
    <2> PICK r \in Runs, p \in Procs, j \in Jobs : Trigger(r, p, j)
      BY <1>2
    <2>1. ~up[c]
      BY <1>t, TriggerFrame
    <2>2. PICK s \in Runs : OwesStart(s) /\ job[s].ctr = c
      BY <2>1 DEF Owed
    <2>3. s # r
      BY <1>t, <2>2, OwesMeansStop, TriggerFrame DEF Active
    <2>4. pc'[s] = pc[s] /\ job'[s] = job[s]
      BY <1>t, <2>3, TriggerFrame
    <2>5. OwesStart(s)'
      BY <2>2, <2>4 DEF OwesStart, InCold
    <2> QED  BY <2>2, <2>4, <2>5 DEF Owed
  <1>3. CASE \E r \in Runs : RunStep(r)
    <2> PICK r \in Runs : RunStep(r)
      BY <1>3
    <2>0. UNCHANGED job /\ \A s \in Runs : s # r => pc'[s] = pc[s]
      BY <1>t, RunFrame
    <2>o. \A s \in Runs : s # r /\ OwesStart(s) => OwesStart(s)'
      BY <2>0 DEF OwesStart, InCold
    <2>p. pc \in [Runs -> Pc] /\ up \in [Containers -> BOOLEAN]
      BY <1>t DEF TypeOK
    \* The steps that stop an app.
    <2>1. CASE up[c]
      <3>1. CASE HoldStop(r)
        <4>1. c = job[r].ctr
          BY <1>t, <2>1, <2>p, <3>1 DEF HoldStop
        <4>2. pc'[r] = "snapshot" /\ ColdBackup(job[r])
          BY <1>t, <2>p, <3>1 DEF HoldStop, Goto, PcInv
        <4>3. OwesStart(r)'
          BY <2>0, <4>2 DEF OwesStart, InCold
        <4> QED  BY <2>0, <4>1, <4>3 DEF Owed
      <3>2. CASE RestoreStop(r)
        <4>1. c = job[r].ctr /\ pc'[r] = "create"
          BY <1>t, <2>1, <2>p, <3>2 DEF RestoreStop, Goto
        <4>2. StopRestore(job[r])
          BY <1>t, <3>2 DEF RestoreStop, PcInv
        <4>3. OwesStart(r)'
          BY <2>0, <4>1, <4>2 DEF OwesStart
        <4> QED  BY <2>0, <4>1, <4>3 DEF Owed
      <3>3. CASE ~HoldStop(r) /\ ~RestoreStop(r)
        <4>1. CASE ReleaseStart(r) \/ RestoreStart(r)
          BY <1>t, <2>1, <2>p, <4>1 DEF ReleaseStart, RestoreStart, Restarted
        <4>2. CASE ~ReleaseStart(r) /\ ~RestoreStart(r)
          BY <2>1, <3>3, <4>2 DEF RunStep, CallStep, Blocking, AcquireCancelled, Prepare,
             PreHooks, HoldFails, SourceMounts, MoverCreate, MoverStart, WaitStatus,
             WaitCancelled, PostHooks, SnapCleanup, ReleaseSlot, Unlock, LockRepo,
             AcquireSlot, HoldEnter, ReleaseEnter, Deadline, WaitError, MoverExit, hostVars
        <4> QED  BY <4>1, <4>2
      <3> QED  BY <3>1, <3>2, <3>3
    \* The steps that may leave a stopped app to itself.
    <2>2. CASE ~up[c]
      <3>1. PICK s \in Runs : OwesStart(s) /\ job[s].ctr = c
        BY <2>2 DEF Owed
      <3>2. CASE s # r
        BY <2>0, <2>o, <3>1, <3>2 DEF Owed
      <3>3. CASE s = r
        <4>1. ~ReleaseStart(r) /\ ~RestoreStart(r)
          BY <1>t, <2>p, <3>1, <3>3 DEF ReleaseStart, RestoreStart, Restarted
        <4>2. CASE ReleaseEnter(r)
          <5>1. InCold(r)
            BY <1>t, <4>2 DEF ReleaseEnter, InCold, PcInv
          <5>2. CASE refs[owner[r]][job[r].ctr] = 1
            <6>1. pc'[r] = "starting"
              BY <2>p, <4>2, <5>2 DEF ReleaseEnter, Goto
            <6> QED  BY <2>0, <3>1, <3>3, <6>1 DEF OwesStart, Owed
          <5>3. CASE refs[owner[r]][job[r].ctr] # 1
            <6>1. PICK u \in Runs : u # r /\ InCold(u) /\ job[u].ctr = job[r].ctr
              BY <5>1, <5>3, AnotherHolder
            <6>2. OwesStart(u)
              BY <6>1 DEF OwesStart
            <6> QED  BY <2>0, <2>o, <3>1, <3>3, <6>1, <6>2 DEF Owed
          <5> QED  BY <5>2, <5>3
        <4>3. CASE ~ReleaseEnter(r)
          <5>1. OwesStart(r)'
            BY <1>t, <3>1, <3>3, <4>1, <4>3, StillOwes
          <5> QED  BY <2>0, <3>1, <3>3, <5>1 DEF Owed
        <4> QED  BY <4>2, <4>3
      <3> QED  BY <3>2, <3>3
    <2> QED  BY <2>1, <2>2, <2>p
  <1>4. CASE UNCHANGED vars
    <2>1. UNCHANGED <<up, pc, job>>
      BY <1>4 DEF vars, runVars, hostVars
    <2>2. PICK r \in Runs : OwesStart(r) /\ job[r].ctr = c
      BY <2>1 DEF Owed
    <2>3. OwesStart(r)'
      BY <2>1, <2>2 DEF OwesStart, InCold
    <2> QED  BY <2>1, <2>2, <2>3 DEF Owed
  <1> QED
    BY <1>1, <1>2, <1>3, <1>4 DEF Next

\* When Stop and Start do what they report and no process is killed hard, an app
\* that is down has a run that will start it, for cold backups of any number of
\* processes and in-place restores that overlap as they like.  The debt is lost
\* only when the exit of the daemon cuts off a run of the API or of run-on-startup,
\* or when a signal ends a command: in that step, and by such a run alone.
THEOREM AppsOwedAStart ==
  ASSUME {"stop", "start", "crash"} \cap Faults = {}
  PROVE  Spec => NobodyLeftStopped
  <1> DEFINE Debt == \A c \in Containers :
                       (~up[c] /\ ~Owed(c))' =>
                         \/ ~up[c] /\ ~Owed(c)
                         \/ \E r \in Runs : /\ OwesStart(r) /\ job[r].ctr = c
                                            /\ pc'[r] = "dead" /\ Unawaited(r)
  <1>1. RefsInv /\ [Next]_vars => [Debt]_vars
    <2> SUFFICES ASSUME RefsInv, [Next]_vars, NEW c \in Containers,
                        ~up'[c], ~Owed(c)', up[c] \/ Owed(c), ~CutOff(c)
                 PROVE  FALSE
      BY DEF CutOff
    <2> QED  BY DebtStep
  <1>2. Spec => []RefsInv
    BY RefsInit, RefsNext, PTL DEF Spec
  <1> QED
    BY <1>1, <1>2, PTL DEF Spec, NobodyLeftStopped

=============================================================================
