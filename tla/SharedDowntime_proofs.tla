----------------------- MODULE SharedDowntime_proofs ------------------------
(***************************************************************************)
(* The coldStops of Orchestrator implement SharedDowntime, for any number  *)
(* of runs, containers and successive daemons.  The step simulation rests  *)
(* on the invariant ColdShared: a container is counted as many times as it *)
(* is held, the mutex is held and the count is 0 across Stop and Start,    *)
(* and whoever holds a container has it down.                              *)
(***************************************************************************)
EXTENDS Orchestrator_proofs

ColdShared == RefsInv /\ PhaseInv /\ OneAlive /\ ColdDown

\* What a step does to the holders, when only run r can change its mind.
LEMMA HoldersOfStep ==
  ASSUME TypeOK, NEW r \in Runs, UNCHANGED job,
         \A s \in Runs : s # r => (InCold(s)' <=> InCold(s))
  PROVE  /\ (InCold(r)' <=> InCold(r)) => UNCHANGED ColdHolders
         /\ ~InCold(r) /\ InCold(r)' =>
              /\ r \notin ColdHolders[job[r].ctr]
              /\ ColdHolders' = [ColdHolders EXCEPT ![job[r].ctr] = @ \cup {r}]
         /\ InCold(r) /\ ~InCold(r)' =>
              ColdHolders' = [c \in Containers |-> ColdHolders[c] \ {r}]
  <1>0. job[r].ctr \in Containers
    BY JobFields DEF TypeOK
  <1>1. ASSUME InCold(r)' <=> InCold(r)  PROVE UNCHANGED ColdHolders
    BY <1>1 DEF ColdHolders
  <1>2. ASSUME ~InCold(r), InCold(r)'
        PROVE  /\ r \notin ColdHolders[job[r].ctr]
               /\ ColdHolders' = [ColdHolders EXCEPT ![job[r].ctr] = @ \cup {r}]
    <2>1. r \notin ColdHolders[job[r].ctr]
      BY <1>0, <1>2 DEF ColdHolders
    <2>2. ASSUME NEW c \in Containers
          PROVE  ColdHolders'[c] = [ColdHolders EXCEPT ![job[r].ctr] = @ \cup {r}][c]
      BY <1>0, <1>2 DEF ColdHolders
    <2> QED  BY <2>1, <2>2 DEF ColdHolders
  <1>3. ASSUME InCold(r), ~InCold(r)'
        PROVE  ColdHolders' = [c \in Containers |-> ColdHolders[c] \ {r}]
    <2>1. ASSUME NEW c \in Containers
          PROVE  ColdHolders'[c] = ColdHolders[c] \ {r}
      BY <1>3 DEF ColdHolders
    <2> QED  BY <2>1 DEF ColdHolders
  <1> QED  BY <1>1, <1>2, <1>3

\* A run that calls Stop or Start calls it for a container nobody holds.
LEMMA NobodyDuringCall ==
  ASSUME ColdShared, NEW r \in Runs, InCall(r)
  PROVE  job[r].ctr \in Containers /\ ColdHolders[job[r].ctr] = {}
  <1>1. job[r].ctr \in Containers
    BY JobFields DEF ColdShared, RefsInv, TypeOK
  <1>2. refs[owner[r]][job[r].ctr] = 0 /\ Active(r)
    BY DEF ColdShared, RefsInv, MutexInv, InCall, Active
  <1>3. \A s \in Runs : InCold(s) => job[s].ctr # job[r].ctr
    BY <1>2, ZeroMeansNobody DEF ColdShared
  <1> QED  BY <1>1, <1>3 DEF ColdHolders

\* Every step of a run is a step of the shared downtime, or none of its business.
LEMMA RunSimulates ==
  ASSUME \A j \in Jobs : ~StopRestore(j), ColdShared, NEW r \in Runs, RunStep(r)
  PROVE  [Downtime!Next]_<<up, ColdHolders>>
  <1>t. TypeOK /\ job[r] \in Jobs /\ job[r].ctr \in Containers
    BY JobFields DEF ColdShared, RefsInv, TypeOK
  <1>0. /\ UNCHANGED job
        /\ \A s \in Runs : s # r => (InCold(s)' <=> InCold(s))
    BY <1>t, RunFrame DEF InCold
  <1>1. CASE HoldStop(r)
    <2>1. up' = [up EXCEPT ![job[r].ctr] = FALSE]
      BY <1>1 DEF HoldStop
    <2>2. ~InCold(r) /\ InCold(r)'
      <3>1. pc[r] = "stopping" /\ pc'[r] = "snapshot" /\ ColdBackup(job[r])
        BY <1>1, <1>t DEF HoldStop, Goto, TypeOK, ColdShared, RefsInv, PcInv
      <3> QED  BY <3>1, <1>0 DEF InCold
    <2>3. Downtime!Hold(job[r].ctr, r)
      BY <2>1, <2>2, <1>t, <1>0, HoldersOfStep DEF Downtime!Hold
    <2> QED  BY <2>3, <1>t DEF Downtime!Next
  <1>2. CASE HoldEnter(r)
    <2>1. UNCHANGED up /\ pc[r] = "hold" /\ ColdBackup(job[r])
      BY <1>2 DEF HoldEnter, hostVars, ColdShared, RefsInv, PcInv
    <2>2. CASE refs[owner[r]][job[r].ctr] = 0
      <3>1. pc'[r] = "stopping"
        BY <1>2, <2>2, <1>t DEF HoldEnter, Goto, TypeOK
      <3>2. ~InCold(r) /\ ~InCold(r)'
        BY <2>1, <3>1 DEF InCold
      <3> QED  BY <2>1, <3>2, <1>t, <1>0, HoldersOfStep
    <2>3. CASE refs[owner[r]][job[r].ctr] # 0
      <3>1. pc'[r] = "snapshot"
        BY <1>2, <2>3, <1>t DEF HoldEnter, Goto, TypeOK
      <3>2. ~InCold(r) /\ InCold(r)'
        BY <2>1, <3>1, <1>0 DEF InCold
      <3>3. ~up[job[r].ctr]
        BY <2>3, JoinsHolder DEF ColdShared, ColdDown
      <3>4. up' = [up EXCEPT ![job[r].ctr] = FALSE]
        BY <2>1, <3>3, <1>t DEF TypeOK
      <3>5. Downtime!Hold(job[r].ctr, r)
        BY <3>2, <3>4, <1>t, <1>0, HoldersOfStep DEF Downtime!Hold
      <3> QED  BY <3>5, <1>t DEF Downtime!Next
    <2> QED  BY <2>2, <2>3
  <1>3. CASE ReleaseEnter(r)
    <2>1. UNCHANGED up /\ pc[r] = "coldrelease" /\ pc'[r] \in {"starting", "release"}
      BY <1>3, <1>t DEF ReleaseEnter, Goto, hostVars, TypeOK
    <2>2. InCold(r) /\ ~InCold(r)'
      BY <2>1 DEF InCold, ColdShared, RefsInv, PcInv
    <2>3. Downtime!Leave({r})
      BY <2>1, <2>2, <1>t, <1>0, HoldersOfStep DEF Downtime!Leave
    <2>4. {r} \in SUBSET Runs
      OBVIOUS
    <2> QED  BY <2>3, <2>4 DEF Downtime!Next
  <1>4. CASE ReleaseStart(r) \/ HoldFails(r)
    <2>1. InCall(r) /\ pc'[r] = "release" /\ ~InCold(r)
      BY <1>4, <1>t DEF ReleaseStart, HoldFails, Goto, InCall, InCold, TypeOK
    <2>2. ColdHolders[job[r].ctr] = {}
      BY <2>1, NobodyDuringCall
    <2>3. UNCHANGED ColdHolders
      <3>1. ~InCold(r)'
        BY <2>1 DEF InCold
      <3> QED  BY <2>1, <3>1, <1>t, <1>0, HoldersOfStep
    <2>4. \/ up' = [up EXCEPT ![job[r].ctr] = TRUE]
          \/ up' = [up EXCEPT ![job[r].ctr] = FALSE]
          \/ UNCHANGED up
      BY <1>4 DEF ReleaseStart, HoldFails, Restarted
    <2>5. Downtime!Start(job[r].ctr) \/ Downtime!StopInVain(job[r].ctr)
            \/ UNCHANGED <<up, ColdHolders>>
      BY <2>2, <2>3, <2>4 DEF Downtime!Start, Downtime!StopInVain
    <2> QED  BY <2>5, <1>t DEF Downtime!Next
  <1>5. CASE /\ ~HoldEnter(r) /\ ~HoldStop(r) /\ ~ReleaseStart(r)
             /\ ~HoldFails(r) /\ ~ReleaseEnter(r)
    <2>1. ~RestoreStart(r) /\ ~RestoreStop(r)
      BY <1>t DEF RestoreStart, RestoreStop, ColdShared, RefsInv, PcInv
    <2>2. UNCHANGED up
      BY <1>5, <2>1 DEF RunStep, CallStep, Blocking, AcquireCancelled, Prepare, PreHooks,
           SourceMounts, MoverCreate, MoverStart, WaitStatus, WaitCancelled, PostHooks,
           SnapCleanup, ReleaseSlot, Unlock, LockRepo, AcquireSlot, Deadline, WaitError,
           MoverExit, hostVars
    <2>3. InCold(r)' <=> InCold(r)
      BY <1>5, ColdFrame DEF ColdShared, RefsInv
    <2> QED  BY <2>2, <2>3, <1>t, <1>0, HoldersOfStep
  <1> QED  BY <1>1, <1>2, <1>3, <1>4, <1>5

\* A process that ends leaves every downtime its runs were part of; the other
\* steps of a process touch none.
LEMMA ProcSimulates ==
  ASSUME ColdShared, NEW p \in Procs, ProcStep(p)
  PROVE  [Downtime!Next]_<<up, ColdHolders>>
  <1>t. TypeOK
    BY DEF ColdShared, RefsInv
  <1>1. CASE Exit(p) \/ Crash(p) \/ Killed(p)
    <2> DEFINE S == {r \in RunsOf(p) : InCold(r)}
    <2>1. Vanish(p)
      BY <1>1 DEF Exit, Crash, Killed
    <2>2. /\ UNCHANGED <<up, job>>
          /\ \A r \in Runs : InCold(r)' <=> InCold(r) /\ r \notin S
      <3>1. \A r \in Runs : IF owner[r] = p /\ Active(r) THEN pc'[r] = "dead"
                                                       ELSE pc'[r] = pc[r]
        BY <2>1, <1>t DEF Vanish, TypeOK
      <3>2. UNCHANGED <<up, job>>
        BY <2>1 DEF Vanish, hostVars
      <3> QED  BY <3>1, <3>2 DEF InCold, Active, RunsOf
    <2>3. ColdHolders' = [c \in Containers |-> ColdHolders[c] \ S]
      <3>1. ASSUME NEW c \in Containers
            PROVE  ColdHolders'[c] = ColdHolders[c] \ S
        BY <2>2 DEF ColdHolders
      <3> QED  BY <3>1 DEF ColdHolders
    <2>4. S \in SUBSET Runs
      BY DEF RunsOf
    <2>5. CASE S = {}
      <3>1. UNCHANGED ColdHolders
        BY <2>2, <2>5 DEF ColdHolders
      <3> QED  BY <3>1, <2>2
    <2>6. CASE S # {}
      <3>1. Downtime!Leave(S)
        BY <2>2, <2>3, <2>6 DEF Downtime!Leave
      <3> QED  BY <3>1, <2>4 DEF Downtime!Next
    <2> QED  BY <2>5, <2>6
  <1>2. CASE StartProc(p) \/ ReapSnapshotter(p) \/ TickerReap(p) \/ Shutdown(p)
    <2>1. UNCHANGED <<up, pc, job>>
      BY <1>2 DEF StartProc, ReapSnapshotter, TickerReap, Shutdown, runVars, hostVars
    <2> QED  BY <2>1 DEF ColdHolders, InCold
  <1> QED  BY <1>1, <1>2 DEF ProcStep

\* A trigger starts a run that holds nothing yet.
LEMMA TriggerSimulates ==
  ASSUME TypeOK, NEW r \in Runs, NEW p \in Procs, NEW j \in Jobs, Trigger(r, p, j)
  PROVE  UNCHANGED <<up, ColdHolders>>
  <1>1. /\ UNCHANGED up /\ pc[r] = "idle" /\ pc'[r] = "lock"
        /\ \A s \in Runs : s # r => pc'[s] = pc[s] /\ job'[s] = job[s]
    BY DEF Trigger, Goto, hostVars, TypeOK
  <1>2. /\ ~InCold(r) /\ ~InCold(r)'
        /\ \A s \in Runs : s # r => (InCold(s)' <=> InCold(s))
    BY <1>1 DEF InCold
  <1> QED  BY <1>1, <1>2 DEF ColdHolders

\* coldStops shares downtimes: within one daemon at a time and without in-place
\* restores, every behaviour of the orchestrator is one of SharedDowntime.  A
\* backup joins only a downtime that has begun and the app is started only when
\* the last holder has left, however many overlap and whatever fails or dies.
THEOREM ImplementsSharedDowntime ==
  ASSUME \A p \in Procs : Kind[p] = "daemon",
         \A j \in Jobs : ~StopRestore(j)
  PROVE  Spec => SharesDowntime
  <1>1. Init => ColdShared
    <2> SUFFICES ASSUME Init PROVE OneAlive /\ ColdDown
      BY RefsInit, PhaseInit DEF ColdShared
    <2>1. \A r \in Runs : ~InCold(r)
      BY DEF Init, InCold
    <2> QED  BY <2>1 DEF Init, OneAlive, Alive, ColdDown
  <1>2. ColdShared /\ [Next]_vars => ColdShared'
    BY RefsNext, PhaseNext, OneAliveNext, ColdDownNext DEF ColdShared, RefsInv
  <1>3. Init => Downtime!Init
    <2> SUFFICES ASSUME Init PROVE Downtime!Init
      OBVIOUS
    <2>1. \A r \in Runs : ~InCold(r)
      BY DEF Init, InCold
    <2> QED  BY <2>1 DEF Init, Downtime!Init, ColdHolders
  <1>4. ColdShared /\ [Next]_vars => [Downtime!Next]_(Downtime!vars)
    <2> SUFFICES ASSUME ColdShared, [Next]_vars
                 PROVE  [Downtime!Next]_<<up, ColdHolders>>
      BY DEF Downtime!vars
    <2>1. CASE \E p \in Procs : ProcStep(p)
      BY <2>1, ProcSimulates
    <2>2. CASE \E r \in Runs, p \in Procs, j \in Jobs : Trigger(r, p, j)
      BY <2>2, TriggerSimulates DEF ColdShared, RefsInv
    <2>3. CASE \E r \in Runs : RunStep(r)
      BY <2>3, RunSimulates
    <2>4. CASE UNCHANGED vars
      BY <2>4 DEF vars, runVars, hostVars, ColdHolders, InCold
    <2> QED  BY <2>1, <2>2, <2>3, <2>4 DEF Next
  <1> QED
    BY <1>1, <1>2, <1>3, <1>4, PTL DEF Spec, SharesDowntime, Downtime!Spec

=============================================================================
