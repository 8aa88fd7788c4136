---------------------------- MODULE Orchestrator ----------------------------
(***************************************************************************)
(* The orchestrator of sabon: what happens between the trigger of a run    *)
(* (a cron tick, run-on-startup, an API call, a CLI command) and the end   *)
(* of that run, for several runs of several sabon processes that share one *)
(* Docker host.                                                            *)
(*                                                                         *)
(*   internal/backup/backup.go     the locks: keyedMutex, sem, coldStops   *)
(*   internal/backup/run.go        RunTarget, RunCheck, RunPrune,          *)
(*                                 RunSnapshots, RunRestore                *)
(*   internal/backup/snapshots.go  ReapSnapshotter, sourceMountsFor        *)
(*   internal/mover/runner.go      Run, the life of a mover container      *)
(*   cmd/sabon/daemon.go, backup.go   start, shutdown and exit             *)
(*                                                                         *)
(* A run is a goroutine; pc[r] is the next call it makes.  A deferred call *)
(* of the code is a step of its own, in the (reverse) order in which Go    *)
(* runs the defers.  The maps of locks, the semaphore and the cold-stop    *)
(* counters live in the memory of one process; containers (apps, movers)   *)
(* and snapshots live on the host and outlive the process.                 *)
(***************************************************************************)
EXTENDS Integers, FiniteSets

CONSTANTS
  Procs,               \* sabon processes: daemon incarnations, CLI commands
  Kind,                \* what each process is: see ProcKind
  Runs,                \* identities of runs
  Repos,               \* repositories, one per "<target>|<app>"
  Containers,          \* app containers
  Jobs,                \* what a run may be asked to do: see JobType
  MaxParallel,         \* SABON_MAX_PARALLEL, 0 = unlimited
  MoverHistory,        \* SABON_MOVER_HISTORY
  SnapshotsConfigured, \* SABON_SNAPSHOT is neither "" nor "none"
  Faults               \* failures the instance admits: see FaultKind

ProcKind == {"daemon", "backup", "command"}
Ops == {"backup", "check", "prune", "snapshots", "restore"}
Origins == {"cron", "startup", "api", "cli"}

\* "start", "remove", "destroy": that cleanup call fails, which the code ignores or
\* only logs.  "stop", "snapshot": the call reports an error (its context ended
\* while it was under way) although the container stops or the snapshot is taken.
\* "crash": the process may die at any point.
FaultKind == {"stop", "start", "snapshot", "remove", "destroy", "crash"}

\* stop: Spec.Stop of a backup (cold backup) or RestoreOptions.Stop of an
\* in-place restore.  snap: a snapshot provider takes the job's sources.
\* hooks: the job has pre- and post-hooks.
JobType == [op: Ops, repo: Repos, ctr: Containers, stop: BOOLEAN,
            snap: BOOLEAN, hooks: BOOLEAN, origin: Origins]

ASSUME ProcAssumption == Procs # {} /\ Kind \in [Procs -> ProcKind]
ASSUME JobAssumption == Jobs # {} /\ Jobs \subseteq JobType
ASSUME RunAssumption == IsFiniteSet(Runs)
ASSUME ConfigAssumption == /\ MaxParallel \in Nat
                           /\ MoverHistory \in Nat
                           /\ SnapshotsConfigured \in BOOLEAN
                           /\ Faults \subseteq FaultKind

VARIABLES
  phase,   \* [Procs -> new, reaping, up, cancelled, gone]
  inUse,   \* snapshots ReapSnapshotter found mounted by a running mover
  lock,    \* locked keys of the process' keyedMutex
  sem,     \* tokens in the process' sem channel
  coldMu,  \* containers whose coldStop.mu is held
  refs,    \* coldStop.refs
  pc, owner, job, \* per run: next call, process, parameters
  ctx,     \* per run: live, or why its context is done
  kept,    \* runs whose mover was left running (keptMover)
  hook,    \* per run: which hooks have taken effect
  up,      \* per app container: running or not
  mover,   \* per run: state of its mover container
  snap     \* runs whose source snapshot exists on the host

procVars == <<phase, inUse>>
lockVars == <<lock, sem, coldMu, refs>>
runVars  == <<pc, owner, job, ctx, kept, hook>>
hostVars == <<up, mover, snap>>
vars == <<procVars, lockVars, runVars, hostVars>>

-----------------------------------------------------------------------------
(* The program counters, in the order of a cold backup with a snapshot.    *)

\* Before the slot: the repository lock is held from "slot" on.
\* After "wait" come the deferred calls, up to "unlock".
Pc == {"idle", "lock", "slot", "prepare", "prehooks", "hold", "stopping",
       "snapshot", "rstop", "create", "start", "wait", "rstart", "posthooks",
       "cleanup", "coldrelease", "starting", "release", "unlock",
       "done", "dead"}

\* The repository lock is held: locks.lock has returned, unlock has not run.
InRepo(r) == pc[r] \notin {"idle", "lock", "done", "dead"}

\* A run that some goroutine is executing.
Active(r) == pc[r] \notin {"idle", "done", "dead"}

\* RunTarget, RunCheck and RunPrune call acquire; RunSnapshots and RunRestore
\* do not.
TakesSlot(j) == j.op \in {"backup", "check", "prune"}

ColdBackup(j) == j.op = "backup" /\ j.stop
StopRestore(j) == j.op = "restore" /\ j.stop

\* A cold backup is counted by its coldStop: between hold and release.
InCold(r) == /\ ColdBackup(job[r])
             /\ pc[r] \in {"snapshot", "create", "start", "wait", "posthooks",
                           "cleanup", "coldrelease"}

\* KeepOnShutdown: !job.Spec.Stop, and only RunTarget sets it.
KeepOnShutdown(j) == j.op = "backup" /\ ~j.stop

Alive(p) == phase[p] \in {"reaping", "up", "cancelled"}
RunsOf(p) == {r \in Runs : owner[r] = p}
Running == {r \in Runs : mover[r] = "running"}

\* Where a run goes when a call before the mover fails ...
Unwind(j) == IF TakesSlot(j) THEN "release" ELSE "unlock"
\* Mutant: the error of the restore returns before its restart is deferred.
AfterMover_NoRestart(j) == IF j.op = "backup" THEN "posthooks" ELSE Unwind(j)

\* ... when RunMover returns ...
AfterMover(j) == CASE j.op = "backup"  -> "posthooks"
                   [] StopRestore(j)   -> "rstart"
                   [] OTHER            -> Unwind(j)
\* ... and after the snapshot cleanup of a backup.
AfterCleanup(j) == IF j.stop THEN "coldrelease" ELSE "release"

-----------------------------------------------------------------------------
\* The types of the processes' memory, of the runs and of the host.
TypeOK ==
  /\ phase \in [Procs -> {"new", "reaping", "up", "cancelled", "gone"}]
  /\ inUse \in [Procs -> SUBSET Runs]
  /\ lock \in [Procs -> SUBSET Repos]
  /\ sem \in [Procs -> Int]
  /\ coldMu \in [Procs -> SUBSET Containers]
  /\ refs \in [Procs -> [Containers -> Int]]
  /\ pc \in [Runs -> Pc]
  /\ owner \in [Runs -> Procs]
  /\ job \in [Runs -> Jobs]
  /\ ctx \in [Runs -> {"live", "deadline", "cancelled"}]
  /\ kept \in SUBSET Runs
  /\ hook \in [Runs -> {"none", "pre", "post"}]
  /\ up \in [Containers -> BOOLEAN]
  /\ mover \in [Runs -> {"none", "created", "running", "gone"}]
  /\ snap \in SUBSET Runs

\* owner and job of an idle run have no meaning until Trigger sets them.
Init ==
  /\ phase = [p \in Procs |-> "new"]
  /\ inUse = [p \in Procs |-> {}]
  /\ lock = [p \in Procs |-> {}]
  /\ sem = [p \in Procs |-> 0]
  /\ coldMu = [p \in Procs |-> {}]
  /\ refs = [p \in Procs |-> [c \in Containers |-> 0]]
  /\ pc = [r \in Runs |-> "idle"]
  /\ owner = [r \in Runs |-> CHOOSE p \in Procs : TRUE]
  /\ job = [r \in Runs |-> CHOOSE j \in Jobs : TRUE]
  /\ ctx = [r \in Runs |-> "live"]
  /\ kept = {}
  /\ hook = [r \in Runs |-> "none"]
  /\ up = [c \in Containers |-> TRUE]
  /\ mover = [r \in Runs |-> "none"]
  /\ snap = {}

Goto(r, l) == pc' = [pc EXCEPT ![r] = l]

-----------------------------------------------------------------------------
(* Processes.                                                              *)

\* Reap (runner.go) removes every mover that is not running, except the newest
\* MoverHistory of each (app, target, action) group.  A run starts its mover
\* right after creating it, so a created mover is the newest of its group; only
\* RunSnapshots' movers carry no action label and are never spared.  Exited
\* movers are history nobody in this module looks at: see MoverHistory.tla.
Reaped(r) == /\ mover[r] = "created"
             /\ job[r].op = "snapshots" \/ MoverHistory = 0

ReapMovers == mover' = [r \in Runs |-> IF Reaped(r) THEN "gone" ELSE mover[r]]

\* daemonRun, runBackupOnce: Reap, then the first half of ReapSnapshotter,
\* RunningMoverBinds.  The other CLI commands reap nothing.  Two daemons never
\* run at the same time; a CLI process runs beside anything.
StartProc(p) ==
  /\ phase[p] = "new"
  /\ Kind[p] = "daemon" =>
       \A q \in Procs : Kind[q] = "daemon" => ~Alive(q)
  /\ IF Kind[p] = "command"
     THEN /\ phase' = [phase EXCEPT ![p] = "up"]
          /\ UNCHANGED <<inUse, mover>>
     ELSE /\ phase' = [phase EXCEPT ![p] =
                         IF SnapshotsConfigured THEN "reaping" ELSE "up"]
          /\ inUse' = [inUse EXCEPT ![p] = Running]
          /\ ReapMovers
  /\ UNCHANGED <<lockVars, runVars, up, snap>>

\* The second half of ReapSnapshotter: destroy every snapshot of this instance
\* that no mover was seen to mount.  A destroy that fails is skipped.
ReapSnapshotter(p) ==
  /\ phase[p] = "reaping"
  /\ phase' = [phase EXCEPT ![p] = "up"]
  /\ \/ snap' = snap \cap inUse[p]
     \/ /\ "destroy" \in Faults
        /\ \E s \in SUBSET (snap \ inUse[p]) : snap' = snap \ s
  /\ inUse' = [inUse EXCEPT ![p] = {}]
  /\ UNCHANGED <<lockVars, runVars, up, mover>>

\* The daemon's ticker.
TickerReap(p) ==
  /\ Kind[p] = "daemon" /\ phase[p] = "up"
  /\ \E r \in Runs : Reaped(r)
  /\ ReapMovers
  /\ UNCHANGED <<procVars, lockVars, runVars, up, snap>>

\* runDaemon installs signal.NotifyContext: SIGTERM or SIGINT cancels the context
\* every run of the daemon inherits.
Shutdown(p) ==
  /\ Kind[p] = "daemon" /\ phase[p] = "up"
  /\ phase' = [phase EXCEPT ![p] = "cancelled"]
  /\ ctx' = [r \in Runs |-> IF owner[r] = p /\ Active(r) /\ ctx[r] = "live"
                            THEN "cancelled" ELSE ctx[r]]
  /\ UNCHANGED <<inUse, lockVars, pc, owner, job, kept, hook, hostVars>>

\* The end of a process: its goroutines and its memory are gone, the host stays.
Vanish(p) ==
  /\ phase' = [phase EXCEPT ![p] = "gone"]
  /\ inUse' = [inUse EXCEPT ![p] = {}]
  /\ lock' = [lock EXCEPT ![p] = {}]
  /\ sem' = [sem EXCEPT ![p] = 0]
  /\ coldMu' = [coldMu EXCEPT ![p] = {}]
  /\ refs' = [refs EXCEPT ![p] = [c \in Containers |-> 0]]
  /\ pc' = [r \in Runs |-> IF owner[r] = p /\ Active(r) THEN "dead" ELSE pc[r]]
  /\ UNCHANGED <<owner, job, ctx, kept, hook, hostVars>>

\* daemonRun returns: waitBounded gives run-on-startup 30 seconds, the deferred
\* sched.Stop waits for the cron jobs that run; goroutines started by the API
\* are not waited for.  A CLI command returns when its runs have returned.
Exit(p) ==
  /\ phase[p] = "cancelled" \/ (phase[p] = "up" /\ Kind[p] # "daemon")
  /\ \A r \in RunsOf(p) : Active(r) => job[r].origin \in {"startup", "api"}
  /\ Vanish(p)

\* SIGKILL, OOM, power loss of the process, at any point.
Crash(p) == "crash" \in Faults /\ Alive(p) /\ Vanish(p)

\* A command runs on context.Background() and handles no signal: SIGTERM or
\* SIGINT (Ctrl-C) ends it where it is, without its deferred calls.
Killed(p) == Kind[p] # "daemon" /\ Alive(p) /\ Vanish(p)

-----------------------------------------------------------------------------
(* Runs: from the trigger to the mover.                                    *)

\* The daemon serves cron, startup and the API; `sabon backup` runs backups, and the
\* other commands (snapshots, check, prune, restore) their operation, target by
\* target.
Offers(p, j) == /\ Kind[p] = "daemon" <=> j.origin # "cli"
                /\ Kind[p] = "backup" => j.op = "backup"
                /\ Kind[p] = "command" => j.op # "backup"

\* Mutant: scheduled runs use a context of their own.
Trigger_Background(r, p, j) ==
  /\ pc[r] = "idle"
  /\ phase[p] \in {"up", "cancelled"} /\ Offers(p, j)
  /\ Goto(r, "lock")
  /\ owner' = [owner EXCEPT ![r] = p]
  /\ job' = [job EXCEPT ![r] = j]
  /\ ctx' = [ctx EXCEPT ![r] = "live"]
  /\ UNCHANGED <<procVars, lockVars, kept, hook, hostVars>>

\* A cron tick can still fire between the signal and sched.Stop, and the loops of
\* RunMatching (run-on-startup, the API) go on to the next target with a cancelled
\* context.
Trigger(r, p, j) ==
  /\ pc[r] = "idle"
  /\ phase[p] \in {"up", "cancelled"} /\ Offers(p, j)
  /\ Goto(r, "lock")
  /\ owner' = [owner EXCEPT ![r] = p]
  /\ job' = [job EXCEPT ![r] = j]
  /\ ctx' = [ctx EXCEPT ![r] = IF phase[p] = "up" THEN "live" ELSE "cancelled"]
  /\ UNCHANGED <<procVars, lockVars, kept, hook, hostVars>>

\* Mutants: no waiting for the mutex; the lock is keyed by the container.
LockRepo_NoWait(r) ==
  /\ pc[r] = "lock"
  /\ lock' = [lock EXCEPT ![owner[r]] = @ \cup {job[r].repo}]
  /\ Goto(r, IF TakesSlot(job[r]) THEN "slot" ELSE "prepare")
  /\ UNCHANGED <<procVars, sem, coldMu, refs, owner, job, ctx, kept, hook, hostVars>>

LockRepo_ByApp(r) ==
  /\ pc[r] = "lock"
  /\ job[r].ctr \notin lock[owner[r]]
  /\ lock' = [lock EXCEPT ![owner[r]] = @ \cup {job[r].ctr}]
  /\ Goto(r, IF TakesSlot(job[r]) THEN "slot" ELSE "prepare")
  /\ UNCHANGED <<procVars, sem, coldMu, refs, owner, job, ctx, kept, hook, hostVars>>

\* o.locks.lock(target + "|" + app): not interrupted by the context.
LockRepo(r) ==
  /\ pc[r] = "lock"
  /\ job[r].repo \notin lock[owner[r]]
  /\ lock' = [lock EXCEPT ![owner[r]] = @ \cup {job[r].repo}]
  /\ Goto(r, IF TakesSlot(job[r]) THEN "slot" ELSE "prepare")
  /\ UNCHANGED <<procVars, sem, coldMu, refs, owner, job, ctx, kept, hook, hostVars>>

\* Mutant: one token too many.
AcquireSlot_OffByOne(r) ==
  /\ pc[r] = "slot"
  /\ sem[owner[r]] <= MaxParallel
  /\ sem' = [sem EXCEPT ![owner[r]] = @ + 1]
  /\ Goto(r, "prepare")
  /\ UNCHANGED <<procVars, lock, coldMu, refs, owner, job, ctx, kept, hook, hostVars>>

\* acquire: with both cases of the select ready, Go picks either.
AcquireSlot(r) ==
  /\ pc[r] = "slot"
  /\ \/ /\ MaxParallel = 0
        /\ UNCHANGED sem
     \/ /\ MaxParallel > 0
        /\ sem[owner[r]] < MaxParallel
        /\ sem' = [sem EXCEPT ![owner[r]] = @ + 1]
  /\ Goto(r, "prepare")
  /\ UNCHANGED <<procVars, lock, coldMu, refs, owner, job, ctx, kept, hook, hostVars>>

AcquireCancelled(r) ==
  /\ pc[r] = "slot"
  /\ MaxParallel > 0 /\ ctx[r] # "live"
  /\ Goto(r, "unlock")
  /\ UNCHANGED <<procVars, lockVars, owner, job, ctx, kept, hook, hostVars>>

\* The timeout label, resticEnv and ensureCache: any of them may return an error.
Prepare(r) ==
  /\ pc[r] = "prepare"
  /\ \/ Goto(r, CASE job[r].op = "backup"  -> "prehooks"
                  [] StopRestore(job[r])   -> "rstop"
                  [] OTHER                 -> "create")
     \/ Goto(r, Unwind(job[r]))
  /\ UNCHANGED <<procVars, lockVars, owner, job, ctx, kept, hook, hostVars>>

\* context.WithTimeout of RunTarget, armed after the slot is acquired.
Deadline(r) ==
  /\ job[r].op = "backup" /\ ctx[r] = "live"
  /\ pc[r] \in {"prehooks", "hold", "stopping", "snapshot", "create", "start", "wait"}
  /\ ctx' = [ctx EXCEPT ![r] = "deadline"]
  /\ UNCHANGED <<procVars, lockVars, pc, owner, job, kept, hook, hostVars>>

\* runHooks(pre): the hooks run in order up to the first error; a later one may
\* fail after an earlier one has taken effect.  An error ends the run.
PreHooks(r) ==
  /\ pc[r] = "prehooks"
  /\ \/ /\ job[r].hooks => ctx[r] = "live"
        /\ hook' = [hook EXCEPT ![r] = IF job[r].hooks THEN "pre" ELSE @]
        /\ Goto(r, IF job[r].stop THEN "hold" ELSE "snapshot")
     \/ /\ job[r].hooks
        /\ \E h \in {"none", "pre"} : hook' = [hook EXCEPT ![r] = h]
        /\ Goto(r, "release")
  /\ UNCHANGED <<procVars, lockVars, owner, job, ctx, kept, hostVars>>

\* coldStop.hold.  A later holder only counts itself; the first one stops the
\* container, with mu held across the call.
HoldEnter(r) ==
  /\ pc[r] = "hold"
  /\ job[r].ctr \notin coldMu[owner[r]]
  /\ IF refs[owner[r]][job[r].ctr] = 0
     THEN /\ coldMu' = [coldMu EXCEPT ![owner[r]] = @ \cup {job[r].ctr}]
          /\ Goto(r, "stopping")
          /\ UNCHANGED refs
     ELSE /\ refs' = [refs EXCEPT ![owner[r]][job[r].ctr] = @ + 1]
          /\ Goto(r, "snapshot")
          /\ UNCHANGED coldMu
  /\ UNCHANGED <<procVars, lock, sem, owner, job, ctx, kept, hook, hostVars>>

LeaveColdMu(r) == coldMu' = [coldMu EXCEPT ![owner[r]] = @ \ {job[r].ctr}]

HoldStop(r) ==
  /\ pc[r] = "stopping"
  /\ ctx[r] = "live"
  /\ up' = [up EXCEPT ![job[r].ctr] = FALSE]
  /\ refs' = [refs EXCEPT ![owner[r]][job[r].ctr] = @ + 1]
  /\ LeaveColdMu(r)
  /\ Goto(r, "snapshot")
  /\ UNCHANGED <<procVars, lock, sem, owner, job, ctx, kept, hook, mover, snap>>

\* Mutants: the error path counts the failed stop, or returns with mu locked.
HoldFails_Counted(r) ==
  /\ pc[r] = "stopping"
  /\ refs' = [refs EXCEPT ![owner[r]][job[r].ctr] = @ + 1]
  /\ LeaveColdMu(r)
  /\ Goto(r, "release")
  /\ UNCHANGED <<procVars, lock, sem, owner, job, ctx, kept, hook, hostVars>>

HoldFails_KeepsMu(r) ==
  /\ pc[r] = "stopping"
  /\ Goto(r, "release")
  /\ UNCHANGED <<procVars, lockVars, owner, job, ctx, kept, hook, hostVars>>

\* A failed stop is not counted, and nothing undoes it.
HoldFails(r) ==
  /\ pc[r] = "stopping"
  /\ \/ UNCHANGED up
     \/ "stop" \in Faults /\ up' = [up EXCEPT ![job[r].ctr] = FALSE]
  /\ LeaveColdMu(r)
  /\ Goto(r, "release")
  /\ UNCHANGED <<procVars, lock, sem, refs, owner, job, ctx, kept, hook, mover, snap>>

\* Mutant: a failed snapshot returns before the restart is deferred.
SourceMounts_NoDefer(r) ==
  /\ pc[r] = "snapshot"
  /\ \/ /\ job[r].snap => ctx[r] = "live"
        /\ snap' = IF job[r].snap THEN snap \cup {r} ELSE snap
        /\ Goto(r, "create")
     \/ /\ job[r].snap
        /\ Goto(r, "release")
        /\ UNCHANGED snap
  /\ UNCHANGED <<procVars, lockVars, owner, job, ctx, kept, hook, up, mover>>

\* sourceMountsFor: a failed snapshot has been rolled back when it returns, except
\* for the call that failed: nobody destroys what it took (ZfsSnapshots.tla).
SourceMounts(r) ==
  /\ pc[r] = "snapshot"
  /\ \/ /\ job[r].snap => ctx[r] = "live"
        /\ snap' = IF job[r].snap THEN snap \cup {r} ELSE snap
        /\ Goto(r, "create")
     \/ /\ job[r].snap
        /\ Goto(r, AfterCleanup(job[r]))
        /\ \/ UNCHANGED snap
           \/ "snapshot" \in Faults /\ snap' = snap \cup {r}
  /\ UNCHANGED <<procVars, lockVars, owner, job, ctx, kept, hook, up, mover>>

\* RunRestore calls the quiescer itself, not the coldStop of the container.
RestoreStop(r) ==
  /\ pc[r] = "rstop"
  /\ \/ /\ ctx[r] = "live"
        /\ up' = [up EXCEPT ![job[r].ctr] = FALSE]
        /\ Goto(r, "create")
     \/ /\ \/ UNCHANGED up
           \/ "stop" \in Faults /\ up' = [up EXCEPT ![job[r].ctr] = FALSE]
        /\ Goto(r, "unlock")
  /\ UNCHANGED <<procVars, lockVars, owner, job, ctx, kept, hook, mover, snap>>

-----------------------------------------------------------------------------
(* Runs: the mover (Runner.Run) and the deferred calls.                    *)

\* The deferred ContainerRemove(Force); its error is ignored.
Remove(r) == \/ mover' = [mover EXCEPT ![r] = "gone"]
             \/ "remove" \in Faults /\ UNCHANGED mover

MoverReturns(r) == Goto(r, AfterMover(job[r]))

\* Mutant: a failed create returns before the snapshot's cleanup is deferred.
MoverCreate_NoCleanup(r) ==
  /\ pc[r] = "create"
  /\ \/ /\ ctx[r] = "live"
        /\ mover' = [mover EXCEPT ![r] = "created"]
        /\ Goto(r, "start")
     \/ Goto(r, AfterCleanup(job[r])) /\ UNCHANGED mover
  /\ UNCHANGED <<procVars, lockVars, owner, job, ctx, kept, hook, up, snap>>

\* ensureImage and ContainerCreate.
MoverCreate(r) ==
  /\ pc[r] = "create"
  /\ \/ /\ ctx[r] = "live"
        /\ mover' = [mover EXCEPT ![r] = "created"]
        /\ Goto(r, "start")
     \/ MoverReturns(r) /\ UNCHANGED mover
  /\ UNCHANGED <<procVars, lockVars, owner, job, ctx, kept, hook, up, snap>>

MoverStart(r) ==
  /\ pc[r] = "start"
  /\ \/ /\ ctx[r] = "live" /\ mover[r] = "created"
        /\ mover' = [mover EXCEPT ![r] = "running"]
        /\ Goto(r, "wait")
     \/ Remove(r) /\ MoverReturns(r)
  /\ UNCHANGED <<procVars, lockVars, owner, job, ctx, kept, hook, up, snap>>

\* restic ends, on its own or in error; the process need not be there to see it.
MoverExit(r) ==
  /\ mover[r] = "running"
  /\ mover' = [mover EXCEPT ![r] = "gone"]
  /\ UNCHANGED <<procVars, lockVars, runVars, up, snap>>

\* case st := <-statusCh
WaitStatus(r) ==
  /\ pc[r] = "wait" /\ mover[r] = "gone"
  /\ MoverReturns(r)
  /\ UNCHANGED <<procVars, lockVars, owner, job, ctx, kept, hook, hostVars>>

\* Mutant: a cancelled backup returns without its post-hooks.
WaitCancelled_NoHooks(r) ==
  /\ pc[r] = "wait" /\ ctx[r] # "live"
  /\ IF ctx[r] = "cancelled" /\ KeepOnShutdown(job[r])
     THEN kept' = kept \cup {r} /\ UNCHANGED mover
     ELSE Remove(r) /\ UNCHANGED kept
  /\ Goto(r, IF job[r].op = "backup" THEN "cleanup" ELSE AfterMover(job[r]))
  /\ UNCHANGED <<procVars, lockVars, owner, job, ctx, hook, up, snap>>

\* case <-ctx.Done(), cancelled by a shutdown: a live backup's mover is left
\* running; everything else, and a timeout, removes it.
WaitCancelled(r) ==
  /\ pc[r] = "wait" /\ ctx[r] # "live"
  /\ IF ctx[r] = "cancelled" /\ KeepOnShutdown(job[r])
     THEN kept' = kept \cup {r} /\ UNCHANGED mover
     ELSE Remove(r) /\ UNCHANGED kept
  /\ MoverReturns(r)
  /\ UNCHANGED <<procVars, lockVars, owner, job, ctx, hook, up, snap>>

\* case err := <-errCh
WaitError(r) ==
  /\ pc[r] = "wait"
  /\ Remove(r)
  /\ MoverReturns(r)
  /\ UNCHANGED <<procVars, lockVars, owner, job, ctx, kept, hook, up, snap>>

\* Post-hooks run on a context of their own; their error is only logged.
PostHooks(r) ==
  /\ pc[r] = "posthooks"
  /\ hook' = [hook EXCEPT ![r] = IF job[r].hooks THEN "post" ELSE @]
  /\ Goto(r, "cleanup")
  /\ UNCHANGED <<procVars, lockVars, owner, job, ctx, kept, hostVars>>

\* Mutant: the cleanup ignores keptMover.
SnapCleanup_Always(r) ==
  /\ pc[r] = "cleanup"
  /\ snap' = snap \ {r}
  /\ Goto(r, AfterCleanup(job[r]))
  /\ UNCHANGED <<procVars, lockVars, owner, job, ctx, kept, hook, up, mover>>

\* defer: if !keptMover { snapCleanup }
SnapCleanup(r) ==
  /\ pc[r] = "cleanup"
  /\ \/ snap' = IF r \in kept THEN snap ELSE snap \ {r}
     \/ "destroy" \in Faults /\ UNCHANGED snap
  /\ Goto(r, AfterCleanup(job[r]))
  /\ UNCHANGED <<procVars, lockVars, owner, job, ctx, kept, hook, up, mover>>

\* Mutant: every holder restarts the container.
ReleaseEnter_AnyHolder(r) ==
  /\ pc[r] = "coldrelease"
  /\ job[r].ctr \notin coldMu[owner[r]]
  /\ refs' = [refs EXCEPT ![owner[r]][job[r].ctr] = @ - 1]
  /\ coldMu' = [coldMu EXCEPT ![owner[r]] = @ \cup {job[r].ctr}]
  /\ Goto(r, "starting")
  /\ UNCHANGED <<procVars, lock, sem, owner, job, ctx, kept, hook, hostVars>>

\* coldStop.release.  The last holder starts the container, with mu held across
\* the call.
ReleaseEnter(r) ==
  /\ pc[r] = "coldrelease"
  /\ job[r].ctr \notin coldMu[owner[r]]
  /\ refs' = [refs EXCEPT ![owner[r]][job[r].ctr] = @ - 1]
  /\ IF refs[owner[r]][job[r].ctr] = 1
     THEN /\ coldMu' = [coldMu EXCEPT ![owner[r]] = @ \cup {job[r].ctr}]
          /\ Goto(r, "starting")
     ELSE /\ Goto(r, "release")
          /\ UNCHANGED coldMu
  /\ UNCHANGED <<procVars, lock, sem, owner, job, ctx, kept, hook, hostVars>>

\* quiesce.Start on a context without cancel; an error is only logged.
Restarted(c) == \/ up' = [up EXCEPT ![c] = TRUE]
                \/ "start" \in Faults /\ UNCHANGED up

ReleaseStart(r) ==
  /\ pc[r] = "starting"
  /\ Restarted(job[r].ctr)
  /\ LeaveColdMu(r)
  /\ Goto(r, "release")
  /\ UNCHANGED <<procVars, lock, sem, refs, owner, job, ctx, kept, hook, mover, snap>>

RestoreStart(r) ==
  /\ pc[r] = "rstart"
  /\ Restarted(job[r].ctr)
  /\ Goto(r, "unlock")
  /\ UNCHANGED <<procVars, lockVars, owner, job, ctx, kept, hook, mover, snap>>

ReleaseSlot(r) ==
  /\ pc[r] = "release"
  /\ sem' = IF MaxParallel > 0 THEN [sem EXCEPT ![owner[r]] = @ - 1] ELSE sem
  /\ Goto(r, "unlock")
  /\ UNCHANGED <<procVars, lock, coldMu, refs, owner, job, ctx, kept, hook, hostVars>>

Unlock(r) ==
  /\ pc[r] = "unlock"
  /\ lock' = [lock EXCEPT ![owner[r]] = @ \ {job[r].repo}]
  /\ Goto(r, "done")
  /\ UNCHANGED <<procVars, sem, coldMu, refs, owner, job, ctx, kept, hook, hostVars>>

-----------------------------------------------------------------------------
ProcStep(p) == \/ StartProc(p) \/ ReapSnapshotter(p) \/ TickerReap(p)
               \/ Shutdown(p) \/ Exit(p) \/ Crash(p) \/ Killed(p)

\* The steps that wait for nothing but the host's answer.
CallStep(r) == \/ AcquireCancelled(r) \/ Prepare(r) \/ PreHooks(r)
               \/ HoldStop(r) \/ HoldFails(r) \/ SourceMounts(r)
               \/ RestoreStop(r) \/ MoverCreate(r) \/ MoverStart(r)
               \/ WaitStatus(r) \/ WaitCancelled(r) \/ PostHooks(r)
               \/ SnapCleanup(r) \/ ReleaseStart(r) \/ RestoreStart(r)
               \/ ReleaseSlot(r) \/ Unlock(r)

\* What a goroutine may have to wait for: a mutex or a slot.
Blocking(r) == LockRepo(r) \/ AcquireSlot(r) \/ HoldEnter(r) \/ ReleaseEnter(r)

RunStep(r) == \/ CallStep(r) \/ Blocking(r)
              \/ Deadline(r) \/ WaitError(r) \/ MoverExit(r)

Next == \/ \E p \in Procs : ProcStep(p)
        \/ \E r \in Runs, p \in Procs, j \in Jobs : Trigger(r, p, j)
        \/ \E r \in Runs : RunStep(r)

Spec == Init /\ [][Next]_vars

\* A goroutine runs (WF on its calls), Docker answers every call, restic ends.
\* A blocked goroutine gets the mutex or the channel slot when it is freed again
\* and again: Go's mutexes queue waiters in starvation mode and channels queue
\* blocked senders, hence SF.
Fairness ==
  /\ \A r \in Runs : /\ WF_vars(CallStep(r)) /\ WF_vars(MoverExit(r))
                     /\ SF_vars(Blocking(r))
  /\ \A p \in Procs : WF_vars(ReapSnapshotter(p))

LiveSpec == Spec /\ Fairness

-----------------------------------------------------------------------------
(* What one process guarantees.                                            *)

\* Two runs of one process are never both between the repository's lock and
\* unlock (keyedMutex): "runs against the same repository are serialised".
RepoExclusive ==
  \A r, s \in Runs :
    /\ r # s /\ InRepo(r) /\ InRepo(s)
    /\ owner[r] = owner[s]
    => job[r].repo # job[s].repo

\* The serialisation is about movers, not goroutines: movers started by one
\* process never work on one repository at the same time, not even when a
\* shutdown leaves a mover running and hands the lock on to a waiting run.
OneMoverPerRepo ==
  \A r, s \in Running :
    r # s /\ owner[r] = owner[s] => job[r].repo # job[s].repo

\* SABON_MAX_PARALLEL: the movers of backups, checks and prunes that run at the
\* same time, movers left running by a shutdown included, never exceed the cap.
SlotBound ==
  MaxParallel > 0 =>
    \A p \in Procs :
      Cardinality({r \in RunsOf(p) \cap Running : TakesSlot(job[r])}) <= MaxParallel

\* A cold backup of another process is past the restart of its own downtime.
ReleasedElsewhere(r) ==
  \E s \in Runs : /\ owner[s] # owner[r] /\ pc[s] \in {"release", "unlock", "done", "dead"}
                 /\ ColdBackup(job[s]) /\ job[s].ctr = job[r].ctr

\* coldStops: the mover of a cold backup only ever reads a stopped container,
\* however many cold backups of the container overlap, fail, time out or are
\* cancelled: none sees the container a sibling run has restarted.  The count dies
\* with its process: under a mover whose process has exited or crashed the app
\* stays down only until a cold backup of the next daemon starts it.
ColdQuiescence ==
  \A r \in Running :
    /\ ColdBackup(job[r])
    /\ pc[r] = "dead" => ~ReleasedElsewhere(r)
    => ~up[job[r].ctr]

\* The count of a coldStop is the number of backups between hold and release.
\* A count that drifts stops the app for good or restarts it under a backup.
RefsCountHolders ==
  \A p \in Procs, c \in Containers :
    refs[p][c] = Cardinality({r \in RunsOf(p) : InCold(r) /\ job[r].ctr = c})

\* Per container: the cold backups between hold and release, of all processes.
ColdHolders == [c \in Containers |-> {r \in Runs : InCold(r) /\ job[r].ctr = c}]

Downtime == INSTANCE SharedDowntime WITH
              Apps <- Containers, Holders <- Runs, held <- ColdHolders

\* coldStops implements the shared downtime of SharedDowntime.tla: whatever overlaps,
\* fails, times out, is cancelled or dies, a backup joins only a downtime that has
\* begun, and the app is started only when the last one has left.
SharesDowntime == Downtime!Spec

\* The run owes its app a start: it has stopped it, or shares the stop.
OwesStart(r) == \/ InCold(r)
                \/ pc[r] = "starting"
                \/ StopRestore(job[r]) /\ pc[r] \in {"create", "start", "wait", "rstart"}

Owed(c) == \E r \in Runs : OwesStart(r) /\ job[r].ctr = c

\* The runs that may be cut off: the daemon waits for cron's on a shutdown, for
\* run-on-startup's 30 seconds, for the API's not at all; a command dies of a signal.
Unawaited(r) == Kind[owner[r]] = "daemon" => job[r].origin \in {"startup", "api"}

\* An app that is down has a run that will start it again: no error path, timeout
\* or cancellation drops the restart.  The debt is lost only in the very step that
\* cuts off an unawaited run that owes the start.
NobodyLeftStopped ==
  [][\A c \in Containers :
       (~up[c] /\ ~Owed(c))' =>
         \/ ~up[c] /\ ~Owed(c)
         \/ \E r \in Runs : /\ OwesStart(r) /\ job[r].ctr = c
                            /\ pc'[r] = "dead" /\ Unawaited(r)]_vars

\* From sourceMountsFor to the end of its mover, a backup's snapshot exists:
\* neither the deferred cleanup nor the reap of a restarted daemon destroys the
\* snapshot a mover is about to read or, left running by a shutdown, still reads.
SnapshotHeld ==
  \A r \in Runs :
    /\ job[r].op = "backup" /\ job[r].snap
    /\ mover[r] = "running" \/ pc[r] \in {"create", "start"}
    => r \in snap

\* A run that returned leaves a snapshot behind only for a mover it left running.
NoSnapshotLeak ==
  \A r \in snap : pc[r] = "done" => r \in kept

\* run.go: once a backup got as far as its mover, it runs its post-hooks before it
\* returns, whether the mover ended, failed, timed out or was cancelled.
PostHooksFollow ==
  \A r \in Runs :
    /\ pc[r] = "done" /\ mover[r] # "none"
    /\ job[r].op = "backup" /\ job[r].hooks
    => hook[r] = "post"

\* Every run that is triggered returns: no cycle of repository lock, slot and
\* cold-stop mutex, and no path that forgets to release one of them.
RunsFinish == \A r \in Runs : pc[r] = "lock" ~> pc[r] \in {"done", "dead"}

\* A stopped app is started again, unless an unawaited run that stops it was cut off.
AppsRestart ==
  \A c \in Containers :
    ~up[c] ~> \/ up[c]
              \/ \E r \in Runs : /\ job[r].stop /\ job[r].ctr = c
                                 /\ pc[r] = "dead" /\ Unawaited(r)

-----------------------------------------------------------------------------
(* What the comments say beyond that, and the code does not keep.          *)

\* daemon.go, on shutdown: "so we do not exit leaving an app stopped"; run.go:
\* "Always attempt to restart (even on mover failure or shutdown)".
ExitLeavesAppsUp ==
  \A c \in Containers :
    (\A p \in Procs : phase[p] \in {"new", "gone"}) => up[c]

=============================================================================
