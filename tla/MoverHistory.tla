---------------------------- MODULE MoverHistory ----------------------------
(***************************************************************************)
(* The life of a mover container (internal/mover/runner.go) or mover       *)
(* service (internal/engine/swarm/engine.go): the run that creates it,     *)
(* waits for it and reads its logs, and the reaps that trim the movers to  *)
(* SABON_MOVER_HISTORY per app, target and action, which run beside it.    *)
(*                                                                         *)
(* A reap reads the state of the movers first and removes afterwards.  The *)
(* exited movers are the run history that ListRuns serves.  Runs of one    *)
(* repository exclude each other (Orchestrator.tla); here that is a guard. *)
(*                                                                         *)
(* A hook in run mode is a one-shot of the same kind (docker/hook.go,      *)
(* swarm/hook.go): it runs under the repository's lock, before or after    *)
(* the mover, is never retained, and has a reap of its own.                *)
(***************************************************************************)
EXTENDS Integers, FiniteSets

CONSTANTS
  Engines,    \* of "docker" and "swarm"
  Keep,       \* SABON_MOVER_HISTORY
  Kinds,      \* repo, action ("" for the ephemeral snapshots mover, or "hook"), keep
              \* (KeepOnShutdown: a backup that is not cold)
  Reapers,    \* the daemon's loop and `sabon backup` processes
  Faults,     \* "start", "wait", "remove": that call may fail; "tasks": a reap
              \* cannot list a service's tasks; "cancel": contexts end
  MaxMovers,  \* bound on the movers created
  MaxCrashes  \* bound on the crashes

Actions == {"backup", "check", "prune", "restore", "", "hook"}

ASSUME KindAssumption == /\ Engines \subseteq {"docker", "swarm"} /\ Keep \in Nat
                         /\ Kinds # {}
                         /\ \A k \in Kinds : /\ DOMAIN k = {"repo", "action", "keep"}
                                             /\ k.action \in Actions
                                             /\ k.keep => k.action = "backup"
ASSUME BoundAssumption == MaxMovers \in Nat /\ MaxCrashes \in Nat

Movers == 1..MaxMovers   \* in the order of their creation

VARIABLES
  engine,   \* the runtime sabon is configured for
  made,     \* number of movers created
  kind,     \* per mover
  st,       \* none, created (swarm: no task yet), running, exited, gone
  run,      \* who created it: none, start, wait, logs, returned, dead
  finished, \* retained movers that ended and were left to the history
  reaper,   \* per reaper: where it is, and what it has found so far
  crashes

vars == <<engine, made, kind, st, run, finished, reaper, crashes>>

Retain(m) == kind[m].action \notin {"", "hook"}
Hook(m) == kind[m].action = "hook"
Active(m) == run[m] \in {"start", "wait", "logs"}
Group(m) == <<kind[m].repo, kind[m].action>>

\* Orchestrator.Reap: the engine's movers, then the hooks.
Idle == [of |-> "movers", todo |-> {}, found |-> {}, doomed |-> {}]

\* The types of the movers, their runs and the reapers.
TypeOK ==
  /\ engine \in Engines /\ made \in 0..MaxMovers /\ crashes \in 0..MaxCrashes
  /\ kind \in [Movers -> Kinds]
  /\ st \in [Movers -> {"none", "created", "running", "exited", "gone"}]
  /\ run \in [Movers -> {"none", "start", "wait", "logs", "returned", "dead"}]
  /\ finished \subseteq Movers
  /\ reaper \in [Reapers -> [of: {"movers", "hooks"}, todo: SUBSET Movers,
                             found: SUBSET Movers, doomed: SUBSET Movers]]

Init ==
  /\ engine \in Engines /\ made = 0 /\ crashes = 0 /\ finished = {}
  /\ kind = [m \in Movers |-> CHOOSE k \in Kinds : TRUE]
  /\ st = [m \in Movers |-> "none"]
  /\ run = [m \in Movers |-> "none"]
  /\ reaper = [p \in Reapers |-> Idle]

-----------------------------------------------------------------------------
(* The run: Runner.Run and Engine.RunMover.                                *)

SetRun(m, l) == run' = [run EXCEPT ![m] = l]
SetSt(m, s) == st' = [st EXCEPT ![m] = s]

\* The deferred removal; its error is ignored.
Removed(m) == \/ SetSt(m, "gone")
              \/ "remove" \in Faults /\ UNCHANGED st

\* ContainerCreate or ServiceCreate, with the repository locked.
Create(k) ==
  /\ made < MaxMovers
  /\ \A m \in Movers : Active(m) => kind[m].repo # k.repo
  /\ made' = made + 1
  /\ kind' = [kind EXCEPT ![made'] = k]
  /\ SetSt(made', "created")
  /\ SetRun(made', IF engine = "docker" THEN "start" ELSE "wait")
  /\ UNCHANGED <<engine, finished, reaper, crashes>>

\* ContainerStart.
Start(m) ==
  /\ run[m] = "start"
  /\ \/ st[m] = "created" /\ SetSt(m, "running") /\ SetRun(m, "wait")
     \/ (st[m] = "gone" \/ "start" \in Faults) /\ Removed(m) /\ SetRun(m, "returned")
  /\ UNCHANGED <<engine, made, kind, finished, reaper, crashes>>

\* The swarm creates the task of the job.
TaskStarts(m) ==
  /\ engine = "swarm" /\ st[m] = "created"
  /\ SetSt(m, "running")
  /\ UNCHANGED <<engine, made, kind, run, finished, reaper, crashes>>

\* restic ends; a mover nobody waits for is history from now on.
Ends(m) ==
  /\ st[m] = "running"
  /\ SetSt(m, "exited")
  /\ finished' = IF Retain(m) /\ ~Active(m) THEN finished \cup {m} ELSE finished
  /\ UNCHANGED <<engine, made, kind, run, reaper, crashes>>

\* The exit status arrives, or a task is seen in a terminal state.
WaitStatus(m) ==
  /\ run[m] = "wait" /\ st[m] = "exited"
  /\ SetRun(m, "logs")
  /\ UNCHANGED <<engine, made, kind, st, finished, reaper, crashes>>

\* Mutant: the history records the exit code instead of the mover.
ReadLogs_Code(m) ==
  /\ run[m] = "logs"
  /\ SetRun(m, "returned")
  /\ \/ Retain(m) /\ UNCHANGED st
     \/ ~Retain(m) /\ Removed(m)
  /\ finished' = IF Retain(m) THEN finished \cup {0} ELSE finished
  /\ UNCHANGED <<engine, made, kind, reaper, crashes>>

\* The logs are read and the run returns; a retained mover stays.
ReadLogs(m) ==
  /\ run[m] = "logs"
  /\ SetRun(m, "returned")
  /\ \/ Retain(m) /\ UNCHANGED st
     \/ ~Retain(m) /\ Removed(m)
  /\ finished' = IF Retain(m) THEN finished \cup {m} ELSE finished
  /\ UNCHANGED <<engine, made, kind, reaper, crashes>>

\* Mutant: the wait for a removed container goes on, as it does for a service.
WaitGone_Unnoticed(m) ==
  /\ engine = "docker" /\ run[m] = "wait" /\ st[m] = "gone"
  /\ UNCHANGED vars

\* ContainerWait ends when the container is removed.  The swarm engine asks for the
\* tasks of its service again and again and ignores errors: it does not notice.
WaitGone(m) ==
  /\ engine = "docker" /\ run[m] = "wait" /\ st[m] = "gone"
  /\ SetRun(m, "returned")
  /\ UNCHANGED <<engine, made, kind, st, finished, reaper, crashes>>

\* case err := <-errCh
WaitError(m) ==
  /\ engine = "docker" /\ "wait" \in Faults /\ run[m] = "wait"
  /\ SetRun(m, "returned") /\ Removed(m)
  /\ UNCHANGED <<engine, made, kind, finished, reaper, crashes>>

\* case <-ctx.Done(): a shutdown leaves a warm backup's mover alone; a deadline does
\* not, and neither does any other mode.
WaitCancelled(m) ==
  /\ "cancel" \in Faults /\ run[m] = "wait"
  /\ SetRun(m, "returned")
  /\ \/ /\ kind[m].keep /\ UNCHANGED st
        /\ finished' = IF st[m] = "exited" THEN finished \cup {m} ELSE finished
     \/ Removed(m) /\ UNCHANGED finished
  /\ UNCHANGED <<engine, made, kind, reaper, crashes>>

\* The processes are killed; the movers go on.
Crash ==
  /\ crashes < MaxCrashes
  /\ crashes' = crashes + 1
  /\ run' = [m \in Movers |-> IF Active(m) THEN "dead" ELSE run[m]]
  /\ finished' = finished \cup {m \in Movers : Active(m) /\ Retain(m) /\ st[m] = "exited"}
  /\ reaper' = [p \in Reapers |-> Idle]
  /\ UNCHANGED <<engine, made, kind, st>>

-----------------------------------------------------------------------------
(* Reap.                                                                   *)

\* Not running: a container that was created and not started, or a service without
\* a task, counts as much as an exited one; but a hook container must have exited.
NotRunning(m) == \/ st[m] = "exited"
                 \/ st[m] = "created" /\ ~(Hook(m) /\ engine = "docker")

\* Mutant: the oldest are kept.
Doomed_Oldest(found) ==
  {m \in found : Retain(m) => Cardinality({n \in found : n < m /\ Group(n) = Group(m)}) >= Keep}

\* Mutant: groups are by repository only.
Doomed_ByRepo(found) ==
  {m \in found : Retain(m) =>
     Cardinality({n \in found : n > m /\ kind[n].repo = kind[m].repo}) >= Keep}

\* Mutant: one too many is kept.
Doomed_OneMore(found) ==
  {m \in found : Retain(m) => Cardinality({n \in found : n > m /\ Group(n) = Group(m)}) > Keep}

\* Of the movers found not running: the strays, and all but the newest Keep of each
\* group.
Doomed(found) ==
  {m \in found : Retain(m) => Cardinality({n \in found : n > m /\ Group(n) = Group(m)}) >= Keep}

\* ContainerList or ServiceList, by the label of movers or of hooks.
Listed(of) == {m \in Movers : st[m] \notin {"none", "gone"} /\ (Hook(m) <=> of = "hooks")}

\* When every one has been looked at the strays and the groups are known; a reap with
\* nothing more to remove is over.
Settled(r) ==
  LET known == IF r.todo # {} THEN r
               ELSE [r EXCEPT !.found = {}, !.doomed = @ \cup Doomed(r.found)]
  IN  IF known.todo \cup known.doomed # {} THEN known
      ELSE [Idle EXCEPT !.of = IF r.of = "movers" THEN "hooks" ELSE "movers"]

SetReaper(p, r) == reaper' = [reaper EXCEPT ![p] = Settled(r)]

\* ContainerList also says which of them run; ServiceList does not.
ReapList(p) ==
  LET listed == Listed(reaper[p].of)
  IN  /\ reaper[p].todo \cup reaper[p].doomed = {}
      /\ SetReaper(p, IF engine = "docker"
                      THEN [reaper[p] EXCEPT !.found = {m \in listed : NotRunning(m)}]
                      ELSE [reaper[p] EXCEPT !.todo = listed])
      /\ UNCHANGED <<engine, made, kind, st, run, finished, crashes>>

\* serviceRunning (Hooks.running), for one service.
ReapLook(p, m) ==
  /\ m \in reaper[p].todo
  /\ SetReaper(p, [reaper[p] EXCEPT !.todo = @ \ {m},
                                    !.found = @ \cup {n \in {m} : NotRunning(n)}])
  /\ UNCHANGED <<engine, made, kind, st, run, finished, crashes>>

\* An error means that it runs.
ReapLookFails(p, m) ==
  /\ m \in reaper[p].todo /\ "tasks" \in Faults
  /\ SetReaper(p, [reaper[p] EXCEPT !.todo = @ \ {m}])
  /\ UNCHANGED <<engine, made, kind, st, run, finished, crashes>>

\* A removal by force; its error is ignored.
ReapRemove(p, m) ==
  /\ m \in reaper[p].doomed
  /\ SetReaper(p, [reaper[p] EXCEPT !.doomed = @ \ {m}])
  /\ Removed(m)
  /\ UNCHANGED <<engine, made, kind, run, finished, crashes>>

-----------------------------------------------------------------------------
RunStep(m) == Start(m) \/ WaitStatus(m) \/ ReadLogs(m) \/ WaitGone(m)

ReapStep(p) == \/ ReapList(p)
               \/ \E m \in Movers : ReapLook(p, m) \/ ReapLookFails(p, m) \/ ReapRemove(p, m)

MoverStep(m) == TaskStarts(m) \/ Ends(m)

Next == \/ \E k \in Kinds : Create(k)
        \/ \E m \in Movers : RunStep(m) \/ MoverStep(m) \/ WaitError(m) \/ WaitCancelled(m)
        \/ \E p \in Reapers : ReapStep(p)
        \/ Crash

Spec == Init /\ [][Next]_vars

\* A reap misses a mover, or cannot remove it, because a call fails.
ReapFails ==
  \E p \in Reapers, m \in Movers :
    \/ ReapLookFails(p, m) /\ NotRunning(m)
    \/ ReapRemove(p, m) /\ st'[m] # "gone"

\* A goroutine that can go on does; the swarm starts tasks and restic ends; the
\* ticker makes the daemon reap again and again, and one day the calls of a reap
\* succeed.  No cancellation and no other failure is required to happen or not to.
LiveSpec == /\ Spec
            /\ \A m \in Movers : WF_vars(RunStep(m)) /\ WF_vars(MoverStep(m))
            /\ \A p \in Reapers : WF_vars(ReapStep(p))
            /\ <>[][~ReapFails]_vars

-----------------------------------------------------------------------------
\* No reap takes a retained mover away from the run that still waits for it or is
\* about to read its result: runner.go, "Running movers are always spared", although
\* a reap acts on states it read earlier and looks at one service after the other.  Nor
\* does it take a hook's container (docker/hook.go, "Running ones are left alone")
\* before it has run.
OwnMoverKept ==
  \A m \in Movers : \/ Active(m) /\ Retain(m)
                    \/ Hook(m) /\ engine = "docker" /\ run[m] = "start"
                    => st[m] # "gone"

\* A finished run leaves the history only when Keep newer runs of the same app,
\* target and action took its place, however reaps, runs and crashes interleave.
DroppedOnlyForNewer ==
  \A m \in finished :
    st[m] = "gone" => Cardinality({n \in 1..made : n > m /\ Group(n) = Group(m)}) >= Keep

\* Every run of a retained mover gets to its end, and on the standalone engine that
\* of an ephemeral one and of a hook too, which a reap may have removed under it.
RunsReturn ==
  \A m \in Movers : Active(m) /\ (Retain(m) \/ engine = "docker") ~> ~Active(m)

\* The movers left behind are cleaned up: in the end no stray and at most Keep
\* movers of a group exist.
Trimmed ==
  <>[](\A m \in Movers :
         st[m] = "exited" => /\ Retain(m)
                             /\ Cardinality({n \in Movers : /\ st[n] = "exited"
                                                            /\ Group(n) = Group(m)}) <= Keep)

=============================================================================
