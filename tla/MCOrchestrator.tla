--------------------------- MODULE MCOrchestrator ---------------------------
(***************************************************************************)
(* Instances of Orchestrator for TLC: the job sets of the runs.            *)
(***************************************************************************)
EXTENDS Orchestrator, TLC

CONSTANTS d1, d2, cli  \* processes

Backup(repo, stop, snapshot, hooks, origin) ==
  [op |-> "backup", repo |-> repo, ctr |-> "app", stop |-> stop,
   snap |-> snapshot, hooks |-> hooks, origin |-> origin]

Other(op, repo, stop, origin) ==
  [op |-> op, repo |-> repo, ctr |-> "app", stop |-> stop, snap |-> FALSE,
   hooks |-> FALSE, origin |-> origin]

OneDaemon == d1 :> "daemon"
TwoDaemons == d1 :> "daemon" @@ d2 :> "daemon"
DaemonAndBackup == d1 :> "daemon" @@ cli :> "backup"
DaemonAndCommand == d1 :> "daemon" @@ cli :> "command"

\* One app backed up cold to two targets, and live to the first with a snapshot;
\* the second target's run is the one of run-on-startup.
ColdJobs == {Backup("t1|app", TRUE, FALSE, FALSE, "cron"),
             Backup("t2|app", TRUE, TRUE, FALSE, "startup"),
             Backup("t1|app", FALSE, TRUE, FALSE, "cron")}

\* The same app with hooks, a prune and a listing through the API, and `sabon backup`
\* beside the daemon.
FaultJobs == {Backup("t1|app", TRUE, FALSE, TRUE, "cron"),
              Backup("t2|app", TRUE, TRUE, FALSE, "cron"),
              Backup("t1|app", FALSE, TRUE, TRUE, "cli"),
              Other("prune", "t1|app", FALSE, "api"),
              Other("snapshots", "t2|app", FALSE, "api")}

\* For liveness: every operation, by cron, the API and a command, competing for
\* two repositories, the only slot and the app.
LiveJobs == {Backup("t1|app", TRUE, FALSE, FALSE, "cron"),
             Backup("t2|app", TRUE, TRUE, FALSE, "startup"),
             Other("check", "t1|app", FALSE, "cron"),
             Other("prune", "t2|app", FALSE, "api"),
             Other("restore", "t1|app", TRUE, "cli"),
             Other("snapshots", "t2|app", FALSE, "cli")}

\* A cold backup and an in-place restore of the same app from another target.
RestoreJobs == {Backup("t1|app", TRUE, FALSE, FALSE, "cron"),
                Other("restore", "t2|app", TRUE, "api")}

\* A cold backup triggered through the API.
ApiJobs == {Backup("t1|app", TRUE, FALSE, FALSE, "api")}

RunSymmetry == Permutations(Runs)
=============================================================================
