----------------------------- MODULE Reconciler -----------------------------
(***************************************************************************)
(* How the set of scheduled jobs follows the labelled containers (or swarm *)
(* services) of the host:                                                  *)
(*                                                                         *)
(*   internal/engine/{docker,swarm}/discovery.go  List, resolve, Watch     *)
(*   internal/discovery/discovery.go   DropNamedCollisions, Signal         *)
(*   internal/reconcile/reconcile.go   Reconcile, plans, filterPlans, ...  *)
(*   internal/scheduler/scheduler.go   Sync                                *)
(*   internal/metrics/metrics.go       markSeen, ForgetAbsent, Observe*    *)
(*   cmd/sabon/daemon.go               the select loop                     *)
(*                                                                         *)
(* The daemon's loop, the event watcher, the cron goroutines and whoever   *)
(* edits the containers run side by side.  What a run does once it is      *)
(* started is the subject of Orchestrator.tla.                             *)
(***************************************************************************)
EXTENDS Integers, FiniteSets, SequencesExt

CONSTANTS
  Units,         \* containers or services that may appear: see Unit
  Moves,         \* pairs of units, one turning into the other in place
  Config,        \* target name -> schedules, from the targets file
  BadSchedules,  \* cron expressions AddFunc rejects
  ListFaults,    \* "list": List fails; "inspect": a backup does not resolve;
                 \* "tasks": a service's task list is unavailable
  MaxChanges     \* bound on the edits of the host

\* A backup label: name is "" for <prefix>.backup and <name> for
\* <prefix>.backup.<name>; app is the repository label.App computes; spec stands
\* for the resolved sources and the other fields of the label; targets maps the
\* selected targets to their schedule override (none selected = all targets).
IsBackup(b) == DOMAIN b = {"name", "app", "spec", "targets"}

\* task: the node of the service's running task, "" when it has none or the unit
\* is a container; pin: the node its placement constraint names, or "".
IsUnit(u) == /\ DOMAIN u = {"ctr", "task", "pin", "backups"}
             /\ u.backups \in Seq(Range(u.backups))
             /\ \A i \in DOMAIN u.backups : IsBackup(u.backups[i])

ASSUME UnitAssumption == /\ \A u \in Units : IsUnit(u)
                         /\ Moves \subseteq {m \in Units \X Units : m[1].ctr = m[2].ctr}
ASSUME BoundAssumption == /\ MaxChanges \in Nat
                          /\ ListFaults \subseteq {"list", "inspect", "tasks"}

Targets == DOMAIN Config
Apps == UNION {{u.backups[i].app : i \in DOMAIN u.backups} : u \in Units}
Labels == UNION {{<<u.ctr, u.backups[i].name>> : i \in DOMAIN u.backups} : u \in Units}
Kinds == {"backup", "check", "prune"}

VARIABLES
  world,    \* the units on the host, newest first, as ContainerList returns them
  changes,  \* edits so far
  event,    \* the event stream holds an undelivered event
  stream,   \* the watcher is subscribed
  signal,   \* the buffered channel Watch returns holds a token
  debounce, \* the debounce timer is armed
  loop,     \* where the daemon's loop is: select, list, sync, forget
  jobs,     \* the result of List, in the middle of a Reconcile
  whole,    \* that result is complete
  fresh,    \* nothing changed since the last List that was complete
  entries,  \* Scheduler.entries, with the job each entry's Run captured
  seen,     \* Metrics.seen
  run       \* a run in flight, or NoRun

vars == <<world, changes, event, stream, signal, debounce, loop, jobs, whole,
          fresh, entries, seen, run>>
watchVars == <<event, stream, signal, debounce>>
metricVars == <<seen, run>>

-----------------------------------------------------------------------------
(* Discovery.                                                              *)

\* nodeFor: the running task's node, else the placement constraint's.
nodeFor(u, tasksKnown) == IF tasksKnown /\ u.task # "" THEN u.task ELSE u.pin

resolve(u, b, tasksKnown) ==
  [ctr |-> u.ctr, name |-> b.name, app |-> b.app, spec |-> b.spec,
   targets |-> b.targets, node |-> nodeFor(u, tasksKnown)]

\* The backups of the host w, each by its position <<unit, label>>, but for those in
\* lost, which do not resolve (an inspect that fails).
LabelAt(w, x) == w[x[1]].backups[x[2]]

Resolved(w, lost) ==
  {x \in UNION {{i} \X DOMAIN w[i].backups : i \in DOMAIN w} :
     <<w[x[1]].ctr, LabelAt(w, x).name>> \notin lost}

\* Mutant: a collision is dropped only when every claim is a named one.
DropNamedCollisions_AllNamed(w, P) ==
  {x \in P : LET claims == {y \in P : LabelAt(w, y).app = LabelAt(w, x).app}
             IN  ~ /\ \A y \in claims : LabelAt(w, y).name # ""
                   /\ Cardinality(claims) > 1}

\* But for the repositories with several claims, one of them by a named backup.
DropNamedCollisions(w, P) ==
  {x \in P : LET claims == {y \in P : LabelAt(w, y).app = LabelAt(w, x).app}
             IN  ~ /\ \E y \in claims : LabelAt(w, y).name # ""
                   /\ Cardinality(claims) > 1}

\* The n-th position of P, unit by unit and label by label.
Nth(P, n) ==
  CHOOSE x \in P :
    Cardinality({y \in P : y[1] < x[1] \/ (y[1] = x[1] /\ y[2] <= x[2])}) = n

\* List with the backups in lost unresolved and the tasks of the units in blind
\* unknown.  It ends with sort.Slice by app, which for up to 12 jobs is an insertion
\* sort and keeps the order of one app's jobs; no reader of the list compares the
\* places of jobs of different apps, so they stay in the order they were found.
List(w, lost, blind) ==
  LET P == DropNamedCollisions(w, Resolved(w, lost))
      job(x) == resolve(w[x[1]], LabelAt(w, x), w[x[1]].ctr \notin blind)
  IN  [n \in 1..Cardinality(P) |-> job(Nth(P, n))]

Current == List(world, {}, {})

-----------------------------------------------------------------------------
(* Plans: a job of a list, by its index, with one of its targets.          *)

targetsFor(j) == IF DOMAIN j.targets = {} THEN Targets ELSE DOMAIN j.targets \cap Targets

Claims(js, app) == {i \in DOMAIN js : js[i].app = app}

plans(js) == UNION {{<<i, t>> : t \in targetsFor(js[i])} : i \in DOMAIN js}

scheduleOf(j, t) == IF t \in DOMAIN j.targets /\ j.targets[t] # ""
                    THEN j.targets[t] ELSE Config[t].schedule

\* The first plan of the key wins, later ones are skipped with a warning.
Winner(js, app, t) ==
  CHOOSE i \in DOMAIN js :
    LET mine == {k \in Claims(js, app) : /\ t \in targetsFor(js[k])
                                         /\ scheduleOf(js[k], t) # ""}
    IN  i \in mine /\ \A k \in mine : i <= k

\* Mutant: the fingerprint covers only the target.
jobFingerprint_TargetOnly(j, t) == <<t>>

\* Sources, Spec and Target: not Container, Node, App or Backup.
jobFingerprint(j, t) == <<j.spec, j.targets, t>>

NoJob == [ctr |-> "", name |-> "", app |-> "", spec |-> "", targets |-> <<>>, node |-> ""]

\* The jobs Reconcile passes to Sync, by key.
Keys(js) ==
  {k \in Apps \X Targets \X Kinds :
     \E pl \in plans(js) :
       /\ js[pl[1]].app = k[1] /\ pl[2] = k[2]
       /\ CASE k[3] = "backup" -> scheduleOf(js[pl[1]], k[2]) # ""
            [] k[3] = "check"  -> Config[k[2]].check # ""
            [] k[3] = "prune"  -> Config[k[2]].prune # ""}

Desired(js) ==
  [k \in Keys(js) |->
     IF k[3] = "backup"
     THEN LET j == js[Winner(js, k[1], k[2])]
          IN  [schedule |-> scheduleOf(j, k[2]), fp |-> jobFingerprint(j, k[2]), job |-> j]
     ELSE [schedule |-> IF k[3] = "check" THEN Config[k[2]].check ELSE Config[k[2]].prune,
           fp |-> <<>>, job |-> NoJob]]

\* Mutant: only the first job of an app is looked at.
filterPlans_FirstJob(js, app, t) ==
  {pl \in plans(js) : /\ app \in {"", js[pl[1]].app} /\ t \in {"", pl[2]}
                      /\ \A k \in Claims(js, js[pl[1]].app) : pl[1] <= k}

\* filterPlans: all plans that match, "" matching anything.  None, for a filter
\* that is not empty, is an error.
filterPlans(js, app, t) ==
  {pl \in plans(js) : app \in {"", js[pl[1]].app} /\ t \in {"", pl[2]}}

\* Reconciler.resolve: the targets of the first job of the app.  None is an error.
resolveApp(js, app, t) ==
  {pl \in plans(js) : /\ js[pl[1]].app = app
                      /\ \A k \in Claims(js, app) : pl[1] <= k
                      /\ t \in {"", pl[2]}}

-----------------------------------------------------------------------------
(* Scheduler.Sync.                                                         *)

\* Mutant: entries that are no longer wanted stay.
Sync_NoRemove(want) ==
  LET kept == {k \in DOMAIN entries :
                 k \in DOMAIN want =>
                   /\ want[k].schedule = entries[k].schedule
                   /\ want[k].fp = entries[k].fp}
      added == {k \in DOMAIN want \ kept : want[k].schedule \notin BadSchedules}
  IN  [k \in kept \cup added |-> IF k \in kept THEN entries[k] ELSE want[k]]

Sync(want) ==
  LET kept == {k \in DOMAIN entries \cap DOMAIN want :
                 /\ want[k].schedule = entries[k].schedule
                 /\ want[k].fp = entries[k].fp}
      added == {k \in DOMAIN want \ kept : want[k].schedule \notin BadSchedules}
  IN  [k \in kept \cup added |-> IF k \in kept THEN entries[k] ELSE want[k]]

-----------------------------------------------------------------------------
NoRun == [app |-> "", job |-> NoJob]

\* Hosts a daemon may find when it starts.
Hosts == UNION {{w \in [1..n -> Units] : \A i, j \in 1..n : i # j => w[i].ctr # w[j].ctr} :
                  n \in 0..Cardinality({u.ctr : u \in Units})}

Init ==
  /\ world \in Hosts /\ changes = 0
  /\ event = FALSE /\ stream = FALSE /\ signal = FALSE /\ debounce = FALSE
  /\ loop = "list"   \* the first Reconcile comes before Watch
  /\ jobs = <<>> /\ whole = FALSE /\ fresh = FALSE
  /\ entries = <<>>
  /\ seen = {} /\ run = NoRun

\* The host without c, of which it has at most one.
Others(c) ==
  LET I == {i \in DOMAIN world : world[i].ctr = c}
  IN  IF I = {} THEN world ELSE RemoveAt(world, CHOOSE i \in I : TRUE)

\* An edit of the host.  Only some emit an event: a container created and not
\* started, or a task that moves to another node, emits none.
Edit(w) ==
  /\ changes < MaxChanges /\ w # world
  /\ world' = w
  /\ changes' = changes + 1
  /\ event' \in {event, event \/ stream}
  /\ fresh' = FALSE
  /\ UNCHANGED <<stream, signal, debounce, loop, jobs, whole, entries, metricVars>>

\* (Re)creation, removal, and an update in place.
Create(u) == Edit(<<u>> \o Others(u.ctr))
Destroy(u) == Edit(Others(u.ctr))
Update(m) == /\ \E i \in DOMAIN world : world[i] = m[1]
             /\ Edit([i \in DOMAIN world |-> IF world[i] = m[1] THEN m[2] ELSE world[i]])

\* An event of a container that is not sabon's business, a mover's included.
Noise == /\ stream /\ ~event
         /\ event' = TRUE
         /\ UNCHANGED <<world, changes, stream, signal, debounce, loop, jobs, whole,
                        fresh, entries, metricVars>>

\* Watch: case msg := <-msgs, then a non-blocking send on the channel.
Deliver == /\ stream /\ event
           /\ event' = FALSE /\ signal' = TRUE
           /\ UNCHANGED <<world, changes, stream, debounce, loop, jobs, whole, fresh,
                          entries, metricVars>>

\* A stream error loses what the stream held and what happens before the watcher
\* has slept a second and subscribed again.
StreamBreaks == /\ stream
                /\ stream' = FALSE /\ event' = FALSE
                /\ UNCHANGED <<world, changes, signal, debounce, loop, jobs, whole,
                               fresh, entries, metricVars>>

Subscribe == /\ ~stream
             /\ stream' = TRUE
             /\ UNCHANGED <<world, changes, event, signal, debounce, loop, jobs, whole,
                            fresh, entries, metricVars>>

-----------------------------------------------------------------------------
(* The daemon's loop.                                                      *)

\* case <-changes: the debounce timer starts again.
TakeSignal == /\ loop = "select" /\ signal
              /\ signal' = FALSE /\ debounce' = TRUE
              /\ UNCHANGED <<world, changes, event, stream, loop, jobs, whole, fresh,
                             entries, metricVars>>

DebounceFires == /\ loop = "select" /\ debounce
                 /\ debounce' = FALSE /\ loop' = "list"
                 /\ UNCHANGED <<world, changes, event, stream, signal, jobs, whole, fresh,
                                entries, metricVars>>

\* Mutant: the ticker only reaps.
Tick_ReapOnly == /\ loop = "select"
                 /\ UNCHANGED vars

\* case <-ticker.C
Tick == /\ loop = "select"
        /\ loop' = "list"
        /\ UNCHANGED <<world, changes, watchVars, jobs, whole, fresh, entries, metricVars>>

\* Reconcile: List ...
ListJobs(lost, blind) ==
  /\ loop = "list"
  /\ lost # {} => "inspect" \in ListFaults
  /\ blind # {} => "tasks" \in ListFaults
  /\ jobs' = List(world, lost, blind)
  /\ whole' = (lost = {} /\ blind = {})
  /\ fresh' = TRUE
  /\ loop' = "sync"
  /\ UNCHANGED <<world, changes, watchVars, entries, metricVars>>

ListFails == /\ loop = "list" /\ "list" \in ListFaults
             /\ loop' = "select"
             /\ UNCHANGED <<world, changes, watchVars, jobs, whole, fresh, entries, metricVars>>

\* ... sched.Sync ...
SyncSchedule == /\ loop = "sync"
                /\ entries' = Sync(Desired(jobs))
                /\ loop' = "forget"
                /\ UNCHANGED <<world, changes, watchVars, jobs, whole, fresh, metricVars>>

\* Mutant: Reconcile does not call ForgetAbsent.
ForgetAbsent_Nothing == /\ loop = "forget"
                        /\ loop' = "select"
                        /\ jobs' = <<>>
                        /\ UNCHANGED <<world, changes, watchVars, whole, fresh, entries,
                                       metricVars>>

\* ... metrics.ForgetAbsent(activeApps), which only looks at the apps in seen.
ForgetAbsent == /\ loop = "forget"
                /\ seen' = seen \cap {jobs[i].app : i \in DOMAIN jobs}
                /\ loop' = "select"
                /\ jobs' = <<>>
                /\ UNCHANGED <<world, changes, watchVars, whole, fresh, entries, run>>

-----------------------------------------------------------------------------
(* Runs, and what they record.                                             *)

\* cron fires an entry; it runs the job its closure captured.
Fire(k) == /\ run = NoRun
           /\ run' = [app |-> k[1], job |-> entries[k].job]
           /\ UNCHANGED <<world, changes, watchVars, loop, jobs, whole, fresh, entries, seen>>

\* The API (Backup) and run-on-startup (RunMatching) list afresh.
StartManual(pls) ==
  /\ run = NoRun
  /\ \E pl \in pls : run' = [app |-> Current[pl[1]].app, job |-> Current[pl[1]]]
  /\ UNCHANGED <<world, changes, watchVars, loop, jobs, whole, fresh, entries, seen>>

Backup(app) == StartManual(resolveApp(Current, app, ""))
RunAll == StartManual(filterPlans(Current, "", ""))

\* Mutant: the container is marked instead of the app.
MarkSeen_Container == /\ run # NoRun
                      /\ seen' = seen \cup {run.job.ctr}
                      /\ run' = NoRun
                      /\ UNCHANGED <<world, changes, watchVars, loop, jobs, whole, fresh, entries>>

\* The run returns: ObserveBackup, ObserveCheck and ObservePrune mark the app.
MarkSeen == /\ run # NoRun
            /\ seen' = seen \cup {run.app}
            /\ run' = NoRun
            /\ UNCHANGED <<world, changes, watchVars, loop, jobs, whole, fresh, entries>>

-----------------------------------------------------------------------------
LoopStep == \/ \E lost \in SUBSET Labels, blind \in SUBSET {u.ctr : u \in Units} :
                 ListJobs(lost, blind)
            \/ SyncSchedule \/ ForgetAbsent

Next == \/ \E u \in Units : Create(u) \/ Destroy(u)
        \/ \E m \in Moves : Update(m)
        \/ Noise \/ Deliver \/ StreamBreaks \/ Subscribe
        \/ TakeSignal \/ DebounceFires \/ Tick \/ LoopStep \/ ListFails
        \/ \E k \in DOMAIN entries : Fire(k)
        \/ \E a \in Apps : Backup(a)
        \/ RunAll \/ MarkSeen

Spec == Init /\ [][Next]_vars

\* The loop is one goroutine that is never blocked; its ticker fires again and
\* again, and select picks among the ready cases at random.  Docker answers some
\* List of infinitely many, and one day every answer is complete; runs end.  Nothing
\* is assumed of the event stream, nor of the debounce timer, which a stream of events
\* restarts for ever.
LiveSpec == /\ Spec
            /\ SF_vars(LoopStep) /\ SF_vars(Tick) /\ WF_vars(MarkSeen)
            /\ <>[][loop = "list" /\ loop' = "sync" => whole']_vars

-----------------------------------------------------------------------------
\* The schedule and the metrics are about apps and targets there are, the loop and
\* the run are at one of their steps.
TypeOK ==
  /\ world \in Seq(Units) /\ changes \in 0..MaxChanges
  /\ {event, stream, signal, debounce, whole, fresh} \subseteq BOOLEAN
  /\ loop \in {"select", "list", "sync", "forget"}
  /\ \A i \in DOMAIN jobs : DOMAIN jobs[i] = DOMAIN NoJob
  /\ DOMAIN entries \subseteq Apps \X Targets \X Kinds
  /\ seen \subseteq Apps
  /\ run.app \in Apps \cup {""}

\* A Reconcile has listed the host as it is now, completely, and is over.
Settled == loop = "select" /\ fresh /\ whole

\* The schedule matches the jobs: the keys of the valid desired jobs, each
\* registered with the schedule and fingerprint it has now.
Matches ==
  LET want == Desired(Current) IN
  /\ DOMAIN entries = {k \in DOMAIN want : want[k].schedule \notin BadSchedules}
  /\ \A k \in DOMAIN entries : /\ entries[k].schedule = want[k].schedule
                               /\ entries[k].fp = want[k].fp

\* Sync "makes the active schedule set exactly match desired", however entries
\* were added, changed and removed before.
ScheduleMatches == Settled => Matches

\* What an entry backs up is what the label says now: a change of sources or spec
\* replaces the job the closure captured.
EntriesRunCurrentSpec ==
  Settled => \A k \in DOMAIN entries :
    entries[k].job.spec = Desired(Current)[k].job.spec

\* docs/labels.md: "a named spec must own its repository", else sabon "backs up
\* none of them".  Counted over the labels of the host, not over what List kept.
CollisionsUnscheduled ==
  Settled =>
    \A k \in DOMAIN entries :
      k[3] = "backup" =>
        LET claims == {c \in UNION {{i} \X DOMAIN world[i].backups : i \in DOMAIN world} :
                         world[c[1]].backups[c[2]].app = k[1]}
        IN  (\E c \in claims : world[c[1]].backups[c[2]].name # "")
              => Cardinality(claims) = 1

\* Whatever is scheduled can be run by hand: `sabon backup --app --target` finds
\* every pair the schedule has.
CliReachesSchedule ==
  Settled => \A k \in DOMAIN entries :
    filterPlans(Current, k[1], k[2]) # {}

\* Once the host stays as it is, the schedule matches it for good, although events
\* are lost with the stream, restart the debounce timer for ever, or never come:
\* docs/architecture.md: a full re-list "catches missed events and restarts".
Converges == <>[]Matches

\* Apps that are gone do not stay in the metrics' book-keeping.
SeenDrains == <>[](seen \subseteq {Current[i].app : i \in DOMAIN Current})

-----------------------------------------------------------------------------
(* What a comment says and the code does not keep.                         *)

\* reconcile.go: the fingerprint "captures the parts of a backup job that drive
\* its execution ..., so a change re-registers the scheduled run".
EntriesRunCurrentJob ==
  Settled => \A k \in DOMAIN entries : entries[k].job = Desired(Current)[k].job

=============================================================================
