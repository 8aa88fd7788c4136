---------------------------- MODULE ZfsSnapshots ----------------------------
(***************************************************************************)
(* Source snapshots: the auto and zfs modes of sourceMountsFor             *)
(* (internal/backup/snapshots.go) and the ZFS provider                     *)
(* (internal/snapshot/providers/zfs): Resolve, Snapshot, its cleanup, and  *)
(* the Reap of a starting process.                                         *)
(*                                                                         *)
(* Every zfs command runs in a container of its own (runner.go): create,   *)
(* start, wait, read the logs, remove.  The reap of another process, of    *)
(* this or of another instance, removes such a container when it finds it  *)
(* not running.  A process runs one backup; snapshots, movers and the      *)
(* containers of a process that died stay.                                 *)
(*                                                                         *)
(* A path is the sequence of its components, a name the sequence of its    *)
(* parts between dashes (snapshots, instances) or slashes (datasets).      *)
(***************************************************************************)
EXTENDS Integers, Sequences, FiniteSets, SequencesExt

CONSTANTS
  Procs,      \* sabon processes
  Instance,   \* the SABON_INSTANCE of each, sanitized
  App,        \* the app each backs up, sanitized
  Configured, \* processes whose SABON_SNAPSHOT is neither "" nor "none"
  Mode,       \* the snapshot mode of each process' backup: none, zfs, auto
  Sources,    \* per process, a sequence of [path, foreign]: what its backup reads
  Datasets,   \* sequence of [name, mount]: what `zfs list` prints
  None,       \* no mountpoint, no dataset
  MaxWrites,  \* bound on the app's writes
  MaxFaults   \* bound on cancellations, deaths and calls that fail by themselves

Path == Seq(STRING)

ASSUME ConfigAssumption == /\ IsFiniteSet(Procs)
                           /\ Instance \in [Procs -> Seq(STRING)]
                           /\ App \in [Procs -> Seq(STRING)]
                           /\ Configured \subseteq Procs
                           /\ Mode \in [Procs -> {"none", "zfs", "auto"}]
                           /\ MaxWrites \in Nat /\ MaxFaults \in Nat

\* A dataset is mounted on an absolute path or has no mountpoint.
ASSUME DatasetAssumption ==
  /\ \A p \in Procs : Sources[p] \in Seq([path: Path, foreign: BOOLEAN])
  /\ Datasets \in Seq([name: Seq(STRING), mount: {None} \cup Path])
  /\ None \notin Path \cup Range(Datasets) \cup {d.name : d \in Range(Datasets)}

VARIABLES
  pc,        \* per process: its next call
  todo,      \* the arguments of the zfs calls its loop has still to make
  call,      \* the container of its current zfs call
  cmd,       \* the command of that container: [do, args]
  cancelled, \* processes whose context is done
  claimed,   \* per process: the sources it reads from a snapshot, and how many lines
             \* of the list of datasets it found them in
  inUse,     \* per process: whose movers its reap saw running
  doomed,    \* per process: whose containers its reap is about to remove
  snaps,     \* the ZFS snapshots on the host
  mover,     \* processes whose mover runs
  kept,      \* processes that left their mover running
  faults,    \* faults so far
  writes,    \* writes of the app so far
  at,        \* per process: what it has taken, and after how many writes
  failed,    \* history: per process, the snapshots of calls that returned an error
  blind,     \* history: listings that failed or did not arrive whole
  loose,     \* history: processes whose running mover could not be removed
  orphans    \* history: per process, the orphans when it started

procVars == <<pc, todo, call, cmd, claimed, inUse, doomed>>
hostVars == <<snaps, mover, writes, at>>
history == <<failed, blind, loose, orphans>>
vars == <<procVars, cancelled, kept, faults, hostVars, history>>

-----------------------------------------------------------------------------
(* Names and datasets.                                                     *)

\* The snapshots a process takes are named "sabon-<instance>-<app>-<time>".
SnapName(p) == <<"sabon">> \o Instance[p] \o App[p] \o <<"time">>

\* ownsSnapshot: the name starts with "sabon-<instance>-".
Owns(p, s) == IsStrictPrefix(<<"sabon">> \o Instance[p], SnapName(s.by))

\* Mutant: the first dataset above the path, not the innermost.
DatasetFor_First(path, n) ==
  LET above == {i \in 1..n : Datasets[i].mount # None /\ IsPrefix(Datasets[i].mount, path)}
  IN  IF above = {} THEN None
      ELSE Datasets[CHOOSE i \in above : \A k \in above : i <= k]

\* datasetFor, over the datasets parseDatasets keeps of the first n lines: the longest
\* mountpoint above the path, the first one listed among equals.
DatasetFor(path, n) ==
  LET above == {i \in 1..n : Datasets[i].mount # None /\ IsPrefix(Datasets[i].mount, path)}
      Depth(i) == Len(Datasets[i].mount)
  IN  IF above = {} THEN None
      ELSE Datasets[CHOOSE i \in above : \A k \in above :
                      Depth(k) < Depth(i) \/ (Depth(k) = Depth(i) /\ i <= k)]

OnZfs(src, n) == DatasetFor(src.path, n) # None

\* autoMounts: foreign-backed volumes are never offered to a provider.
Snapshottable(p, n) ==
  {i \in DOMAIN Sources[p] : ~Sources[p][i].foreign /\ OnZfs(Sources[p][i], n)}

NoClaim == [src |-> {}, lines |-> 0]

\* Mutant: the mountpoint in place of the dataset's name.
Mount_Mountpoint(p, i) ==
  LET path == Sources[p][i].path  d == DatasetFor(path, claimed[p].lines)
  IN  IF i \notin claimed[p].src THEN [ds |-> None, sub |-> path]
      ELSE [ds |-> d.mount, sub |-> SubSeq(path, Len(d.mount) + 1, Len(path))]

\* readPath: where the mover of p finds source i, and below which dataset.
Mount(p, i) ==
  LET path == Sources[p][i].path  d == DatasetFor(path, claimed[p].lines)
  IN  IF i \notin claimed[p].src THEN [ds |-> None, sub |-> path]
      ELSE [ds |-> d.name, sub |-> SubSeq(path, Len(d.mount) + 1, Len(path))]

\* snapNames: one snapshot per dataset.
Names(p) == {[ds |-> Mount(p, i).ds, by |-> p] : i \in claimed[p].src}

Pool(s) == Head(s.ds)

\* Mutant: one call per dataset.
GroupByPool_PerDataset(names) == SetToSeq({{s} : s \in names})

\* groupByPool: one call per pool.
GroupByPool(names) ==
  SetToSeq({{s \in names : Pool(s) = Pool(t)} : t \in names})

\* The loops that destroy, one call per snapshot.
OneByOne(names) == SetToSeq({{s} : s \in names})

-----------------------------------------------------------------------------
\* The labels at which a process is inside a zfs call.
CallPc == {"reaplist", "sweep", "resolve", "list", "snap", "rollback", "cleanup"}

Pc == CallPc \cup {"new", "reap", "idle", "mount", "mover", "done", "gone"}

SnapType == [ds: {Datasets[i].name : i \in DOMAIN Datasets}, by: Procs]

\* The types of the processes, the host and the history.
TypeOK ==
  /\ pc \in [Procs -> Pc]
  /\ \A p \in Procs : \A i \in DOMAIN todo[p] : todo[p][i] \subseteq SnapType
  /\ cmd \in [Procs -> [do: {"list", "snapshot", "destroy"}, args: SUBSET SnapType]]
  /\ call \in [Procs -> {"none", "created", "running", "exited", "reaped", "vanished"}]
  /\ cancelled \subseteq Procs /\ mover \subseteq Procs /\ kept \subseteq Procs
  /\ claimed \in [Procs -> [src: SUBSET Nat, lines: 0..Len(Datasets)]]
  /\ \A p \in Procs : claimed[p].src \subseteq DOMAIN Sources[p]
  /\ inUse \in [Procs -> SUBSET Procs] /\ doomed \in [Procs -> SUBSET Procs]
  /\ faults \in 0..MaxFaults
  /\ snaps \subseteq SnapType /\ writes \in 0..MaxWrites
  /\ at \in [Procs -> SUBSET (SnapType \X (0..MaxWrites))]
  /\ failed \in [Procs -> SUBSET SnapType]
  /\ blind \in [Procs -> SUBSET {"reap", "reaplist", "resolve", "list"}]
  /\ loose \subseteq mover
  /\ orphans \in [Procs -> SUBSET SnapType]

NoCmd == [do |-> "list", args |-> {}]

Init ==
  /\ cmd = [p \in Procs |-> NoCmd]
  /\ pc = [p \in Procs |-> "new"]
  /\ todo = [p \in Procs |-> <<>>] /\ call = [p \in Procs |-> "none"]
  /\ cancelled = {} /\ mover = {} /\ kept = {} /\ loose = {} /\ snaps = {} /\ writes = 0
  /\ faults = 0
  /\ claimed = [p \in Procs |-> NoClaim] /\ inUse = [p \in Procs |-> {}]
  /\ doomed = [p \in Procs |-> {}] /\ at = [p \in Procs |-> {}]
  /\ failed = [p \in Procs |-> {}] /\ blind = [p \in Procs |-> {}]
  /\ orphans = [p \in Procs |-> {}]

Alive(p) == pc[p] \notin {"new", "gone"}
Fault == faults < MaxFaults /\ faults' = faults + 1
Goto(p, l) == pc' = [pc EXCEPT ![p] = l]

\* A loop over zfs calls: the next round, or what follows it.
Loop(p, l, args, after) ==
  /\ todo' = [todo EXCEPT ![p] = args]
  /\ Goto(p, IF args = <<>> THEN after ELSE l)

-----------------------------------------------------------------------------
(* Processes.                                                              *)

\* The processes of an instance are a daemon and its successors; a `sabon backup`
\* beside the daemon is in Orchestrator.tla.
Begins(p) ==
  /\ pc[p] = "new"
  /\ \A q \in Procs : Alive(q) => Instance[q] # Instance[p]
  /\ orphans' = [orphans EXCEPT ![p] =
       {s \in snaps : Owns(p, s) /\ ~Alive(s.by) /\ s.by \notin mover}]

\* ReapSnapshotter: RunningMoverBinds, and the containers runner.reap lists; the
\* path of a bind names the snapshot.
Start(p) ==
  /\ Begins(p) /\ p \in Configured
  /\ inUse' = [inUse EXCEPT ![p] = mover]
  /\ doomed' = [doomed EXCEPT ![p] = {q \in Procs : call[q] \in {"created", "exited"}}]
  /\ Goto(p, "reap")
  /\ UNCHANGED <<todo, call, cmd, cancelled, claimed, kept, faults, hostVars, failed, blind,
                 loose>>

\* ReapSnapshotter returns without a reap: no snapshot mode is configured, or the list
\* of movers, an inspect of one or the list of containers fails.  The error is logged.
StartUnreaped(p) ==
  /\ Begins(p)
  /\ IF p \in Configured THEN Fault ELSE UNCHANGED faults
  /\ blind' = [blind EXCEPT ![p] = {"reap"}]
  /\ Goto(p, "idle")
  /\ UNCHANGED <<todo, call, cmd, cancelled, claimed, inUse, doomed, kept, hostVars, failed,
                 loose>>

\* runner.reap: ContainerRemove(Force), whatever the container does by now.
ReapContainer(p) ==
  /\ Alive(p) /\ pc[p] = "reap"
  /\ \E q \in doomed[p] :
       /\ call' = [call EXCEPT ![q] = IF @ = "exited" THEN "vanished" ELSE "reaped"]
       /\ doomed' = [r \in Procs |-> doomed[r] \ {q}]
  /\ UNCHANGED <<pc, todo, cmd, cancelled, claimed, inUse, kept, faults, hostVars, history>>

ReapContainersDone(p) ==
  /\ Alive(p) /\ pc[p] = "reap" /\ doomed[p] = {}
  /\ Goto(p, "reaplist")
  /\ UNCHANGED <<todo, call, cmd, cancelled, claimed, inUse, doomed, kept, faults, hostVars,
                 history>>

\* A signal or the deadline of the backup, where something asks for it.
Cancel(p) ==
  /\ Alive(p) /\ p \notin cancelled /\ pc[p] \in CallPc \cup {"mount", "mover"}
  /\ Fault
  /\ cancelled' = cancelled \cup {p}
  /\ UNCHANGED <<procVars, kept, hostVars, history>>

\* The process returns, or dies at any point, and its memory with it; its container
\* and its mover go on.
End(p) ==
  LET Forget(f, v) == [f EXCEPT ![p] = v]
      Unread(f, v) == IF p \in mover THEN f ELSE Forget(f, v)
  IN  /\ Alive(p)
      /\ IF pc[p] = "done" THEN UNCHANGED faults ELSE Fault
      /\ Goto(p, "gone")
      /\ todo' = Forget(todo, <<>>) /\ cancelled' = cancelled \ {p}
      /\ inUse' = Forget(inUse, {}) /\ doomed' = Forget(doomed, {})
      /\ failed' = Forget(failed, {}) /\ orphans' = Forget(orphans, {})
      /\ claimed' = Unread(claimed, NoClaim)
      /\ at' = Unread(at, {}) /\ blind' = Unread(blind, {})
      /\ UNCHANGED <<call, cmd, kept, snaps, mover, writes, loose>>

\* The app writes to its volumes; only a write between two snapshots is of interest.
Write == /\ writes < MaxWrites /\ \E p \in Procs : pc[p] = "snap"
         /\ writes' = writes + 1
         /\ UNCHANGED <<procVars, cancelled, kept, faults, snaps, mover, at, history>>

-----------------------------------------------------------------------------
(* dockerRunner.run.                                                       *)

\* The rollback and the cleanup run on a context without cancel.
Live(p) == p \notin cancelled \/ pc[p] \in {"rollback", "cleanup"}

CallCreate(p) ==
  /\ Alive(p) /\ pc[p] \in CallPc /\ call[p] = "none" /\ Live(p)
  /\ call' = [call EXCEPT ![p] = "created"]
  /\ cmd' = [cmd EXCEPT ![p] =
       CASE pc[p] = "snap" -> [do |-> "snapshot", args |-> Head(todo[p])]
         [] pc[p] \in {"sweep", "rollback", "cleanup"} ->
              [do |-> "destroy", args |-> Head(todo[p])]
         [] OTHER -> NoCmd]
  /\ UNCHANGED <<pc, todo, cancelled, claimed, inUse, doomed, kept, faults, hostVars, history>>

CallStart(p) ==
  /\ Alive(p) /\ call[p] = "created" /\ Live(p)
  /\ call' = [call EXCEPT ![p] = "running"]
  /\ UNCHANGED <<pc, todo, cmd, cancelled, claimed, inUse, doomed, kept, faults, hostVars, history>>

\* The host's zfs does its work and the container exits, process or not.
CallRuns(p) ==
  /\ call[p] = "running"
  /\ call' = [call EXCEPT ![p] = "exited"]
  /\ CASE cmd[p].do = "snapshot" ->
            /\ snaps' = snaps \cup cmd[p].args
            /\ at' = [at EXCEPT ![p] = @ \cup (cmd[p].args \X {writes})]
       [] cmd[p].do = "destroy" -> snaps' = snaps \ cmd[p].args /\ UNCHANGED at
       [] OTHER -> UNCHANGED <<snaps, at>>
  /\ UNCHANGED <<pc, todo, cmd, cancelled, claimed, inUse, doomed, kept, faults, mover, writes,
                 history>>

\* The deferred ContainerRemove, on every return.
CallEnds(p) == /\ call' = [call EXCEPT ![p] = "none"]
               /\ cmd' = [cmd EXCEPT ![p] = NoCmd]
               /\ doomed' = [q \in Procs |-> doomed[q] \ {p}]

\* What follows a call that succeeded, by label.  seen is FALSE when the logs could
\* not be read to their end: run then returns what it has, perhaps nothing, and no
\* error.  A frame of the log is a line: the output is cut between two lines.
Sweeps(p, seen) ==
  LET own == {s \in snaps : Owns(p, s) /\ s.by \notin inUse[p]}
  IN  /\ pc[p] = "reaplist"
      /\ \E S \in (IF seen THEN {own} ELSE SUBSET own) : Loop(p, "sweep", OneByOne(S), "idle")
      /\ UNCHANGED claimed

Lines(seen) == IF seen THEN {Len(Datasets)} ELSE 0..Len(Datasets)

\* autoMounts: if nothing is claimed, everything is mounted live.
Resolves(p, seen) ==
  /\ pc[p] = "resolve"
  /\ \E n \in Lines(seen) : claimed' = [claimed EXCEPT ![p].src = Snapshottable(p, n)]
  /\ Goto(p, IF claimed'[p].src = {} THEN "mount" ELSE "list")
  /\ UNCHANGED todo

\* Snapshot lists the datasets again.  A source that is on none of them is an error
\* before the first snapshot.
Groups(p, seen) ==
  /\ pc[p] = "list"
  /\ \E n \in Lines(seen) :
       IF \A i \in claimed[p].src : OnZfs(Sources[p][i], n)
       THEN /\ claimed' = [claimed EXCEPT ![p].lines = n]
            /\ Loop(p, "snap", GroupByPool(Names(p)'), "mount")
       ELSE Goto(p, "done") /\ UNCHANGED <<todo, claimed>>

Snaps(p) == /\ pc[p] = "snap"
            /\ Loop(p, "snap", Tail(todo[p]), "mount")
            /\ UNCHANGED claimed

Destroys(p) == /\ \/ pc[p] = "sweep" /\ Loop(p, "sweep", Tail(todo[p]), "idle")
                  \/ /\ pc[p] \in {"rollback", "cleanup"}
                     /\ Loop(p, pc[p], Tail(todo[p]), "done")
               /\ UNCHANGED claimed

Lists == {"reaplist", "resolve", "list"}

\* Status 0.  The logs do not arrive whole when the context is done by now, when
\* another reap has removed the container, or when ContainerLogs or StdCopy fails.
CallReturns(p) ==
  /\ Alive(p) /\ call[p] \in {"exited", "vanished"}
  /\ \E seen \in BOOLEAN :
       /\ IF call[p] = "exited" /\ Live(p)
          THEN \/ seen /\ UNCHANGED faults
               \/ ~seen /\ pc[p] \in Lists /\ Fault
          ELSE ~seen /\ UNCHANGED faults
       /\ \/ Sweeps(p, seen) \/ Resolves(p, seen) \/ Groups(p, seen)
          \/ Snaps(p) \/ Destroys(p)
       /\ blind' = [blind EXCEPT ![p] = IF seen THEN @ ELSE @ \cup ({pc[p]} \cap Lists)]
  /\ CallEnds(p)
  /\ UNCHANGED <<cancelled, inUse, kept, hostVars, failed, loose, orphans>>

\* Mutant: the snapshots of earlier pools stay.
Fails_NoRollback(p) ==
  CASE pc[p] = "reaplist" -> Goto(p, "idle") /\ UNCHANGED <<todo, claimed>>
    [] pc[p] = "resolve"  -> Goto(p, "mount") /\ UNCHANGED <<todo, claimed>>
    [] pc[p] \in {"list", "snap"} -> Goto(p, "done") /\ UNCHANGED <<todo, claimed>>
    [] OTHER -> Destroys(p)

\* Mutant: the reap gives up at the first snapshot it cannot destroy.
Fails_GivesUp(p) ==
  CASE pc[p] \in {"reaplist", "sweep"} -> Loop(p, "sweep", <<>>, "idle") /\ UNCHANGED claimed
    [] pc[p] = "resolve"  -> Goto(p, "mount") /\ UNCHANGED <<todo, claimed>>
    [] pc[p] = "list"     -> Goto(p, "done") /\ UNCHANGED <<todo, claimed>>
    [] pc[p] = "snap"     ->
         /\ Loop(p, "rollback",
                 OneByOne(Names(p) \ UNION {todo[p][i] : i \in DOMAIN todo[p]}), "done")
         /\ UNCHANGED claimed
    [] OTHER -> Destroys(p)

\* What follows a call that failed: a Reap gives up, auto mounts live, Snapshot
\* destroys what it had taken on earlier pools, a loop that destroys goes on.
Fails(p) ==
  CASE pc[p] = "reaplist" -> Goto(p, "idle") /\ UNCHANGED <<todo, claimed>>
    [] pc[p] = "resolve"  -> Goto(p, "mount") /\ UNCHANGED <<todo, claimed>>
    [] pc[p] = "list"     -> Goto(p, "done") /\ UNCHANGED <<todo, claimed>>
    [] pc[p] = "snap"     ->
         /\ Loop(p, "rollback",
                 OneByOne(Names(p) \ UNION {todo[p][i] : i \in DOMAIN todo[p]}), "done")
         /\ UNCHANGED claimed
    [] OTHER -> Destroys(p)

\* The image, the create, the start, the wait or the command fails, the container is
\* taken away, or the context is done: zfs may have done its work all the same.
CallFails(p) ==
  /\ Alive(p) /\ pc[p] \in CallPc
  /\ IF ~Live(p) \/ call[p] = "reaped" THEN UNCHANGED faults ELSE Fault
  /\ Fails(p)
  /\ failed' = [failed EXCEPT ![p] = IF todo[p] = <<>> THEN @ ELSE @ \cup Head(todo[p])]
  /\ blind' = [blind EXCEPT ![p] = @ \cup ({pc[p]} \cap Lists)]
  /\ CallEnds(p)
  /\ UNCHANGED <<cancelled, inUse, kept, hostVars, loose, orphans>>

-----------------------------------------------------------------------------
(* A backup.                                                               *)

\* sourceMountsFor: strictMounts refuses a foreign-backed volume; in auto mode
\* without a source to offer nothing is resolved.
Backup(p) ==
  LET foreign == {i \in DOMAIN Sources[p] : Sources[p][i].foreign}
      Begin(l, S) == Goto(p, l) /\ claimed' = [claimed EXCEPT ![p].src = S]
  IN  /\ Alive(p) /\ pc[p] = "idle"
      /\ CASE Mode[p] = "none" -> Begin("mount", {})
           [] Mode[p] = "auto" ->
                Begin(IF foreign = DOMAIN Sources[p] THEN "mount" ELSE "resolve", {})
           [] Mode[p] = "zfs" ->
                IF foreign # {} THEN Begin("done", {}) ELSE Begin("list", DOMAIN Sources[p])
      /\ UNCHANGED <<todo, call, cmd, cancelled, inUse, doomed, kept, faults, hostVars, history>>

Cleanup(p) == Loop(p, "cleanup", OneByOne(Names(p)), "done")

\* RunMover starts the mover, or fails.
MoverStart(p) ==
  /\ Alive(p) /\ pc[p] = "mount"
  /\ \/ /\ p \notin cancelled
        /\ mover' = mover \cup {p}
        /\ Goto(p, "mover")
        /\ UNCHANGED <<todo, faults>>
     \/ /\ IF p \in cancelled THEN UNCHANGED faults ELSE Fault
        /\ Cleanup(p)
        /\ UNCHANGED mover
  /\ UNCHANGED <<call, cmd, cancelled, claimed, inUse, doomed, kept, snaps, writes, at,
                 history>>

MoverEnds(p) ==
  /\ p \in mover
  /\ mover' = mover \ {p} /\ loose' = loose \ {p}
  /\ UNCHANGED <<procVars, cancelled, kept, faults, snaps, writes, at, failed, blind, orphans>>

\* Mutant: the cleanup does not ask whether the mover was left running.
MoverReturns_Cleanup(p) ==
  /\ Alive(p) /\ pc[p] = "mover" /\ (p \notin mover \/ p \in cancelled)
  /\ Cleanup(p)
  /\ UNCHANGED <<call, cmd, cancelled, claimed, inUse, doomed, kept, faults, hostVars, history>>

\* RunMover returns: the mover has ended, or its deadline or an error of the wait makes
\* the deferred call remove it, or a shutdown leaves it running; then its snapshots
\* stay (keptMover).  An error of the removal is ignored: the mover goes on.
MoverReturns(p) ==
  /\ Alive(p) /\ pc[p] = "mover"
  /\ \/ p \notin mover /\ Cleanup(p) /\ UNCHANGED <<mover, loose, kept, faults>>
     \/ /\ p \in mover
        /\ IF p \in cancelled THEN UNCHANGED faults ELSE Fault
        /\ mover' = mover \ {p} /\ Cleanup(p) /\ UNCHANGED <<loose, kept>>
     \/ /\ p \in mover /\ Fault
        /\ loose' = loose \cup {p} /\ Cleanup(p) /\ UNCHANGED <<mover, kept>>
     \/ /\ p \in cancelled
        /\ kept' = kept \cup {p} /\ Goto(p, "done") /\ UNCHANGED <<mover, loose, todo, faults>>
  /\ UNCHANGED <<call, cmd, cancelled, claimed, inUse, doomed, snaps, writes, at,
                 failed, blind, orphans>>

-----------------------------------------------------------------------------
Next == \/ \E p \in Procs : \/ Start(p) \/ StartUnreaped(p)
                            \/ ReapContainer(p) \/ ReapContainersDone(p)
                            \/ Cancel(p) \/ End(p)
                            \/ CallCreate(p) \/ CallStart(p) \/ CallRuns(p)
                            \/ CallReturns(p) \/ CallFails(p)
                            \/ Backup(p) \/ MoverStart(p) \/ MoverEnds(p) \/ MoverReturns(p)
        \/ Write

Spec == Init /\ [][Next]_vars

-----------------------------------------------------------------------------
\* No other instance's name is the beginning of "<instance>-<app>".
Unshadowed(p) ==
  \A q \in Procs : Instance[q] # Instance[p] => ~IsPrefix(Instance[q], Instance[p] \o App[p])

\* zfs.go: "scoping to the instance avoids destroying a sibling instance's live
\* snapshots", and a restarted daemon spares what a mover left running still reads:
\* what a running mover reads exists.  Not safe from the other's reap is an instance
\* whose name begins with that of another one, "a-b" beside "a", nor the app "b" of
\* "a" beside "a-b": both take snapshots that begin with "sabon-a-b-".  And a mover
\* that was to be removed and could not be loses its snapshots to the cleanup.
SnapshotsHeld ==
  \A p \in mover \ loose : Unshadowed(p) => Names(p) \subseteq snaps

\* docs/backups.md: one snapshot call per pool.  What a mover reads of one pool was
\* taken between the same two writes.
PoolConsistent ==
  \A p \in mover : \A x, y \in at[p] : Pool(x[1]) = Pool(y[1]) => x[2] = y[2]

\* The dataset a path is on: no other one is mounted between it and the path.
Holds(d, path) ==
  /\ d.mount # None /\ IsPrefix(d.mount, path)
  /\ \A e \in Range(Datasets) :
       e.mount # None /\ IsPrefix(e.mount, path) => IsPrefix(e.mount, d.mount)

\* Every source a mover reads is the right directory of a snapshot of the dataset it
\* is on, or live if it is on none or foreign.  It may be live all the same when the
\* list auto offered it to failed or was cut, and be taken from a dataset further out
\* when the list of Snapshot was cut; never is it another directory.
ReadsItsSource ==
  \A p \in mover : \A i \in DOMAIN Sources[p] :
    LET path == Sources[p][i].path
        on == {d \in Range(Datasets) : Holds(d, path)}
        m == Mount(p, i)
    IN  IF Mode[p] = "none" \/ Sources[p][i].foreign \/ on = {} THEN m.ds = None
        ELSE \/ m.ds = None /\ "resolve" \in blind[p]
             \/ \E d \in (IF "list" \in blind[p] THEN Range(Datasets) ELSE on) :
                  m.ds = d.name /\ d.mount # None /\ d.mount \o m.sub = path

\* snapshot.go: "On error it leaks no snapshot".  A backup that returned leaves a
\* snapshot behind for a mover it left running, or if a zfs call about that very
\* snapshot returned an error.
NoLeak ==
  \A s \in snaps : pc[s.by] = "done" => s.by \in kept \/ s \in failed[s.by]

\* One restart is enough: when the reap of a process is through, the orphans it found
\* are gone, but for those whose destroy failed.  Nothing is claimed of a process that
\* reaps nothing (StartUnreaped), nor if the list of snapshots failed or was cut.
OrphansReaped ==
  \A p \in Procs :
    /\ Alive(p) /\ pc[p] \notin {"reap", "reaplist", "sweep"}
    /\ {"reap", "reaplist"} \cap blind[p] = {}
    => orphans[p] \cap snaps \subseteq failed[p]

=============================================================================
