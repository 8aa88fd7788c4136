----------------------------- MODULE ResticRepo -----------------------------
(***************************************************************************)
(* The mover (internal/mover/mover.go): the restic commands each action    *)
(* runs against one repository, the repository's locks, and the movers     *)
(* that may meet there.                                                    *)
(*                                                                         *)
(* A process starts a mover under its in-memory lock of "target|app"; the  *)
(* repository is the app's own, or one that several apps share when the    *)
(* target's repo has no {app} in it.  A mover outlives the process that    *)
(* started it, and may be killed at any point; a killed restic leaves its  *)
(* lock behind, one that fails removes it.                                 *)
(*                                                                         *)
(* restic itself is external: a command takes a shared or an exclusive     *)
(* lock, then works on what it read under it.                              *)
(***************************************************************************)
EXTENDS Integers, FiniteSets

CONSTANTS
  Procs,       \* sabon processes: a daemon and its successors, a command
  Apps,        \* the apps whose repository this is
  Retention,   \* per app: how many snapshots `forget` keeps, 0 without a policy
  Blobs,       \* pieces of content
  Contents,    \* what a backup may read
  Actions,     \* the actions of the movers
  Nobody,      \* no process
  MaxMovers,   \* bound on the movers
  MaxRestarts, \* bound on the restarts of a process
  MaxFaults    \* bound on commands that fail by themselves and on killed movers

ASSUME RepoAssumption ==
  /\ Apps # {} /\ Nobody \notin Procs
  /\ Retention \in [Apps -> Nat]
  /\ Contents \subseteq SUBSET Blobs
  /\ Actions \subseteq {"backup", "snapshots", "check", "prune", "restore"}

ASSUME BoundAssumption == /\ MaxMovers \in Nat
                          /\ MaxRestarts \in Nat /\ MaxFaults \in Nat

Movers == 1..MaxMovers   \* in the order of their creation

VARIABLES
  made,     \* number of movers started
  app,      \* per mover
  action,   \* per mover
  run,      \* per mover: the process that waits for it
  pc,       \* per mover: its next restic command, or what it does under its lock
  content,  \* per mover: what its backup reads
  plan,     \* per mover: what it read under its lock (blobs or snapshots)
  restarts, faults,
  config,   \* the repository is initialised
  locks,    \* [by, exclusive]
  blobs,    \* the content in the repository
  snaps,    \* its snapshots, each named by the mover that saved it
  saved,    \* per mover: when it saved its snapshot, 0 before
  clock,    \* number of snapshots saved
  ghosts,   \* history: per mover, the movers killed before it started
  deaf,     \* history: movers whose unlock failed
  overrun   \* history: <<m, n>>: m ran, with a lock, when n removed all locks

moverVars == <<made, app, action, run, pc, content, plan>>
repoVars == <<config, locks, blobs, snaps, saved, clock>>
history == <<ghosts, deaf, overrun>>
vars == <<moverVars, restarts, faults, repoVars, history>>

Commands == {"backup", "forget", "snapshots", "check", "prune", "restore"}
Working == {"upload", "save", "forgetting", "reading", "pruning"}
Ended == {"ok", "failed", "refused", "killed"}

Pc == {"none", "probe", "init", "unlock"} \cup Commands \cup Working \cup Ended

Running(m) == pc[m] \notin Ended \cup {"none"}

Locks == [by: Movers, exclusive: BOOLEAN]

\* The types of the movers, the repository and the history.
TypeOK ==
  /\ made \in 0..MaxMovers /\ restarts \in 0..MaxRestarts /\ faults \in 0..MaxFaults
  /\ app \in [Movers -> Apps]
  /\ action \in [Movers -> Actions \cup {"backup"}]
  /\ run \in [Movers -> Procs \cup {Nobody}]
  /\ pc \in [Movers -> Pc]
  /\ content \in [Movers -> SUBSET Blobs]
  /\ plan \in [Movers -> SUBSET (Blobs \cup Movers)]
  /\ config \in BOOLEAN
  /\ locks \subseteq Locks
  /\ blobs \subseteq Blobs
  /\ snaps \subseteq Movers
  /\ saved \in [Movers -> Nat] /\ clock \in Nat
  /\ ghosts \in [Movers -> SUBSET Movers]
  /\ deaf \subseteq Movers /\ overrun \subseteq Movers \X Movers

Init ==
  /\ made = 0 /\ restarts = 0 /\ faults = 0
  /\ app = [m \in Movers |-> CHOOSE a \in Apps : TRUE]
  /\ action = [m \in Movers |-> "backup"]
  /\ run = [m \in Movers |-> Nobody]
  /\ pc = [m \in Movers |-> "none"]
  /\ content = [m \in Movers |-> {}]
  /\ plan = [m \in Movers |-> {}]
  /\ config = FALSE /\ locks = {} /\ blobs = {} /\ snaps = {}
  /\ saved = [m \in Movers |-> 0] /\ clock = 0
  /\ ghosts = [m \in Movers |-> {}] /\ deaf = {} /\ overrun = {}

-----------------------------------------------------------------------------
(* Processes and movers.                                                   *)

Fault == faults < MaxFaults /\ faults' = faults + 1

\* Mutant: a process does not wait for its mover of the same app.
Launch_Unlocked(p, a, k, c) ==
  /\ made < MaxMovers
  /\ made' = made + 1
  /\ app' = [app EXCEPT ![made'] = a] /\ action' = [action EXCEPT ![made'] = k]
  /\ run' = [run EXCEPT ![made'] = p] /\ content' = [content EXCEPT ![made'] = c]
  /\ pc' = [pc EXCEPT ![made'] = IF k = "backup" THEN "probe" ELSE "unlock"]
  /\ ghosts' = [ghosts EXCEPT ![made'] = {m \in Movers : pc[m] = "killed"}]
  /\ UNCHANGED <<plan, restarts, faults, repoVars, deaf, overrun>>

\* Mutant: an action left empty is not taken for a backup.
Launch_DefaultAction(p, a, k, c) ==
  /\ made < MaxMovers
  /\ \A m \in Movers : run[m] = p => app[m] # a
  /\ made' = made + 1
  /\ app' = [app EXCEPT ![made'] = a]
  /\ action' = [action EXCEPT ![made'] = IF k = "backup" THEN "" ELSE k]
  /\ run' = [run EXCEPT ![made'] = p] /\ content' = [content EXCEPT ![made'] = c]
  /\ pc' = [pc EXCEPT ![made'] = IF k = "backup" THEN "probe" ELSE "unlock"]
  /\ ghosts' = [ghosts EXCEPT ![made'] = {m \in Movers : pc[m] = "killed"}]
  /\ UNCHANGED <<plan, restarts, faults, repoVars, deaf, overrun>>

\* A run takes the lock of its app and starts a mover, which reads its spec.
Launch(p, a, k, c) ==
  /\ made < MaxMovers
  /\ \A m \in Movers : run[m] = p => app[m] # a
  /\ made' = made + 1
  /\ app' = [app EXCEPT ![made'] = a] /\ action' = [action EXCEPT ![made'] = k]
  /\ run' = [run EXCEPT ![made'] = p] /\ content' = [content EXCEPT ![made'] = c]
  /\ pc' = [pc EXCEPT ![made'] = IF k = "backup" THEN "probe" ELSE "unlock"]
  /\ ghosts' = [ghosts EXCEPT ![made'] = {m \in Movers : pc[m] = "killed"}]
  /\ UNCHANGED <<plan, restarts, faults, repoVars, deaf, overrun>>

\* A process with movers crashes or shuts down; they go on, and its locks are gone.
Restart(p) ==
  /\ restarts < MaxRestarts /\ \E m \in Movers : run[m] = p
  /\ restarts' = restarts + 1
  /\ run' = [m \in Movers |-> IF run[m] = p THEN Nobody ELSE run[m]]
  /\ UNCHANGED <<made, app, action, pc, content, plan, faults, repoVars, history>>

\* The mover ends and whoever waits for it goes on.
End(m, how) == /\ pc' = [pc EXCEPT ![m] = how]
               /\ run' = [run EXCEPT ![m] = Nobody]
               /\ plan' = [plan EXCEPT ![m] = {}]

\* A deadline, a removal, no memory left.
Kill(m) ==
  /\ Running(m) /\ Fault
  /\ End(m, "killed")
  /\ UNCHANGED <<made, app, action, content, restarts, repoVars, history>>

\* From one restic command to the next.
Step(m, l) == /\ pc' = [pc EXCEPT ![m] = l]
              /\ UNCHANGED <<run, plan>>

-----------------------------------------------------------------------------
(* Before the work: cat config, init, unlock.                              *)

\* Any error of `cat config` is taken for a missing repository.
Probe(m) ==
  /\ pc[m] = "probe"
  /\ \/ config /\ Step(m, "unlock") /\ UNCHANGED faults
     \/ ~config /\ Step(m, "init") /\ UNCHANGED faults
     \/ config /\ Fault /\ Step(m, "init")
  /\ UNCHANGED <<made, app, action, content, restarts, repoVars, history>>

\* init fails on a repository that exists by now.
InitRepo(m) ==
  /\ pc[m] = "init"
  /\ \/ ~config /\ config' = TRUE /\ Step(m, "unlock") /\ UNCHANGED faults
     \/ config /\ End(m, "failed") /\ UNCHANGED <<config, faults>>
     \/ ~config /\ Fault /\ End(m, "failed") /\ UNCHANGED config
  /\ UNCHANGED <<made, app, action, content, restarts, locks, blobs, snaps, saved, clock,
                 history>>

\* Mutant: a plain unlock, which does not know a lock of another container for stale.
UnlockStale_Plain(m) ==
  /\ pc[m] = "unlock"
  /\ Step(m, action[m])
  /\ UNCHANGED <<made, app, action, content, restarts, faults, repoVars, history>>

\* unlock --remove-all; its error is ignored.
UnlockStale(m) ==
  /\ pc[m] = "unlock"
  /\ Step(m, action[m])
  /\ \/ /\ config
        /\ locks' = {}
        /\ overrun' = overrun \cup {<<l.by, m>> : l \in {l \in locks : Running(l.by)}}
        /\ UNCHANGED <<faults, deaf>>
     \/ /\ IF config THEN Fault ELSE UNCHANGED faults
        /\ deaf' = deaf \cup {m}
        /\ UNCHANGED <<locks, overrun>>
  /\ UNCHANGED <<made, app, action, content, restarts, config, blobs, snaps, saved, clock,
                 ghosts>>

-----------------------------------------------------------------------------
(* Under a lock.                                                           *)

\* Mutant: prune runs beside others (--no-lock).
Exclusive_NotPrune(cmd) == cmd \in {"forget", "check"}

Exclusive(cmd) == cmd \in {"forget", "check", "prune"}

\* The holders of the locks the lock of the next command cannot stand beside.
Blockers(m) == {l.by : l \in {l \in locks : l.exclusive \/ Exclusive(pc[m])}}

\* The snapshots of the same app saved after that of m.
Newer(m, S) == {n \in S : app[n] = app[m] /\ saved[n] > saved[m]}

\* Mutant: forget without --host and --tag.
Expired_AnyApp(a) ==
  {m \in snaps : Cardinality({n \in snaps : saved[n] > saved[m]}) >= Retention[a]}

\* forget --host app --tag app --keep-last n.
Expired(a) ==
  {m \in snaps : app[m] = a /\ Cardinality(Newer(m, snaps)) >= Retention[a]}

\* What a command reads once it holds its lock: the index a backup deduplicates
\* against, the blobs no snapshot refers to, the snapshots to be forgotten or read.
Reads(m) ==
  CASE pc[m] = "backup" -> blobs
    [] pc[m] = "prune"  -> blobs \ UNION {content[s] : s \in snaps}
    [] pc[m] = "forget" -> Expired(app[m])
    [] OTHER            -> snaps

\* restic starts: its lock is refused, or taken.
Begin(m) ==
  /\ pc[m] \in Commands
  /\ LET blockers == Blockers(m)
         work == CASE pc[m] = "backup" -> "upload"
                   [] pc[m] = "prune"  -> "pruning"
                   [] pc[m] = "forget" -> "forgetting"
                   [] OTHER            -> "reading"
     IN  \/ /\ ~config
            /\ End(m, "failed")
            /\ UNCHANGED locks
         \/ /\ config /\ blockers # {}
            /\ pc' = [pc EXCEPT ![m] = "refused"]
            /\ run' = [run EXCEPT ![m] = Nobody]
            /\ plan' = [plan EXCEPT ![m] = blockers]
            /\ UNCHANGED locks
         \/ /\ config /\ blockers = {}
            /\ locks' = locks \cup {[by |-> m, exclusive |-> Exclusive(pc[m])]}
            /\ plan' = [plan EXCEPT ![m] = Reads(m)]
            /\ pc' = [pc EXCEPT ![m] = work]
            /\ UNCHANGED run
  /\ UNCHANGED <<made, app, action, content, restarts, faults, config, blobs, snaps, saved,
                 clock, history>>

Unlocked(m) == {l \in locks : l.by # m}

\* A backup uploads what its index does not have.
Upload(m) ==
  /\ pc[m] = "upload"
  /\ blobs' = blobs \cup (content[m] \ plan[m])
  /\ Step(m, "save")
  /\ UNCHANGED <<made, app, action, content, restarts, faults, config, locks, snaps, saved,
                 clock, history>>

\* The snapshot is saved and its result printed; without a policy no forget is run.
Save(m) ==
  /\ pc[m] = "save"
  /\ snaps' = snaps \cup {m}
  /\ clock' = clock + 1
  /\ saved' = [saved EXCEPT ![m] = clock']
  /\ locks' = Unlocked(m)
  /\ IF Retention[app[m]] > 0 THEN Step(m, "forget") ELSE End(m, "ok")
  /\ UNCHANGED <<made, app, action, content, restarts, faults, config, blobs, history>>

Forget(m) ==
  /\ pc[m] = "forgetting"
  /\ snaps' = snaps \ plan[m]
  /\ locks' = Unlocked(m)
  /\ End(m, "ok")
  /\ UNCHANGED <<made, app, action, content, restarts, faults, config, blobs, saved, clock,
                 history>>

Prune(m) ==
  /\ pc[m] = "pruning"
  /\ blobs' = blobs \ plan[m]
  /\ locks' = Unlocked(m)
  /\ End(m, "ok")
  /\ UNCHANGED <<made, app, action, content, restarts, faults, config, snaps, saved, clock,
                 history>>

\* snapshots, check, which reads everything, and restore, which reads the snapshot it
\* is asked for, or the latest, and needs one; both fail on content that is missing.
Read(m) ==
  LET missing == {s \in plan[m] : ~(content[s] \subseteq blobs)}
  IN  /\ pc[m] = "reading"
      /\ locks' = Unlocked(m)
      /\ \/ /\ \/ action[m] = "snapshots"
               \/ action[m] = "check" /\ missing = {}
               \/ action[m] = "restore" /\ missing # plan[m]
            /\ End(m, "ok")
         \/ /\ \/ action[m] = "check" /\ missing # {}
               \/ action[m] = "restore" /\ (missing # {} \/ plan[m] = {})
            /\ End(m, "failed")
      /\ UNCHANGED <<made, app, action, content, restarts, faults, config, blobs, snaps,
                     saved, clock, history>>

\* restic fails before it has done its work, or notices that its lock is gone.
CmdFails(m) ==
  /\ pc[m] \in Working /\ Fault
  /\ locks' = Unlocked(m)
  /\ End(m, "failed")
  /\ UNCHANGED <<made, app, action, content, restarts, config, blobs, snaps, saved, clock,
                 history>>

-----------------------------------------------------------------------------
MoverStep(m) == \/ Kill(m) \/ Probe(m) \/ InitRepo(m) \/ UnlockStale(m) \/ Begin(m)
                \/ Upload(m) \/ Save(m) \/ Forget(m) \/ Prune(m) \/ Read(m) \/ CmdFails(m)

Next ==
  \/ \E p \in Procs, a \in Apps :
       \/ "backup" \in Actions /\ \E c \in Contents : Launch(p, a, "backup", c)
       \/ \E k \in Actions \ {"backup"} : Launch(p, a, k, {})
  \/ \E p \in Procs : Restart(p)
  \/ \E m \in Movers : MoverStep(m)

Spec == Init /\ [][Next]_vars

-----------------------------------------------------------------------------
\* docs/architecture.md: "never a corrupted repo".  As long as no running restic has
\* lost its lock to the unlock of another mover, every snapshot can be restored,
\* whatever was killed and whichever movers met.
Intact ==
  overrun = {} => \A s \in snaps : content[s] \subseteq blobs

\* What is left of "sabon serialises per repository, so no other live mover holds
\* this repo" (unlockStale): the lock a mover takes from a running one belongs to
\* another app of a shared repository, or to a mover whose process it never knew.
OnlyStrangersOverrun ==
  \A x \in overrun : app[x[1]] # app[x[2]] \/ run[x[1]] # run[x[2]] \/ run[x[1]] = Nobody

\* "so a shared repo never forgets another app's snapshots", and never "delete them
\* all": a snapshot once saved stays, until as many newer ones of its app have been
\* saved as the retention of the app keeps.
Kept ==
  \A m \in Movers :
    /\ saved[m] > 0
    /\ \/ Retention[app[m]] = 0
       \/ Cardinality(Newer(m, Movers)) < Retention[app[m]]
    => m \in snaps

\* docs/architecture.md: the next unlock clears a stale lock, "so a crash never wedges
\* the repository": a mover is refused only because of a mover that was not dead yet
\* when it started, unless its own unlock failed.
NeverWedged ==
  \A m \in Movers : pc[m] = "refused" /\ plan[m] \subseteq ghosts[m] => m \in deaf

=============================================================================
