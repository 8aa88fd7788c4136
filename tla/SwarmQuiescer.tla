--------------------------- MODULE SwarmQuiescer ---------------------------
(***************************************************************************)
(* The swarm quiescer (internal/engine/swarm/quiesce.go): a cold backup or *)
(* an in-place restore stops a service by scaling it to zero, with the     *)
(* replica count kept in a label on the service, and starts it again with  *)
(* the recorded count.  Every change is a read (ServiceInspect) followed   *)
(* by a write (ServiceUpdate) that swarm accepts only for the version that *)
(* was read.                                                               *)
(*                                                                         *)
(* The clients are the callers of Stop and Start: the cold backups of the  *)
(* service in the daemon, which share one coldStop and so are one client,  *)
(* in-place restores, which do not share it, and the backups and restores  *)
(* of commands, processes of their own that a signal kills.  The daemon    *)
(* may crash; the next one sweeps the labels (RecoverQuiesced) before it   *)
(* runs anything.  Any call to swarm may fail, and an update may take      *)
(* effect although it is reported as failed.  The operator scales the      *)
(* service, or updates something else.  Services do not interact, so one   *)
(* is enough.                                                              *)
(***************************************************************************)
EXTENDS Integers

CONSTANTS
  Clients,
  Commands,    \* the clients that are commands
  Counts,      \* replica counts the operator may ask for
  None,        \* the service carries no quiesce label
  MaxVersion,  \* bound on the updates of the service
  MaxCrashes   \* bound on the crashes of the daemon

ASSUME CountAssumption == Counts \subseteq Nat /\ Counts # {} /\ None \notin Nat
ASSUME CommandAssumption == Commands \subseteq Clients
ASSUME VersionAssumption == MaxVersion \in Nat /\ MaxCrashes \in Nat

VARIABLES
  svc,     \* the service in the swarm store: version, replicas, label
  want,    \* the count the operator asked for last
  tasks,   \* running tasks of the service
  mover,   \* clients whose mover is running
  crashes, \* crashes so far
  daemon,  \* down, listing and sweeping (RecoverQuiesced), up
  sweep,   \* what the sweep read
  pc, read,\* per client: next call; what its ServiceInspect returned
  touched, \* history: the operator has updated the service while it is quiesced
  gaveUp,  \* history: somebody gave up restoring it: a call failed, a command died
  timedOut,\* history: movers whose drain had to stop waiting
  revived  \* history: movers under which a restore has been accepted

service == <<svc, want, tasks>>
clients == <<pc, read>>
stranding == <<touched, gaveUp>>
exposure == <<timedOut, revived>>
history == <<stranding, exposure>>
vars == <<service, mover, crashes, daemon, sweep, clients, history>>

Service == [version: 0..MaxVersion, replicas: Nat, label: Nat \cup {None}]

\* The types of the service, of the daemon and of its clients.
TypeOK ==
  /\ svc \in Service /\ want \in Counts /\ tasks \in Nat
  /\ mover \subseteq Clients /\ crashes \in 0..MaxCrashes
  /\ daemon \in {"down", "listing", "sweeping", "up"}
  /\ sweep \in Service
  /\ pc \in [Clients -> {"idle", "stop", "drain", "work", "restart", "start"}]
  /\ read \in [Clients -> Service]
  /\ touched \in BOOLEAN /\ gaveUp \in BOOLEAN
  /\ timedOut \subseteq mover /\ revived \subseteq mover

Init ==
  /\ want \in Counts
  /\ svc = [version |-> 0, replicas |-> want, label |-> None]
  /\ tasks = want /\ mover = {} /\ crashes = 0
  /\ daemon = "up" /\ sweep = svc
  /\ pc = [c \in Clients |-> "idle"]
  /\ read = [c \in Clients |-> svc]
  /\ touched = FALSE /\ gaveUp = FALSE
  /\ timedOut = {} /\ revived = {}

-----------------------------------------------------------------------------
\* ServiceUpdate: accepted only for the version that was read.
Accepted(old) == old.version = svc.version /\ svc.version < MaxVersion

Refused(old) == old.version # svc.version

\* Mutant: a retry records the 0 it was already scaled to.
Quiesced_Overwrites(old) ==
  [version |-> old.version + 1, replicas |-> 0, label |-> old.replicas]

\* scale(spec, 0): the count is recorded once.
Quiesced(old) ==
  [version |-> old.version + 1, replicas |-> 0,
   label |-> IF old.label = None THEN old.replicas ELSE old.label]

\* scale(spec, n), with the labels dropped.
Restored(old) ==
  [version |-> old.version + 1, replicas |-> old.label, label |-> None]

Goto(c, l) == pc' = [pc EXCEPT ![c] = l]

\* An accepted restore ends the quiescence, whether or not the call reports it;
\* the movers still there read on under a service that comes up.
Restore(old) == /\ Accepted(old)
                /\ svc' = Restored(old)
                /\ touched' = FALSE /\ gaveUp' = FALSE
                /\ revived' = mover /\ UNCHANGED timedOut

\* An inspection or a restore fails without effect, and nobody tries again.
GiveUp == /\ gaveUp' = (svc.label # None)
          /\ UNCHANGED <<service, touched>>

-----------------------------------------------------------------------------
(* Stop and Start.                                                         *)

Working(c) == c \in Commands \/ daemon = "up"

\* The inspection succeeds; if it fails Stop is over with nothing done.
StopInspect(c) ==
  /\ Working(c) /\ pc[c] = "idle"
  /\ read' = [read EXCEPT ![c] = svc]
  /\ Goto(c, "stop")
  /\ UNCHANGED <<service, mover, crashes, daemon, sweep, history>>

StopUpdate(c) ==
  /\ pc[c] = "stop" /\ Accepted(read[c])
  /\ svc' = Quiesced(read[c])
  /\ Goto(c, "drain")
  /\ UNCHANGED <<want, tasks, mover, crashes, daemon, sweep, read, history>>

\* The update is refused, or fails for another reason, with or without effect.  An
\* error of Stop ends the run, which does not hold the service: no Start is called.
StopError(c) ==
  /\ pc[c] = "stop"
  /\ \/ UNCHANGED <<svc, gaveUp>>
     \/ Accepted(read[c]) /\ svc' = Quiesced(read[c]) /\ gaveUp' = TRUE
  /\ Goto(c, "idle")
  /\ UNCHANGED <<want, tasks, mover, crashes, daemon, sweep, read, touched, exposure>>

\* Stop returns and the mover is started, on a service that another client or a
\* sweep may have restored in the meantime.
StartMover(c) ==
  /\ mover' = mover \cup {c}
  /\ revived' = IF svc.label = None THEN revived \cup {c} ELSE revived
  /\ Goto(c, "work")
  /\ UNCHANGED <<service, crashes, daemon, sweep, read, stranding>>

\* Mutant: Stop does not wait for the tasks.
Drained_AtOnce(c) == pc[c] = "drain" /\ StartMover(c) /\ UNCHANGED timedOut

\* waitDrained: the tasks can be listed and none runs.
Drained(c) ==
  /\ pc[c] = "drain" /\ tasks = 0
  /\ StartMover(c) /\ UNCHANGED timedOut

\* waitDrained: 30 seconds are over, or the run is cancelled.
DrainTimeout(c) ==
  /\ pc[c] = "drain"
  /\ StartMover(c) /\ timedOut' = timedOut \cup {c}

Gone(c) == /\ mover' = mover \ {c}
           /\ timedOut' = timedOut \ {c} /\ revived' = revived \ {c}

\* The mover ends, whether or not somebody is there to see it.
MoverEnds(c) ==
  /\ c \in mover /\ Gone(c)
  /\ UNCHANGED <<service, crashes, daemon, sweep, clients, stranding>>

\* RunMover returns: the mover has ended or is removed, or its removal has failed
\* and it reads on.
MoverReturns(c) ==
  /\ pc[c] = "work"
  /\ Gone(c) \/ UNCHANGED <<mover, exposure>>
  /\ Goto(c, "restart")
  /\ UNCHANGED <<service, crashes, daemon, sweep, read, stranding>>

\* Start.  A service without the label is left alone.
StartInspect(c) ==
  /\ pc[c] = "restart"
  /\ read' = [read EXCEPT ![c] = svc]
  /\ Goto(c, IF svc.label = None THEN "idle" ELSE "start")
  /\ UNCHANGED <<service, mover, crashes, daemon, sweep, history>>

StartUpdate(c) ==
  /\ pc[c] = "start" /\ Restore(read[c])
  /\ Goto(c, "idle")
  /\ UNCHANGED <<want, tasks, mover, crashes, daemon, sweep, read>>

\* An error of Start is only logged, the lost race for the version ...
StartConflict(c) ==
  /\ pc[c] = "start" /\ Refused(read[c])
  /\ Goto(c, "idle")
  /\ UNCHANGED <<service, mover, crashes, daemon, sweep, read, history>>

\* ... and every other error, of the inspection or the update.
StartError(c) ==
  /\ pc[c] \in {"restart", "start"} /\ GiveUp
  /\ Goto(c, "idle")
  /\ UNCHANGED <<mover, crashes, daemon, sweep, read, exposure>>

\* A signal kills a command, which has no handler.  Its mover is a service of its
\* own and stays.
Killed(c) ==
  /\ c \in Commands /\ pc[c] # "idle" /\ GiveUp
  /\ Goto(c, "idle")
  /\ UNCHANGED <<mover, crashes, daemon, sweep, read, exposure>>

-----------------------------------------------------------------------------
(* The daemon.                                                             *)

\* Movers survive, and commands are processes of their own.
Crash == /\ daemon # "down" /\ crashes < MaxCrashes
         /\ crashes' = crashes + 1
         /\ daemon' = "down"
         /\ pc' = [c \in Clients |-> IF c \in Commands THEN pc[c] ELSE "idle"]
         /\ UNCHANGED <<service, mover, sweep, read, history>>

StartDaemon == /\ daemon = "down"
               /\ daemon' = "listing"
               /\ UNCHANGED <<service, mover, crashes, sweep, clients, history>>

\* Mutant: the daemon starts without recoverQuiesced.
SweepList_Skipped == /\ daemon = "listing"
                     /\ daemon' = "up"
                     /\ UNCHANGED <<service, mover, crashes, sweep, clients, history>>

\* Mutant: the list is not filtered by the label.
SweepList_NoFilter == /\ daemon = "listing"
                      /\ sweep' = svc
                      /\ daemon' = "sweeping"
                      /\ UNCHANGED <<service, mover, crashes, clients, history>>

\* ServiceList with the label as filter ...
SweepList == /\ daemon = "listing"
             /\ sweep' = svc
             /\ daemon' = IF svc.label = None THEN "up" ELSE "sweeping"
             /\ UNCHANGED <<service, mover, crashes, clients, history>>

\* ... and restore for each; a lost race is skipped.
SweepUpdate == /\ daemon = "sweeping"
               /\ \/ Restore(sweep)
                  \/ Refused(sweep) /\ UNCHANGED <<svc, history>>
               /\ daemon' = "up"
               /\ UNCHANGED <<want, tasks, mover, crashes, sweep, clients>>

\* The list fails, or the update for another reason: the daemon goes up all the same.
SweepError == /\ daemon \in {"listing", "sweeping"} /\ GiveUp
              /\ daemon' = "up"
              /\ UNCHANGED <<mover, crashes, sweep, clients, exposure>>

-----------------------------------------------------------------------------
(* The operator, who leaves the count of a quiesced service alone, and the *)
(* swarm, which starts and stops tasks.                                    *)

Scale(n) == /\ svc.label = None /\ svc.version < MaxVersion /\ n # want
            /\ svc' = [version |-> svc.version + 1, replicas |-> n, label |-> None]
            /\ want' = n
            /\ UNCHANGED <<tasks, mover, crashes, daemon, sweep, clients, history>>

\* An update of anything else: image, environment, another label.
Touch == /\ svc.version < MaxVersion
         /\ svc' = [svc EXCEPT !.version = @ + 1]
         /\ touched' = (svc.label # None)
         /\ UNCHANGED <<want, tasks, mover, crashes, daemon, sweep, clients, gaveUp, exposure>>

Converge == /\ tasks # svc.replicas
            /\ tasks' = svc.replicas
            /\ UNCHANGED <<svc, want, mover, crashes, daemon, sweep, clients, history>>

ClientStep(c) == \/ StopInspect(c) \/ StopUpdate(c) \/ StopError(c)
                 \/ Drained(c) \/ DrainTimeout(c) \/ MoverEnds(c) \/ MoverReturns(c)
                 \/ StartInspect(c) \/ StartUpdate(c) \/ StartConflict(c) \/ StartError(c)
                 \/ Killed(c)

Next == \/ \E c \in Clients : ClientStep(c)
        \/ Crash \/ StartDaemon \/ SweepList \/ SweepUpdate \/ SweepError
        \/ \E n \in Counts : Scale(n)
        \/ Touch \/ Converge

Spec == Init /\ [][Next]_vars

-----------------------------------------------------------------------------
\* The replica count the operator asked for is never lost, whatever reads and
\* writes of clients, sweeps and the operator interleave and wherever the daemon
\* crashes: it is either the count of the service or the one in the label.
CountPreserved ==
  want = IF svc.label = None THEN svc.replicas ELSE svc.label

\* quiesce.go: "a crash between Stop and Start cannot strand the service at zero
\* replicas".  No crash of the daemon, no race between clients and no drain leaves a
\* service quiesced with a daemon up and nobody at work.  What does: a call of Stop,
\* of Start or of the sweep that fails other than by losing the race, a command that
\* is killed, and an update of the operator's, which makes a Start lose its race.
NotStranded ==
  /\ daemon = "up" /\ \A c \in Clients : pc[c] = "idle"
  /\ ~touched /\ ~gaveUp
  => svc.label = None

\* docs/labels.md: the service is stopped "for the duration of the backup".  A mover
\* whose Stop has seen the tasks end reads without any task running, whatever the
\* daemon, the swarm and the operator do, until a restore is accepted: that of
\* another client, which has no count to share with this one, of the sweep of a
\* later daemon, or its own when the mover could not be removed.
StoppedForTheBackup == mover \ (timedOut \cup revived) # {} => tasks = 0

=============================================================================
