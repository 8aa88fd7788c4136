------------------------ MODULE SwarmQuiescer_proofs ------------------------
(***************************************************************************)
(* Proofs about SwarmQuiescer, for any number of clients, replica counts,  *)
(* updates and crashes.                                                    *)
(***************************************************************************)
EXTENDS SwarmQuiescer, TLAPS

USE DEF service, clients, history, stranding, exposure

\* A copy of the service that was read at some earlier time is the service
\* itself as long as the version has not moved on.
UpToDate(old) == /\ old.version <= svc.version
                 /\ old.version = svc.version => old = svc

\* Whoever is about to restore has read a label.
Inv == /\ TypeOK
       /\ CountPreserved
       /\ \A c \in Clients : UpToDate(read[c])
       /\ UpToDate(sweep)
       /\ \A c \in Clients : pc[c] = "start" => read[c].label # None
       /\ daemon = "sweeping" => sweep.label # None

LEMMA InvInit == Init => Inv
  <1> SUFFICES ASSUME Init PROVE Inv
    OBVIOUS
  <1>1. svc \in Service /\ want \in Nat /\ CountPreserved
    BY CountAssumption, VersionAssumption DEF Init, Service, CountPreserved
  <1>2. /\ touched \in BOOLEAN /\ gaveUp \in BOOLEAN
        /\ timedOut \subseteq mover /\ revived \subseteq mover
    BY DEF Init
  <1>3. TypeOK
    BY <1>1, <1>2, VersionAssumption DEF Init, TypeOK
  <1>4. UpToDate(sweep) /\ \A c \in Clients : UpToDate(read[c])
    BY <1>1, VersionAssumption DEF Init, UpToDate, Service
  <1> QED
    BY <1>1, <1>3, <1>4 DEF Init, Inv

\* A step that leaves the service alone keeps every earlier copy up to date.
LEMMA SameService ==
  ASSUME Inv, UNCHANGED <<svc, read, sweep>>
  PROVE  (\A c \in Clients : UpToDate(read[c])') /\ UpToDate(sweep)'
  BY DEF Inv, UpToDate

\* An update moves the version past every earlier copy.
LEMMA NewVersion ==
  ASSUME Inv, svc' \in Service, svc'.version = svc.version + 1, UNCHANGED <<read, sweep>>
  PROVE  (\A c \in Clients : UpToDate(read[c])') /\ UpToDate(sweep)'
  <1>1. \A c \in Clients : read[c].version \in Int /\ read[c].version <= svc.version
    BY VersionAssumption DEF Inv, UpToDate, TypeOK, Service
  <1>2. sweep.version \in Int /\ sweep.version <= svc.version /\ svc.version \in Int
    BY VersionAssumption DEF Inv, UpToDate, TypeOK, Service
  <1> QED  BY <1>1, <1>2 DEF UpToDate

\* What Stop writes: the recorded count is the operator's.
LEMMA QuiescedOk ==
  ASSUME Inv, NEW old \in Service, UpToDate(old), Accepted(old), svc' = Quiesced(old),
         UNCHANGED want
  PROVE  svc' \in Service /\ svc'.version = svc.version + 1 /\ CountPreserved'
  <1>1. old = svc /\ svc.version < MaxVersion /\ svc.version \in Nat
    BY VersionAssumption DEF UpToDate, Accepted, Inv, TypeOK, Service
  <1>2. want \in Nat
    BY CountAssumption DEF Inv, TypeOK
  <1> QED
    BY <1>1, <1>2, CountAssumption, VersionAssumption
    DEF Quiesced, Service, CountPreserved, Inv, TypeOK

\* What Start and the sweep write: the operator's count, and no label.
LEMMA RestoredOk ==
  ASSUME Inv, NEW old \in Service, UpToDate(old), Accepted(old), svc' = Restored(old),
         old.label # None, UNCHANGED want
  PROVE  /\ svc' \in Service /\ svc'.version = svc.version + 1 /\ svc'.label = None
         /\ CountPreserved'
  <1>1. old = svc /\ svc.version < MaxVersion /\ svc.version \in Nat
    BY VersionAssumption DEF UpToDate, Accepted, Inv, TypeOK, Service
  <1> QED
    BY <1>1, CountAssumption, VersionAssumption
    DEF Restored, Service, CountPreserved, Inv, TypeOK

LEMMA InvNext == Inv /\ [Next]_vars => Inv'
  <1> SUFFICES ASSUME Inv, [Next]_vars PROVE Inv'
    OBVIOUS
  <1>t. TypeOK /\ CountPreserved
    BY DEF Inv
  <1>1. ASSUME NEW c \in Clients, ClientStep(c) PROVE Inv'
    <2>c. read[c] \in Service /\ UpToDate(read[c])
      BY DEF Inv, TypeOK
    <2>1. CASE StopInspect(c)
      BY <2>1 DEF StopInspect, Goto, Inv, TypeOK, CountPreserved, UpToDate, Service
    <2>2. CASE StopUpdate(c)
      <3>1. svc' \in Service /\ svc'.version = svc.version + 1 /\ CountPreserved'
        BY <2>c, <2>2, QuiescedOk DEF StopUpdate
      <3>2. UNCHANGED <<read, sweep>>
        BY <2>2 DEF StopUpdate
      <3> QED
        BY <2>2, <3>1, <3>2, NewVersion DEF StopUpdate, Goto, Inv, TypeOK
    <2>3. CASE StopError(c)
      <3>1. CASE UNCHANGED <<svc, gaveUp>>
        BY <2>3, <3>1, SameService DEF StopError, Goto, Inv, TypeOK, CountPreserved
      <3>2. CASE Accepted(read[c]) /\ svc' = Quiesced(read[c]) /\ gaveUp' = TRUE
        <4>1. svc' \in Service /\ svc'.version = svc.version + 1 /\ CountPreserved'
          BY <2>c, <2>3, <3>2, QuiescedOk DEF StopError
        <4>2. UNCHANGED <<read, sweep>>
          BY <2>3 DEF StopError
        <4> QED
          BY <2>3, <3>2, <4>1, <4>2, NewVersion DEF StopError, Goto, Inv, TypeOK
      <3> QED  BY <2>3, <3>1, <3>2 DEF StopError
    <2>4. CASE Drained(c) \/ DrainTimeout(c)
      BY <2>4, SameService DEF Drained, DrainTimeout, StartMover, Goto, Inv, TypeOK, CountPreserved
    <2>5. CASE StartInspect(c)
      BY <2>5 DEF StartInspect, Goto, Inv, TypeOK, CountPreserved, UpToDate, Service
    <2>6. CASE StartUpdate(c)
      <3>1. read[c].label # None
        BY <2>6 DEF StartUpdate, Inv
      <3>2. svc' \in Service /\ svc'.version = svc.version + 1 /\ CountPreserved'
        BY <2>c, <2>6, <3>1, RestoredOk DEF StartUpdate, Restore
      <3>3. UNCHANGED <<read, sweep>>
        BY <2>6 DEF StartUpdate
      <3> QED
        BY <2>6, <3>2, <3>3, NewVersion DEF StartUpdate, Restore, Goto, Inv, TypeOK
    <2>7. CASE MoverEnds(c)
      BY <2>7, SameService DEF MoverEnds, Gone, Inv, TypeOK, CountPreserved
    <2>8. CASE MoverReturns(c)
      BY <2>8, SameService DEF MoverReturns, Gone, Goto, Inv, TypeOK, CountPreserved
    <2>9. CASE StartConflict(c)
      BY <2>9, SameService DEF StartConflict, Goto, Inv, TypeOK, CountPreserved
    <2>10. CASE StartError(c) \/ Killed(c)
      BY <2>10, SameService DEF StartError, Killed, GiveUp, Goto, Inv, TypeOK, CountPreserved
    <2> QED
      BY <1>1, <2>1, <2>2, <2>3, <2>4, <2>5, <2>6, <2>7, <2>8, <2>9, <2>10 DEF ClientStep
  <1>2. CASE Crash
    <2>1. crashes' \in 0..MaxCrashes
      BY <1>2, VersionAssumption DEF Crash, Inv, TypeOK
    <2> QED
      BY <1>2, <2>1, SameService DEF Crash, Inv, TypeOK, CountPreserved
  <1>3. CASE StartDaemon
    BY <1>3, SameService DEF StartDaemon, Inv, TypeOK, CountPreserved
  <1>4. CASE SweepList
    BY <1>4 DEF SweepList, Inv, TypeOK, CountPreserved, UpToDate, Service
  <1>5. CASE SweepUpdate
    <2>1. CASE Restore(sweep)
      <3>1. sweep \in Service /\ UpToDate(sweep) /\ sweep.label # None
        BY <1>5 DEF SweepUpdate, Inv, TypeOK
      <3>2. svc' \in Service /\ svc'.version = svc.version + 1 /\ CountPreserved'
        BY <1>5, <2>1, <3>1, RestoredOk DEF SweepUpdate, Restore
      <3>3. UNCHANGED <<read, sweep>>
        BY <1>5 DEF SweepUpdate
      <3> QED
        BY <1>5, <2>1, <3>2, <3>3, NewVersion DEF SweepUpdate, Restore, Inv, TypeOK
    <2>2. CASE UNCHANGED <<svc, history>>
      BY <1>5, <2>2, SameService DEF SweepUpdate, Inv, TypeOK, CountPreserved
    <2> QED  BY <1>5, <2>1, <2>2 DEF SweepUpdate
  <1>6. CASE \E n \in Counts : Scale(n)
    <2> PICK n \in Counts : Scale(n)
      BY <1>6
    <2>1. svc.version \in 0..MaxVersion /\ svc.version < MaxVersion /\ svc \in Service
      BY <1>t DEF Scale, TypeOK, Service
    <2>2. svc' = [version |-> svc.version + 1, replicas |-> n, label |-> None] /\ want' = n
      BY DEF Scale
    <2>3. svc.label = None /\ UNCHANGED <<read, sweep>>
      BY DEF Scale
    <2>4. /\ svc'.version = svc.version + 1 /\ svc'.replicas = n
          /\ svc'.label = None /\ svc' \in Service
      BY <2>1, <2>2, <2>3, CountAssumption, VersionAssumption DEF Service
    <2>5. CountPreserved'
      BY <2>2, <2>4 DEF CountPreserved
    <2>6. UpToDate(sweep)' /\ \A c \in Clients : UpToDate(read[c])'
      BY <1>t, <2>3, <2>4, NewVersion DEF Inv
    <2> QED
      BY <2>3, <2>4, <2>5, <2>6, NewVersion DEF Scale, Inv, TypeOK
  <1>7. CASE Touch
    <2>1. svc' \in Service /\ svc'.version = svc.version + 1 /\ CountPreserved'
      BY <1>7, <1>t, CountAssumption, VersionAssumption DEF Touch, Service, TypeOK, CountPreserved
    <2> QED
      BY <1>7, <2>1, NewVersion DEF Touch, Inv, TypeOK
  <1>8. CASE Converge
    BY <1>8, SameService DEF Converge, Inv, TypeOK, CountPreserved, Service
  <1>9. CASE UNCHANGED vars
    BY <1>9, SameService DEF vars, Inv, TypeOK, CountPreserved
  <1>10. CASE SweepError
    BY <1>10, SameService DEF SweepError, GiveUp, Inv, TypeOK, CountPreserved
  <1> QED
    BY <1>1, <1>2, <1>3, <1>4, <1>5, <1>6, <1>7, <1>8, <1>9, <1>10 DEF Next

\* The variables have their types in every reachable state.
THEOREM QuiescerTypes == Spec => []TypeOK
  <1>1. Inv => TypeOK
    BY DEF Inv
  <1> QED
    BY InvInit, InvNext, <1>1, PTL DEF Spec

\* The operator's replica count is never lost: no interleaving of Stop, Start, the
\* recovery sweep and the operator, and no crash, records or restores another one.
THEOREM CountNeverLost == Spec => []CountPreserved
  <1>1. Inv => CountPreserved
    BY DEF Inv
  <1> QED
    BY InvInit, InvNext, <1>1, PTL DEF Spec

-----------------------------------------------------------------------------
(* Recovery.  While the label is there, somebody who will take it away is  *)
(* there too: a client before its Start, one whose Start has read the      *)
(* current version, or the sweep; whoever loses the race for an update     *)
(* loses it to another such client.  What breaks this argument is an       *)
(* update of the operator's, made while the service is quiesced, and       *)
(* whoever gives up: that is what touched and gaveUp note.                 *)

WillStart(c) == \/ pc[c] \in {"drain", "work", "restart"}
                \/ pc[c] = "start" /\ read[c].version = svc.version

Noted == touched \/ gaveUp

Responsible ==
  /\ Noted => svc.label # None
  /\ daemon # "up" => \A c \in Clients \ Commands : pc[c] = "idle"
  /\ daemon = "sweeping" /\ svc.label # None /\ ~Noted
       => sweep = svc \/ \E c \in Clients : WillStart(c)
  /\ daemon = "up" /\ svc.label # None /\ ~Noted => \E c \in Clients : WillStart(c)

LEMMA ResponsibleNext == Inv /\ Responsible /\ [Next]_vars => Responsible'
  <1> SUFFICES ASSUME Inv, Responsible, [Next]_vars PROVE Responsible'
    OBVIOUS
  <1>t. TypeOK
    BY DEF Inv
  <1>1. ASSUME NEW c \in Clients, ClientStep(c) PROVE Responsible'
    <2>0. /\ UNCHANGED <<daemon, sweep>>
          /\ \A d \in Clients : d # c => pc'[d] = pc[d] /\ read'[d] = read[d]
      <3>1. CASE StopInspect(c) \/ StartInspect(c)
        BY <3>1, <1>t DEF StopInspect, StartInspect, Goto, TypeOK
      <3>2. CASE StopUpdate(c) \/ StopError(c) \/ StartUpdate(c) \/ StartConflict(c)
        BY <3>2, <1>t DEF StopUpdate, StopError, StartUpdate, StartConflict, Goto, TypeOK
      <3>3. CASE Drained(c) \/ DrainTimeout(c) \/ MoverReturns(c)
        BY <3>3, <1>t DEF Drained, DrainTimeout, StartMover, MoverReturns, Goto, TypeOK
      <3>4. CASE StartError(c) \/ Killed(c) \/ MoverEnds(c)
        BY <3>4, <1>t DEF StartError, Killed, MoverEnds, Goto, TypeOK
      <3> QED  BY <1>1, <3>1, <3>2, <3>3, <3>4 DEF ClientStep
    <2>w. daemon # "up" => \A d \in Clients \ Commands : pc'[d] = "idle"
      <3> SUFFICES ASSUME daemon # "up", NEW d \in Clients \ Commands PROVE pc'[d] = "idle"
        OBVIOUS
      <3>1. pc[d] = "idle"
        BY DEF Responsible
      <3>2. CASE d = c
        BY <1>1, <3>1, <3>2 DEF ClientStep, StopInspect, StopUpdate, StopError, Drained,
             DrainTimeout, StartInspect, StartUpdate, StartConflict, StartError, Killed,
             MoverEnds, MoverReturns, Working
      <3> QED  BY <2>0, <3>1, <3>2
    <2>q. SUFFICES /\ Noted' => svc'.label # None
                   /\ svc'.label # None /\ ~Noted'
                        => \/ \E d \in Clients : WillStart(d)'
                           \/ daemon = "sweeping" /\ sweep = svc /\ UNCHANGED svc
                           \/ daemon \notin {"sweeping", "up"}
      BY <2>0, <2>w DEF Responsible
    <2>o. svc.label # None /\ ~Noted
             => \/ \E d \in Clients : WillStart(d)
                \/ daemon = "sweeping" /\ sweep = svc
                \/ daemon \notin {"sweeping", "up"}
      BY DEF Responsible
    <2>1. CASE MoverEnds(c)
      BY <2>1, <2>o DEF MoverEnds, Responsible, WillStart, Noted
    <2>2. CASE StartUpdate(c)
      BY <2>2 DEF StartUpdate, Restore, Restored, Noted
    <2>3. CASE StartError(c) \/ Killed(c)
      <3>1. gaveUp' = (svc.label # None) /\ UNCHANGED <<svc, touched>>
        BY <2>3 DEF StartError, Killed, GiveUp
      <3> QED  BY <3>1 DEF Responsible, Noted
    <2>4. CASE StopUpdate(c)
      <3>1. svc'.label # None
        BY <2>4, <1>t, CountAssumption DEF StopUpdate, Quiesced, TypeOK, Service
      <3>2. WillStart(c)'
        BY <2>4, <1>t DEF StopUpdate, Goto, TypeOK, WillStart
      <3> QED  BY <3>1, <3>2
    <2>5. CASE StopError(c)
      <3>1. CASE UNCHANGED <<svc, gaveUp>>
        <4>1. UNCHANGED <<touched, read>> /\ ~WillStart(c)
          BY <2>5 DEF StopError, WillStart
        <4> QED  BY <2>0, <2>o, <3>1, <4>1 DEF WillStart, Noted, Responsible
      <3>2. CASE svc' = Quiesced(read[c]) /\ gaveUp' = TRUE
        <4>1. svc'.label # None
          BY <3>2, <1>t, CountAssumption DEF Quiesced, TypeOK, Service
        <4> QED  BY <3>2, <4>1 DEF Noted
      <3> QED  BY <2>5, <3>1, <3>2 DEF StopError
    <2>6. CASE StopInspect(c) \/ StartConflict(c)
      <3>1. UNCHANGED <<svc, stranding>> /\ ~WillStart(c)
        BY <2>6 DEF StopInspect, StartConflict, WillStart, Refused
      <3>2. \A d \in Clients : WillStart(d) => WillStart(d)'
        BY <2>0, <3>1 DEF WillStart
      <3> QED  BY <2>o, <3>1, <3>2 DEF Noted, Responsible
    <2>7. CASE Drained(c) \/ DrainTimeout(c) \/ MoverReturns(c)
      <3>1. pc'[c] \in {"work", "restart"} /\ UNCHANGED <<svc, stranding>>
        BY <2>7, <1>t DEF Drained, DrainTimeout, StartMover, MoverReturns, Goto, TypeOK
      <3> QED  BY <3>1 DEF WillStart, Noted, Responsible
    <2>8. CASE StartInspect(c)
      <3>1. UNCHANGED <<svc, stranding>> /\ read'[c] = svc
        BY <2>8, <1>t DEF StartInspect, TypeOK
      <3>2. svc.label # None => pc'[c] = "start"
        BY <2>8, <1>t DEF StartInspect, Goto, TypeOK
      <3> QED  BY <3>1, <3>2 DEF WillStart, Noted, Responsible
    <2> QED
      BY <1>1, <2>1, <2>2, <2>3, <2>4, <2>5, <2>6, <2>7, <2>8 DEF ClientStep
  <1>2. CASE Crash \/ StartDaemon
    BY <1>2, <1>t DEF Crash, StartDaemon, Responsible, TypeOK, Noted
  <1>3. CASE SweepList
    BY <1>3 DEF SweepList, Responsible, Noted
  <1>4. CASE SweepUpdate
    <2>1. CASE Restore(sweep)
      BY <1>4, <2>1 DEF SweepUpdate, Restore, Restored, Responsible, Noted
    <2>2. CASE Refused(sweep) /\ UNCHANGED <<svc, history>>
      BY <1>4, <2>2 DEF SweepUpdate, Refused, Responsible, WillStart, Noted
    <2> QED  BY <1>4, <2>1, <2>2 DEF SweepUpdate
  <1>5. CASE SweepError
    BY <1>5 DEF SweepError, GiveUp, Responsible, Noted
  <1>6. CASE \E n \in Counts : Scale(n)
    <2> PICK n \in Counts : Scale(n)
      BY <1>6
    <2>1. /\ svc'.label = None /\ svc.label = None
          /\ UNCHANGED <<daemon, sweep, pc, stranding>>
      BY <1>t DEF Scale, TypeOK, Service
    <2> QED  BY <2>1 DEF Responsible, Noted
  <1>7. CASE Touch
    <2>1. svc'.label = svc.label /\ touched' = (svc.label # None) /\ UNCHANGED gaveUp
      BY <1>7, <1>t DEF Touch, TypeOK, Service
    <2>2. UNCHANGED <<daemon, sweep, pc>>
      BY <1>7 DEF Touch
    <2> QED  BY <2>1, <2>2 DEF Responsible, Noted
  <1>8. CASE Converge \/ UNCHANGED vars
    BY <1>8 DEF Converge, vars, Responsible, WillStart, Noted
  <1> QED
    BY <1>1, <1>2, <1>3, <1>4, <1>5, <1>6, <1>7, <1>8 DEF Next

\* Neither a crash of the daemon nor a race between clients strands a service at zero
\* replicas.  Only a call that fails other than by losing a race, the death of a
\* command or an update of the operator's to the quiesced service does.
THEOREM NeverStranded == Spec => []NotStranded
  <1>1. Init => Responsible
    BY DEF Init, Responsible, Noted
  <1>2. Responsible => NotStranded
    BY DEF Responsible, NotStranded, WillStart, Noted
  <1> QED
    BY InvInit, InvNext, ResponsibleNext, <1>1, <1>2, PTL DEF Spec

-----------------------------------------------------------------------------
(* Quiescence.  A mover whose Stop saw the tasks end, and under which no   *)
(* restore was accepted, was started on a quiesced service without tasks;  *)
(* the label stays until a restore is accepted, and while the label is     *)
(* there the service is scaled to 0 and swarm starts no task.              *)

Quiet == /\ svc.label # None => svc.replicas = 0
         /\ \A c \in mover : c \notin timedOut \cup revived => tasks = 0 /\ svc.label # None

LEMMA QuietNext == Inv /\ Quiet /\ [Next]_vars => Quiet'
  <1> SUFFICES ASSUME Inv, Quiet, [Next]_vars PROVE Quiet'
    OBVIOUS
  <1>t. TypeOK
    BY DEF Inv
  <1>1. ASSUME NEW c \in Clients, ClientStep(c) PROVE Quiet'
    <2>1. CASE StopInspect(c) \/ StartInspect(c) \/ StartConflict(c) \/ StartError(c) \/ Killed(c)
      BY <2>1 DEF StopInspect, StartInspect, StartConflict, StartError, Killed, GiveUp, Quiet
    <2>2. CASE StopUpdate(c) \/ StopError(c)
      <3>1. UNCHANGED <<tasks, mover, exposure>>
        BY <2>2 DEF StopUpdate, StopError
      <3>2. CASE UNCHANGED svc
        BY <3>1, <3>2 DEF Quiet
      <3>3. CASE svc' = Quiesced(read[c])
        <4>1. svc'.label # None /\ svc'.replicas = 0
          BY <3>3, <1>t, CountAssumption DEF Quiesced, TypeOK, Service
        <4> QED  BY <3>1, <4>1 DEF Quiet
      <3> QED  BY <2>2, <3>2, <3>3 DEF StopUpdate, StopError
    <2>3. CASE Drained(c) \/ DrainTimeout(c)
      BY <2>3 DEF Drained, DrainTimeout, StartMover, Quiet
    <2>4. CASE MoverReturns(c) \/ MoverEnds(c)
      BY <2>4 DEF MoverReturns, MoverEnds, Gone, Quiet
    <2>5. CASE StartUpdate(c)
      BY <2>5 DEF StartUpdate, Restore, Restored, Quiet
    <2> QED
      BY <1>1, <2>1, <2>2, <2>3, <2>4, <2>5 DEF ClientStep
  <1>2. CASE Crash \/ StartDaemon \/ SweepList \/ SweepError
    BY <1>2 DEF Crash, StartDaemon, SweepList, SweepError, GiveUp, Quiet
  <1>3. CASE SweepUpdate
    BY <1>3 DEF SweepUpdate, Restore, Restored, Quiet
  <1>4. CASE \E n \in Counts : Scale(n)
    BY <1>4 DEF Scale, Quiet
  <1>5. CASE Touch
    <2>1. svc'.label = svc.label /\ svc'.replicas = svc.replicas
      BY <1>5, <1>t DEF Touch, TypeOK, Service
    <2> QED  BY <1>5, <2>1 DEF Touch, Quiet
  <1>6. CASE Converge \/ UNCHANGED vars
    BY <1>6 DEF Converge, vars, Quiet
  <1> QED
    BY <1>1, <1>2, <1>3, <1>4, <1>5, <1>6 DEF Next

\* A mover whose Stop saw the tasks end runs without any task beside it, whatever
\* crashes, failing calls and operator updates come in between, as long as no restore
\* of the service is accepted.
THEOREM MoversReadStopped == Spec => []StoppedForTheBackup
  <1>1. Init => Quiet
    BY DEF Init, Quiet
  <1>2. Quiet => StoppedForTheBackup
    BY DEF Quiet, StoppedForTheBackup
  <1> QED
    BY InvInit, InvNext, QuietNext, <1>1, <1>2, PTL DEF Spec

=============================================================================
