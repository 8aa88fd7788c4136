-------------------------- MODULE ResticRepo_proofs --------------------------
(***************************************************************************)
(* Proofs about ResticRepo, for any number of apps, processes, movers,     *)
(* restarts and faults.  Beside the types the inductive invariant has five *)
(* parts.  Born: what a mover leaves behind is of a mover that was         *)
(* started.  Serial: a process waits for one mover of an app.  Fresh: past *)
(* its unlock a mover sees no lock of a mover that was dead when it        *)
(* started.  Expiring: what a forget is about to remove has enough newer   *)
(* snapshots.  Guarded: while nobody has lost a lock, who works holds one  *)
(* and a prune works alone, so an index stays true and what is pruned is   *)
(* in no snapshot.                                                         *)
(***************************************************************************)
EXTENDS ResticRepo, FiniteSetTheorems, TLAPS

\* The actions of a step.
LEMMA Steps ==
  ASSUME [Next]_vars
  PROVE  \/ \E p \in Procs, a \in Apps, k \in Actions, c \in SUBSET Blobs : Launch(p, a, k, c)
         \/ \E p \in Procs : Restart(p)
         \/ \E m \in Movers : MoverStep(m)
         \/ UNCHANGED vars
<1>1. {} \in SUBSET Blobs /\ Contents \subseteq SUBSET Blobs
  BY RepoAssumption
<1>2. QED
  BY <1>1 DEF Next

\* A step keeps the types.
LEMMA TypeStep == TypeOK /\ [Next]_vars => TypeOK'
<1> SUFFICES ASSUME TypeOK, [Next]_vars PROVE TypeOK'
  OBVIOUS
<1>p. /\ Commands \subseteq Pc /\ Working \subseteq Pc /\ Ended \subseteq Pc
      /\ {"probe", "init", "unlock"} \subseteq Pc
      /\ Actions \cup {"backup"} \subseteq Commands
  BY RepoAssumption DEF Pc, Commands
<1>e. ASSUME NEW m \in Movers, NEW how \in Ended, End(m, how)
      PROVE  /\ pc' \in [Movers -> Pc] /\ run' \in [Movers -> Procs \cup {Nobody}]
             /\ plan' \in [Movers -> SUBSET (Blobs \cup Movers)]
  BY <1>e, <1>p DEF End, TypeOK
<1>s. ASSUME NEW m \in Movers, NEW l \in Pc, Step(m, l)
      PROVE  /\ pc' \in [Movers -> Pc] /\ run' \in [Movers -> Procs \cup {Nobody}]
             /\ plan' \in [Movers -> SUBSET (Blobs \cup Movers)]
  BY <1>s DEF Step, TypeOK
<1>f. Fault => faults' \in 0..MaxFaults
  BY BoundAssumption DEF Fault, TypeOK
<1>u. ASSUME NEW m \in Movers
      PROVE  Unlocked(m) \subseteq Locks
  BY DEF Unlocked, TypeOK
<1> USE <1>p, <1>e, <1>s, <1>f, <1>u DEF TypeOK
<1>1. ASSUME NEW p \in Procs, NEW a \in Apps, NEW k \in Actions, NEW c \in SUBSET Blobs,
             Launch(p, a, k, c)
      PROVE  TypeOK'
  <2>1. made' \in 0..MaxMovers /\ made' \in Movers
    BY <1>1, BoundAssumption DEF Launch, Movers
  <2>2. app' \in [Movers -> Apps] /\ action' \in [Movers -> Actions \cup {"backup"}]
    BY <1>1 DEF Launch
  <2>3. run' \in [Movers -> Procs \cup {Nobody}] /\ content' \in [Movers -> SUBSET Blobs]
    BY <1>1 DEF Launch
  <2>4. pc' \in [Movers -> Pc] /\ ghosts' \in [Movers -> SUBSET Movers]
    BY <1>1 DEF Launch
  <2>5. QED
    BY <1>1, <2>1, <2>2, <2>3, <2>4 DEF Launch, repoVars
<1>2. ASSUME NEW p \in Procs, Restart(p)
      PROVE  TypeOK'
  BY <1>2, BoundAssumption DEF Restart, repoVars, history
<1>3. ASSUME NEW m \in Movers, Kill(m)
      PROVE  TypeOK'
  BY <1>3 DEF Kill, Ended, repoVars, history
<1>4. ASSUME NEW m \in Movers, Probe(m)
      PROVE  TypeOK'
  BY <1>4 DEF Probe, repoVars, history
<1>5. ASSUME NEW m \in Movers, InitRepo(m)
      PROVE  TypeOK'
  BY <1>5 DEF InitRepo, Ended, history
<1>6. ASSUME NEW m \in Movers, UnlockStale(m)
      PROVE  TypeOK'
  <2>1. action[m] \in Pc
    OBVIOUS
  <2>2. overrun' \subseteq Movers \X Movers
    BY <1>6 DEF UnlockStale, Locks
  <2>3. locks' \subseteq Locks /\ deaf' \subseteq Movers /\ faults' \in 0..MaxFaults
    BY <1>6 DEF UnlockStale
  <2>4. QED
    BY <1>6, <2>1, <2>2, <2>3 DEF UnlockStale
<1>7. ASSUME NEW m \in Movers, Begin(m)
      PROVE  TypeOK'
  <2>1. Reads(m) \subseteq Blobs \cup Movers
    BY DEF Reads, Expired
  <2>2. Blockers(m) \subseteq Movers
    BY DEF Blockers, Locks
  <2>3. [by |-> m, exclusive |-> Exclusive(pc[m])] \in Locks
    BY DEF Locks, Exclusive
  <2>4. locks' \subseteq Locks
    BY <1>7, <2>3 DEF Begin
  <2>5. plan' \in [Movers -> SUBSET (Blobs \cup Movers)]
    BY <1>7, <2>1, <2>2 DEF Begin, Ended
  <2>6. pc' \in [Movers -> Pc] /\ run' \in [Movers -> Procs \cup {Nobody}]
    BY <1>7 DEF Begin, Ended, Working
  <2>7. QED
    BY <1>7, <2>4, <2>5, <2>6 DEF Begin, history
<1>8. ASSUME NEW m \in Movers, Upload(m)
      PROVE  TypeOK'
  BY <1>8 DEF Upload, Working, history
<1>9. ASSUME NEW m \in Movers, Save(m)
      PROVE  TypeOK'
  BY <1>9 DEF Save, Commands, Ended, history
<1>10. ASSUME NEW m \in Movers, Forget(m)
       PROVE  TypeOK'
  BY <1>10 DEF Forget, Ended, history
<1>11. ASSUME NEW m \in Movers, Prune(m)
       PROVE  TypeOK'
  BY <1>11 DEF Prune, Ended, history
<1>12. ASSUME NEW m \in Movers, Read(m)
       PROVE  TypeOK'
  BY <1>12 DEF Read, Ended, history
<1>13. ASSUME NEW m \in Movers, CmdFails(m)
       PROVE  TypeOK'
  BY <1>13 DEF CmdFails, Ended, history
<1>14. CASE UNCHANGED vars
  BY <1>14 DEF vars, moverVars, repoVars, history
<1>15. QED
  BY <1>1, <1>2, <1>3, <1>4, <1>5, <1>6, <1>7, <1>8, <1>9, <1>10, <1>11, <1>12, <1>13, <1>14,
     Steps DEF MoverStep

\* What a step of a mover leaves alone.
LEMMA OneMover ==
  ASSUME TypeOK, NEW m \in Movers, MoverStep(m)
  PROVE  /\ Running(m) /\ pc'[m] # "none"
         /\ \A n \in Movers \ {m} : /\ pc'[n] = pc[n] /\ run'[n] = run[n]
                                   /\ plan'[n] = plan[n] /\ saved'[n] = saved[n]
         /\ run'[m] \in {run[m], Nobody}
         /\ UNCHANGED <<made, app, action, content, ghosts>>
<1> USE DEF Running, Commands, Working, Ended
<1>e. ASSUME NEW how \in Ended, End(m, how)
      PROVE  /\ pc'[m] # "none" /\ run'[m] = Nobody
             /\ \A n \in Movers \ {m} : /\ pc'[n] = pc[n] /\ run'[n] = run[n]
                                       /\ plan'[n] = plan[n]
  BY <1>e DEF End, TypeOK
<1>s. ASSUME NEW l \in Pc \ {"none"}, Step(m, l)
      PROVE  /\ pc'[m] # "none" /\ run'[m] = run[m]
             /\ \A n \in Movers \ {m} : /\ pc'[n] = pc[n] /\ run'[n] = run[n]
                                       /\ plan'[n] = plan[n]
  BY <1>s DEF Step, TypeOK
<1>p. /\ {"init", "unlock", "save", "forget"} \subseteq Pc \ {"none"}
      /\ action[m] \in Pc \ {"none"}
  BY RepoAssumption DEF Pc, TypeOK
<1>1. CASE Kill(m)
  BY <1>1, <1>e DEF Kill, repoVars, history
<1>2. CASE Probe(m)
  BY <1>2, <1>s, <1>p DEF Probe, repoVars, history
<1>3. CASE InitRepo(m)
  BY <1>3, <1>e, <1>s, <1>p DEF InitRepo, history
<1>4. CASE UnlockStale(m)
  BY <1>4, <1>s, <1>p DEF UnlockStale
<1>5. CASE Begin(m)
  BY <1>5, <1>e DEF Begin, history, TypeOK
<1>6. CASE Upload(m)
  BY <1>6, <1>s, <1>p DEF Upload, history
<1>7. CASE Save(m)
  BY <1>7, <1>e, <1>s, <1>p DEF Save, history, TypeOK
<1>8. CASE Forget(m)
  BY <1>8, <1>e DEF Forget, history
<1>9. CASE Prune(m)
  BY <1>9, <1>e DEF Prune, history
<1>10. CASE Read(m)
  BY <1>10, <1>e DEF Read, history
<1>11. CASE CmdFails(m)
  BY <1>11, <1>e DEF CmdFails, history
<1>12. QED
  BY <1>1, <1>2, <1>3, <1>4, <1>5, <1>6, <1>7, <1>8, <1>9, <1>10, <1>11 DEF MoverStep

-----------------------------------------------------------------------------
\* A lock is that of a mover at work, or of one that was killed at work.
Born ==
  /\ \A m \in Movers : m > made => pc[m] = "none"
  /\ \A m \in Movers : pc[m] = "none" => run[m] = Nobody /\ saved[m] = 0
  /\ \A m \in snaps : saved[m] > 0
  /\ \A l \in locks : pc[l.by] \in Working \cup {"killed"}
  /\ \A x \in overrun : pc[x[1]] # "none" /\ pc[x[2]] # "none"
  /\ \A m \in Movers : \A g \in ghosts[m] : pc[g] = "killed"

\* The mover a Launch starts is a new one.
LEMMA NewMover ==
  ASSUME TypeOK, Born, NEW p, NEW a, NEW k, NEW c, Launch(p, a, k, c)
  PROVE  /\ made + 1 \in Movers /\ pc[made + 1] = "none" /\ made' = made + 1
         /\ pc'[made + 1] \in {"probe", "unlock"} /\ run'[made + 1] = p
         /\ app'[made + 1] = a
         /\ \A n \in Movers \ {made + 1} :
              /\ pc'[n] = pc[n] /\ run'[n] = run[n] /\ app'[n] = app[n]
              /\ content'[n] = content[n] /\ ghosts'[n] = ghosts[n]
         /\ UNCHANGED <<plan, locks, blobs, snaps, saved, deaf, overrun>>
<1>1. made + 1 \in Movers /\ made + 1 > made
  BY BoundAssumption DEF Launch, TypeOK, Movers
<1>2. QED
  BY <1>1 DEF Launch, TypeOK, Born, repoVars

\* A step keeps Born.
LEMMA BornStep == TypeOK /\ Born /\ [Next]_vars => Born'
<1> SUFFICES ASSUME TypeOK, Born, [Next]_vars PROVE Born'
  OBVIOUS
<1> USE DEF Working
<1>1. ASSUME NEW p \in Procs, NEW a \in Apps, NEW k \in Actions, NEW c \in SUBSET Blobs,
             Launch(p, a, k, c)
      PROVE  Born'
  <2>1. \A l \in locks : l.by \in Movers
    BY DEF TypeOK, Locks
  <2> DEFINE new == made + 1
  <2>2. /\ new \in Movers /\ made' = new /\ pc[new] = "none"
        /\ pc'[new] \in {"probe", "unlock"}
        /\ \A n \in Movers \ {new} : pc'[n] = pc[n] /\ run'[n] = run[n] /\ ghosts'[n] = ghosts[n]
        /\ UNCHANGED <<locks, snaps, saved, overrun>>
    BY <1>1, NewMover
  <2> HIDE DEF new
  <2>3. ghosts'[new] = {m \in Movers : pc[m] = "killed"}
    BY <1>1, <2>2 DEF Launch, TypeOK
  <2>4. \A n \in Movers : n > made' => n > made /\ n # new
    BY <2>2 DEF new, TypeOK, Movers
  <2>5. \A n \in Movers : pc[n] # "none" => n # new
    BY <2>2
  <2>6. \A n \in Movers : \A g \in ghosts'[n] : pc'[g] = "killed"
    <3> SUFFICES ASSUME NEW n \in Movers, NEW g \in ghosts'[n] PROVE pc'[g] = "killed"
      OBVIOUS
    <3>1. g \in Movers /\ pc[g] = "killed"
      BY <2>2, <2>3 DEF Born, TypeOK
    <3>2. QED
      BY <3>1, <2>2, <2>5
  <2>7. QED
    BY <2>1, <2>2, <2>4, <2>5, <2>6 DEF Born, TypeOK
<1>2. ASSUME NEW p \in Procs, Restart(p)
      PROVE  Born'
  BY <1>2 DEF Restart, Born, TypeOK, repoVars, history
<1>3. ASSUME NEW m \in Movers, MoverStep(m)
      PROVE  Born'
  <2>1. pc[m] \notin {"none", "killed"}
    BY <1>3, OneMover DEF Running, Ended
  <2>2. /\ \A n \in Movers : n > made' => pc'[n] = "none"
        /\ \A n \in Movers : pc'[n] = "none" => run'[n] = Nobody /\ saved'[n] = 0
        /\ \A n \in Movers : \A g \in ghosts'[n] : pc'[g] = "killed"
    BY <1>3, <2>1, OneMover DEF Born, TypeOK
  <2>3. \A n \in snaps' : saved'[n] > 0
    <3>1. CASE Save(m)
      BY <3>1, OneMover DEF Save, Born, TypeOK
    <3>2. CASE ~Save(m)
      BY <1>3, <3>2 DEF MoverStep, Kill, Probe, InitRepo, UnlockStale, Begin, Upload, Forget,
           Prune, Read, CmdFails, repoVars, Born, TypeOK
    <3>3. QED
      BY <3>1, <3>2
  <2>4. \A l \in locks' : pc'[l.by] \in Working \cup {"killed"}
    <3>1. \A l \in locks : l.by \in Movers /\ pc[l.by] \in Working \cup {"killed"}
      BY DEF TypeOK, Locks, Born
    <3>2. \A l \in locks : l.by # m => pc'[l.by] \in Working \cup {"killed"}
      BY <1>3, <3>1, OneMover
    <3>3. CASE Kill(m) \/ Upload(m)
      BY <3>1, <3>2, <3>3 DEF Kill, Upload, End, Step, repoVars, TypeOK
    <3>4. CASE Probe(m) \/ InitRepo(m) \/ UnlockStale(m)
      BY <3>1, <3>2, <3>4 DEF Probe, InitRepo, UnlockStale, repoVars
    <3>5. CASE Begin(m)
      BY <3>1, <3>2, <3>5 DEF Begin, Commands, TypeOK
    <3>6. CASE Save(m) \/ Forget(m) \/ Prune(m) \/ Read(m) \/ CmdFails(m)
      BY <3>2, <3>6 DEF Save, Forget, Prune, Read, CmdFails, Unlocked
    <3>7. QED
      BY <1>3, <3>3, <3>4, <3>5, <3>6 DEF MoverStep
  <2>5. \A x \in overrun' : pc'[x[1]] # "none" /\ pc'[x[2]] # "none"
    <3>1. \A n \in Movers : pc[n] # "none" => pc'[n] # "none"
      BY <1>3, OneMover
    <3>2. CASE UnlockStale(m)
      <4>1. \A x \in overrun' : \/ x \in overrun
                               \/ \E l \in locks : x = <<l.by, m>> /\ pc[l.by] # "none"
        BY <3>2 DEF UnlockStale, Running
      <4>2. QED
        BY <3>1, <4>1, <2>1 DEF Born, TypeOK, Locks
    <3>3. CASE UNCHANGED overrun
      BY <3>1, <3>3 DEF Born, TypeOK
    <3>4. QED
      BY <1>3, <3>2, <3>3 DEF MoverStep, Kill, Probe, InitRepo, Begin, Upload, Save, Forget,
         Prune, Read, CmdFails, history
  <2>6. QED
    BY <2>2, <2>3, <2>4, <2>5 DEF Born
<1>4. CASE UNCHANGED vars
  BY <1>4 DEF vars, moverVars, repoVars, history, Born
<1>5. QED
  BY <1>1, <1>2, <1>3, <1>4, Steps

-----------------------------------------------------------------------------
\* A process waits for at most one mover of an app.
Serial ==
  \A m, n \in Movers : run[m] # Nobody /\ run[n] = run[m] /\ app[n] = app[m] => m = n

\* The per-app lock of a process decides whose lock an unlock may remove.
LEMMA StrangersStep ==
  TypeOK /\ Born /\ Serial /\ OnlyStrangersOverrun /\ [Next]_vars
    => Serial' /\ OnlyStrangersOverrun'
<1> SUFFICES ASSUME TypeOK, Born, Serial, OnlyStrangersOverrun, [Next]_vars
             PROVE  Serial' /\ OnlyStrangersOverrun'
  OBVIOUS
<1>0. \A x \in overrun : x[1] \in Movers /\ x[2] \in Movers
  BY DEF TypeOK
<1>1. ASSUME NEW p \in Procs, NEW a \in Apps, NEW k \in Actions, NEW c \in SUBSET Blobs,
             Launch(p, a, k, c)
      PROVE  Serial' /\ OnlyStrangersOverrun'
  <2>1. \A x \in overrun : x[1] # made + 1 /\ x[2] # made + 1
    BY <1>1, NewMover DEF Born
  <2>2. OnlyStrangersOverrun'
    BY <1>0, <1>1, <2>1, NewMover DEF OnlyStrangersOverrun
  <2>3. \A m \in Movers : run[m] = p => app[m] # a
    BY <1>1 DEF Launch
  <2>4. Serial'
    BY <1>1, <2>3, NewMover DEF Serial
  <2>5. QED
    BY <2>2, <2>4
<1>2. ASSUME NEW p \in Procs, Restart(p)
      PROVE  Serial' /\ OnlyStrangersOverrun'
  <2>1. /\ \A m \in Movers : run'[m] = IF run[m] = p THEN Nobody ELSE run[m]
        /\ app' = app /\ overrun' = overrun
    BY <1>2 DEF Restart, history
  <2>2. QED
    BY <1>0, <2>1 DEF Serial, OnlyStrangersOverrun
<1>3. ASSUME NEW m \in Movers, MoverStep(m)
      PROVE  Serial' /\ OnlyStrangersOverrun'
  <2>1. /\ \A n \in Movers : run'[n] \in {run[n], Nobody}
        /\ app' = app
    BY <1>3, OneMover
  <2>2. Serial'
    BY <2>1 DEF Serial
  <2>3. \A x \in overrun : \/ app'[x[1]] # app'[x[2]] \/ run'[x[1]] # run'[x[2]]
                         \/ run'[x[1]] = Nobody
    BY <1>0, <2>1 DEF OnlyStrangersOverrun
  <2>4. CASE UnlockStale(m)
    <3>1. run' = run /\ pc[m] = "unlock"
      BY <2>4 DEF UnlockStale, Step
    <3>2. \A l \in locks : l.by \in Movers /\ l.by # m
      BY <3>1 DEF Born, TypeOK, Locks, Working
    <3>3. \A l \in locks : \/ app[l.by] # app[m] \/ run[l.by] # run[m] \/ run[l.by] = Nobody
      BY <3>2 DEF Serial
    <3>4. \A x \in overrun' : x \in overrun \/ \E l \in locks : x = <<l.by, m>>
      BY <2>4 DEF UnlockStale
    <3>5. QED
      BY <2>1, <2>2, <2>3, <3>1, <3>3, <3>4 DEF OnlyStrangersOverrun
  <2>5. CASE UNCHANGED overrun
    BY <2>2, <2>3, <2>5 DEF OnlyStrangersOverrun
  <2>6. QED
    BY <1>3, <2>4, <2>5 DEF MoverStep, Kill, Probe, InitRepo, Begin, Upload, Save, Forget,
       Prune, Read, CmdFails, history
<1>4. CASE UNCHANGED vars
  BY <1>4 DEF vars, moverVars, history, Serial, OnlyStrangersOverrun
<1>5. QED
  BY <1>1, <1>2, <1>3, <1>4, Steps

-----------------------------------------------------------------------------
\* Past its unlock a mover sees no lock of a mover that was dead when it started.
Fresh ==
  \A m \in Movers \ deaf :
    pc[m] \in Commands \cup Working => \A l \in locks : l.by \notin ghosts[m]

\* An unlock clears every lock; a lock taken later is of a mover that runs.
LEMMA WedgedStep ==
  TypeOK /\ Born /\ Fresh /\ NeverWedged /\ [Next]_vars => Fresh' /\ NeverWedged'
<1> SUFFICES ASSUME TypeOK, Born, Fresh, NeverWedged, [Next]_vars
             PROVE  Fresh' /\ NeverWedged'
  OBVIOUS
<1>1. ASSUME NEW p \in Procs, NEW a \in Apps, NEW k \in Actions, NEW c \in SUBSET Blobs,
             Launch(p, a, k, c)
      PROVE  Fresh' /\ NeverWedged'
  BY <1>1, NewMover DEF Fresh, NeverWedged, Commands, Working
<1>2. ASSUME NEW p \in Procs, Restart(p)
      PROVE  Fresh' /\ NeverWedged'
  BY <1>2 DEF Restart, repoVars, history, Fresh, NeverWedged
<1>3. ASSUME NEW m \in Movers, MoverStep(m)
      PROVE  Fresh' /\ NeverWedged'
  <2>1. /\ ghosts' = ghosts /\ pc[m] # "killed" /\ pc[m] # "refused"
        /\ \A n \in Movers \ {m} : pc'[n] = pc[n] /\ plan'[n] = plan[n]
    BY <1>3, OneMover DEF Running, Ended
  <2>2. \A n \in Movers : m \notin ghosts[n]
    BY <2>1 DEF Born
  <2>3. deaf \subseteq deaf' /\ \A n \in Movers : n \in deaf' /\ n \notin deaf => n = m
    BY <1>3 DEF MoverStep, Kill, Probe, InitRepo, UnlockStale, Begin, Upload, Save, Forget,
       Prune, Read, CmdFails, history
  <2>4. \A l \in locks' : l \in locks \/ l.by = m
    BY <1>3 DEF MoverStep, Kill, Probe, InitRepo, UnlockStale, Begin, Upload, Save, Forget,
       Prune, Read, CmdFails, repoVars, Unlocked
  <2>5. /\ pc'[m] \in Commands \cup Working
        /\ m \notin deaf'
        => locks' = {} \/ pc[m] \in Commands \cup Working
    BY <1>3 DEF MoverStep, Kill, Probe, InitRepo, UnlockStale, Begin, Upload, Save, Forget,
       Prune, Read, CmdFails, Step, End, Commands, Working, TypeOK
  <2>6. Fresh'
    BY <2>1, <2>2, <2>3, <2>4, <2>5 DEF Fresh
  <2>7. /\ pc'[m] = "refused" /\ plan'[m] \subseteq ghosts'[m]
        => m \in deaf'
    <3>1. CASE Begin(m) /\ config /\ Blockers(m) # {}
      <4>1. plan'[m] = Blockers(m) /\ pc[m] \in Commands
        BY <3>1 DEF Begin, TypeOK
      <4>2. QED
        BY <2>1, <2>3, <3>1, <4>1 DEF Blockers, Fresh
    <3>2. CASE Begin(m) /\ ~(config /\ Blockers(m) # {})
      BY <3>2 DEF Begin, End, Commands, TypeOK
    <3>3. CASE ~Begin(m)
      BY <1>3, <3>3, RepoAssumption DEF MoverStep, Kill, Probe, InitRepo, UnlockStale, Upload,
         Save, Forget, Prune, Read, CmdFails, Step, End, TypeOK
    <3>4. QED
      BY <3>1, <3>2, <3>3
  <2>8. NeverWedged'
    BY <2>1, <2>3, <2>7 DEF NeverWedged
  <2>9. QED
    BY <2>6, <2>8
<1>4. CASE UNCHANGED vars
  BY <1>4 DEF vars, moverVars, repoVars, history, Fresh, NeverWedged
<1>5. QED
  BY <1>1, <1>2, <1>3, <1>4, Steps

-----------------------------------------------------------------------------
\* A mover saves once.  What a forget is about to remove has enough newer snapshots of
\* its app.
Expiring ==
  \A m \in Movers :
    /\ pc[m] \in {"probe", "init", "unlock", "backup", "upload", "save"} => saved[m] = 0
    /\ pc[m] \in {"forget", "forgetting"} => Retention[app[m]] > 0
    /\ pc[m] = "forgetting" =>
         \A s \in plan[m] : /\ s \in Movers /\ app[s] = app[m]
                             /\ saved[s] > 0
                             /\ Cardinality(Newer(s, Movers)) >= Retention[app[m]]

\* More snapshots, more newer ones.
LEMMA NewerGrows ==
  ASSUME NEW S \in SUBSET Movers, NEW T \in SUBSET S
  PROVE  Cardinality(T) \in Nat /\ Cardinality(S) \in Nat /\ Cardinality(T) <= Cardinality(S)
<1>1. IsFiniteSet(Movers)
  BY FS_Interval, BoundAssumption DEF Movers
<1>2. IsFiniteSet(S)
  BY <1>1, FS_Subset
<1>3. QED
  BY <1>2, FS_Subset, FS_CardinalityType

\* A snapshot that has enough newer ones never has fewer.
LEMMA KeptStep ==
  TypeOK /\ Born /\ Expiring /\ Kept /\ [Next]_vars => Expiring' /\ Kept'
<1> SUFFICES ASSUME TypeOK, Born, Expiring, Kept, [Next]_vars PROVE Expiring' /\ Kept'
  OBVIOUS
<1>r. \A m \in Movers : app[m] \in Apps /\ Retention[app[m]] \in Nat
  BY RepoAssumption DEF TypeOK
<1>1. ASSUME NEW p \in Procs, NEW a \in Apps, NEW k \in Actions, NEW c \in SUBSET Blobs,
             Launch(p, a, k, c)
      PROVE  Expiring' /\ Kept'
  <2> DEFINE new == made + 1
  <2>1. /\ new \in Movers /\ saved[new] = 0 /\ new \notin snaps
        /\ pc'[new] \in {"probe", "unlock"}
        /\ \A n \in Movers \ {new} : pc'[n] = pc[n] /\ app'[n] = app[n]
        /\ UNCHANGED <<plan, snaps, saved>>
    BY <1>1, NewMover DEF Born
  <2> HIDE DEF new
  <2>2. \A s \in Movers : saved[s] > 0 => Newer(s, Movers)' = Newer(s, Movers) /\ s # new
    BY <2>1 DEF Newer, TypeOK
  <2>3. Expiring'
    BY <2>1, <2>2 DEF Expiring
  <2>4. Kept'
    BY <2>1, <2>2 DEF Kept
  <2>5. QED
    BY <2>3, <2>4
<1>2. ASSUME NEW p \in Procs, Restart(p)
      PROVE  Expiring' /\ Kept'
  BY <1>2 DEF Restart, repoVars, Expiring, Kept, Newer
<1>3. ASSUME NEW m \in Movers, MoverStep(m)
      PROVE  Expiring' /\ Kept'
  <2>1. /\ app' = app
        /\ \A n \in Movers \ {m} : /\ pc'[n] = pc[n] /\ plan'[n] = plan[n]
                                  /\ saved'[n] = saved[n]
    BY <1>3, OneMover
  <2>2. saved'[m] = saved[m] \/ Save(m)
    BY <1>3 DEF MoverStep, Kill, Probe, InitRepo, UnlockStale, Begin, Upload, Forget,
       Prune, Read, CmdFails, repoVars
  <2>3. \A s \in Movers : saved[s] > 0 /\ saved'[s] = saved[s]
           => /\ Cardinality(Newer(s, Movers)) \in Nat
              /\ Cardinality(Newer(s, Movers)') \in Nat
              /\ Cardinality(Newer(s, Movers)) <= Cardinality(Newer(s, Movers)')
    <3> SUFFICES ASSUME NEW s \in Movers, saved[s] > 0, saved'[s] = saved[s]
                 PROVE  Newer(s, Movers) \subseteq Newer(s, Movers)'
      BY NewerGrows DEF Newer
    <3>1. \A n \in Movers : saved[n] > saved[s] => saved'[n] = saved[n]
      BY <2>1, <2>2 DEF Save, Expiring, TypeOK
    <3>2. QED
      BY <2>1, <3>1 DEF Newer
  <2>4. Expiring'
    <3>1. ASSUME NEW n \in Movers, pc'[n] = "forgetting"
          PROVE  \A s \in plan'[n] : /\ s \in Movers /\ app[s] = app[n]
                                      /\ saved[s] > 0
                                      /\ Cardinality(Newer(s, Movers)) >= Retention[app[n]]
      <4>1. CASE n # m
        BY <2>1, <3>1, <4>1 DEF Expiring
      <4>2. CASE n = m
        <5>1. pc[m] = "forget" /\ plan'[m] = Expired(app[m])
          BY <1>3, <3>1, <4>2, RepoAssumption DEF MoverStep, Kill, Probe, InitRepo, UnlockStale,
             Begin, Upload, Save, Forget, Prune, Read, CmdFails, Step, End, Reads, Commands,
             TypeOK
        <5>2. \A s \in snaps : Newer(s, snaps) \subseteq Newer(s, Movers)
          BY DEF Newer, TypeOK
        <5>3. \A s \in snaps : /\ Cardinality(Newer(s, snaps)) \in Nat
                               /\ Cardinality(Newer(s, Movers)) \in Nat
                               /\ Cardinality(Newer(s, snaps)) <= Cardinality(Newer(s, Movers))
          BY <5>2, NewerGrows DEF Newer
        <5>4. QED
          BY <4>2, <5>1, <5>3, <1>r DEF Expired, Born, TypeOK
      <4>3. QED
        BY <4>1, <4>2
    <3>2. \A n \in Movers : saved[n] > 0 => saved'[n] = saved[n]
      BY <2>1, <2>2 DEF Save, Expiring, TypeOK
    <3>3. ASSUME NEW n \in Movers
          PROVE  /\ pc'[n] \in {"forget", "forgetting"} => Retention[app[n]] > 0
                 /\ pc'[n] \in {"probe", "init", "unlock", "backup", "upload", "save"}
                    => saved'[n] = 0
      <4>1. CASE n # m
        BY <2>1, <4>1 DEF Expiring
      <4>2. CASE n = m
        BY <1>3, <4>2, RepoAssumption DEF MoverStep, Kill, Probe, InitRepo, UnlockStale, Begin,
           Upload, Save, Forget, Prune, Read, CmdFails, Step, End, Commands, Expiring, TypeOK,
           repoVars
      <4>3. QED
        BY <4>1, <4>2
    <3>4. ASSUME NEW n \in Movers, pc'[n] = "forgetting", NEW s \in plan'[n]
          PROVE  /\ s \in Movers /\ app'[s] = app'[n] /\ saved'[s] > 0
                 /\ Cardinality(Newer(s, Movers)') >= Retention[app'[n]]
      <4>1. /\ s \in Movers /\ app[s] = app[n] /\ saved[s] > 0
            /\ Cardinality(Newer(s, Movers)) >= Retention[app[n]]
        BY <3>1, <3>4
      <4>2. QED
        BY <4>1, <3>2, <2>1, <2>3, <1>r
    <3>5. QED
      BY <2>1, <3>3, <3>4 DEF Expiring
  <2>5. Kept'
    <3> SUFFICES ASSUME NEW s \in Movers, saved'[s] > 0,
                        \/ Retention[app[s]] = 0
                        \/ Cardinality(Newer(s, Movers)') < Retention[app[s]]
                 PROVE  s \in snaps'
      BY <2>1 DEF Kept
    <3>1. CASE saved'[s] # saved[s]
      BY <2>1, <2>2, <3>1 DEF Save
    <3>2. CASE saved'[s] = saved[s]
      <4>1. s \in snaps
        BY <2>3, <3>2, <1>r DEF Kept
      <4>2. CASE Forget(m)
        BY <2>3, <3>2, <4>1, <4>2, <1>r DEF Forget, Expiring
      <4>3. CASE ~Forget(m)
        BY <1>3, <4>1, <4>3 DEF MoverStep, Kill, Probe, InitRepo, UnlockStale, Begin, Upload,
           Save, Prune, Read, CmdFails, repoVars
      <4>4. QED
        BY <4>2, <4>3
    <3>3. QED
      BY <3>1, <3>2
  <2>6. QED
    BY <2>4, <2>5
<1>4. CASE UNCHANGED vars
  BY <1>4 DEF vars, moverVars, repoVars, Expiring, Kept, Newer
<1>5. QED
  BY <1>1, <1>2, <1>3, <1>4, Steps

-----------------------------------------------------------------------------
\* While nobody has lost a lock: who works holds one, exclusive for a prune, which works
\* alone; an index is true and what is pruned is in no snapshot.
Guarded ==
  overrun = {} =>
    /\ \A m \in Movers : pc[m] \in Working =>
         \E l \in locks : l.by = m /\ (pc[m] = "pruning" => l.exclusive)
    /\ \A m, n \in Movers : pc[m] = "pruning" => pc[n] \notin {"upload", "save"}
    /\ \A m \in Movers : /\ pc[m] = "upload" => plan[m] \subseteq blobs
                         /\ pc[m] = "save" => content[m] \subseteq blobs
                         /\ pc[m] = "pruning" => \A s \in snaps : plan[m] \cap content[s] = {}

\* A backup and a prune never work at the same time.
LEMMA IntactStep == TypeOK /\ Born /\ Guarded /\ Intact /\ [Next]_vars => Guarded' /\ Intact'
<1> SUFFICES ASSUME TypeOK, Born, Guarded, Intact, [Next]_vars PROVE Guarded' /\ Intact'
  OBVIOUS
<1> USE DEF Working
<1>1. ASSUME NEW p \in Procs, NEW a \in Apps, NEW k \in Actions, NEW c \in SUBSET Blobs,
             Launch(p, a, k, c)
      PROVE  Guarded' /\ Intact'
  <2> DEFINE new == made + 1
  <2>1. /\ new \in Movers /\ new \notin snaps /\ snaps \subseteq Movers
        /\ pc'[new] \in {"probe", "unlock"}
        /\ \A n \in Movers \ {new} : pc'[n] = pc[n] /\ content'[n] = content[n]
        /\ UNCHANGED <<plan, locks, blobs, snaps, overrun>>
    BY <1>1, NewMover DEF Born, TypeOK
  <2> HIDE DEF new
  <2>2. QED
    BY <2>1 DEF Guarded, Intact
<1>2. ASSUME NEW p \in Procs, Restart(p)
      PROVE  Guarded' /\ Intact'
  BY <1>2 DEF Restart, repoVars, history, Guarded, Intact
<1>3. ASSUME NEW m \in Movers, MoverStep(m)
      PROVE  Guarded' /\ Intact'
  <2>1. /\ content' = content
        /\ \A n \in Movers \ {m} : pc'[n] = pc[n] /\ plan'[n] = plan[n]
        /\ snaps \subseteq Movers
    BY <1>3, OneMover DEF TypeOK
  <2>2. overrun \subseteq overrun'
    BY <1>3 DEF MoverStep, Kill, Probe, InitRepo, UnlockStale, Begin, Upload, Save, Forget,
       Prune, Read, CmdFails, history
  <2> SUFFICES ASSUME overrun' = {}, overrun = {}
               PROVE  Guarded' /\ Intact'
    BY <2>2 DEF Guarded, Intact
  <2>l. \A n \in Movers \ {m} : pc'[n] \in Working =>
           \E l \in locks' : l.by = n /\ (pc'[n] = "pruning" => l.exclusive)
    <3>1. CASE UnlockStale(m)
      <4>1. \A l \in locks : ~Running(l.by) \/ locks' = locks
        BY <3>1 DEF UnlockStale
      <4>2. QED
        BY <2>1, <4>1 DEF Guarded, Running, Ended
    <3>2. CASE ~UnlockStale(m)
      <4>1. \A l \in locks : l.by # m => l \in locks'
        BY <1>3, <3>2 DEF MoverStep, Kill, Probe, InitRepo, Begin, Upload, Save, Forget,
           Prune, Read, CmdFails, Unlocked, repoVars
      <4>2. QED
        BY <2>1, <4>1 DEF Guarded
    <3>3. QED
      BY <3>1, <3>2
  <2>3. CASE Begin(m)
    <3>1. UNCHANGED <<blobs, snaps>> /\ pc[m] \in Commands
      BY <2>3 DEF Begin
    <3>2. CASE pc'[m] \notin Working
      BY <2>1, <2>l, <3>1, <3>2 DEF Guarded, Intact
    <3>3. CASE pc'[m] \in Working
      <4>1. /\ Blockers(m) = {}
            /\ [by |-> m, exclusive |-> Exclusive(pc[m])] \in locks'
            /\ plan'[m] = Reads(m)
            /\ pc'[m] = "upload" <=> pc[m] = "backup"
            /\ pc'[m] = "pruning" <=> pc[m] = "prune"
            /\ pc'[m] # "save"
        BY <2>3, <3>1, <3>3 DEF Begin, End, Commands, TypeOK
      <4>2. \A l \in locks : ~l.exclusive /\ ~Exclusive(pc[m])
        BY <4>1 DEF Blockers
      <4>3. \A n \in Movers \ {m} : pc[n] # "pruning"
        BY <4>2 DEF Guarded
      <4>4. pc[m] = "prune" => \A n \in Movers \ {m} : pc[n] \notin Working
        BY <4>2 DEF Guarded, Exclusive
      <4>5. pc[m] = "backup" => plan'[m] = blobs
        BY <4>1 DEF Reads
      <4>6. pc[m] = "prune" => \A s \in snaps : plan'[m] \cap content[s] = {}
        BY <4>1 DEF Reads
      <4>7. \E l \in locks' : l.by = m /\ (pc'[m] = "pruning" => l.exclusive)
        BY <4>1 DEF Exclusive
      <4>8. QED
        BY <2>1, <2>l, <3>1, <4>1, <4>3, <4>4, <4>5, <4>6, <4>7 DEF Guarded, Intact
    <3>4. QED
      BY <3>2, <3>3
  <2>4. CASE Upload(m)
    <3>1. /\ pc[m] = "upload" /\ pc'[m] = "save" /\ blobs' = blobs \cup (content[m] \ plan[m])
          /\ UNCHANGED <<locks, snaps>>
      BY <2>4 DEF Upload, Step, TypeOK
    <3>2. QED
      BY <2>1, <2>l, <3>1 DEF Guarded, Intact
  <2>5. CASE Save(m)
    <3>1. /\ pc[m] = "save" /\ pc'[m] \notin Working /\ snaps' = snaps \cup {m}
          /\ UNCHANGED blobs
      BY <2>5 DEF Save, Step, End, TypeOK
    <3>2. QED
      BY <2>1, <2>l, <3>1 DEF Guarded, Intact
  <2>6. CASE Prune(m)
    <3>1. /\ pc[m] = "pruning" /\ pc'[m] \notin Working /\ blobs' = blobs \ plan[m]
          /\ UNCHANGED snaps
      BY <2>6 DEF Prune, End, TypeOK
    <3>2. QED
      BY <2>1, <2>l, <3>1 DEF Guarded, Intact
  <2>7. CASE Kill(m) \/ Probe(m) \/ InitRepo(m) \/ UnlockStale(m) \/ Forget(m) \/ Read(m)
             \/ CmdFails(m)
    <3>1. pc'[m] \notin Working /\ snaps' \subseteq snaps /\ UNCHANGED blobs
      BY <2>7, RepoAssumption DEF Kill, Probe, InitRepo, UnlockStale, Forget, Read, CmdFails,
         Step, End, TypeOK, repoVars
    <3>2. QED
      BY <2>1, <2>l, <3>1 DEF Guarded, Intact
  <2>8. QED
    BY <1>3, <2>3, <2>4, <2>5, <2>6, <2>7 DEF MoverStep
<1>4. CASE UNCHANGED vars
  BY <1>4 DEF vars, moverVars, repoVars, history, Guarded, Intact
<1>5. QED
  BY <1>1, <1>2, <1>3, <1>4, Steps

-----------------------------------------------------------------------------
IInv == /\ TypeOK /\ Born
        /\ Serial /\ OnlyStrangersOverrun
        /\ Fresh /\ NeverWedged
        /\ Expiring /\ Kept
        /\ Guarded /\ Intact

\* The inductive invariant holds initially.
LEMMA InitIInv == Init => IInv
<1> SUFFICES ASSUME Init PROVE IInv
  OBVIOUS
<1>0. (CHOOSE a \in Apps : TRUE) \in Apps
  BY RepoAssumption
<1>1. TypeOK
  <2>1. app \in [Movers -> Apps] /\ action \in [Movers -> Actions \cup {"backup"}]
    BY <1>0, Zenon DEF Init
  <2>2. /\ run \in [Movers -> Procs \cup {Nobody}] /\ pc \in [Movers -> Pc]
        /\ content \in [Movers -> SUBSET Blobs]
        /\ plan \in [Movers -> SUBSET (Blobs \cup Movers)]
        /\ ghosts \in [Movers -> SUBSET Movers]
    BY DEF Init, Pc
  <2>3. /\ made \in 0..MaxMovers /\ restarts \in 0..MaxRestarts /\ faults \in 0..MaxFaults
        /\ saved \in [Movers -> Nat] /\ clock \in Nat
    BY BoundAssumption DEF Init
  <2>4. QED
    BY <2>1, <2>2, <2>3 DEF Init, TypeOK
<1>2. Born /\ Serial /\ OnlyStrangersOverrun
  BY DEF Init, Born, Serial, OnlyStrangersOverrun
<1>3. Fresh /\ NeverWedged
  BY DEF Init, Fresh, NeverWedged
<1>4. Expiring /\ Kept
  BY DEF Init, Expiring, Kept
<1>5. Guarded /\ Intact
  BY DEF Init, Guarded, Intact, Working
<1>6. QED
  BY <1>1, <1>2, <1>3, <1>4, <1>5 DEF IInv

\* And in every reachable state.
LEMMA Invariance == Spec => []IInv
<1>1. IInv /\ [Next]_vars => IInv'
  BY TypeStep, BornStep, StrangersStep, WedgedStep, KeptStep, IntactStep DEF IInv
<1>2. QED
  BY InitIInv, <1>1, PTL DEF Spec

\* The types hold in every reachable state.
THEOREM TypeCorrect == Spec => []TypeOK
<1>1. IInv => TypeOK
  BY DEF IInv
<1>2. QED
  BY Invariance, <1>1, PTL

\* However many movers meet, are killed or survive their process: while none of them
\* has lost its lock to the unlock --remove-all of another, every snapshot of the
\* repository can be restored.
THEOREM RepositoryIntact == Spec => []Intact
<1>1. IInv => Intact
  BY DEF IInv
<1>2. QED
  BY Invariance, <1>1, PTL

\* unlockStale takes the lock of a running mover only from another app, another
\* process, or a mover whose process is gone.
THEOREM OverrunsOnlyStrangers == Spec => []OnlyStrangersOverrun
<1>1. IInv => OnlyStrangersOverrun
  BY DEF IInv
<1>2. QED
  BY Invariance, <1>1, PTL

\* Retention never removes one of the newest snapshots of an app, nor one of an app
\* without a policy, whichever apps share the repository.
THEOREM RetentionKeeps == Spec => []Kept
<1>1. IInv => Kept
  BY DEF IInv
<1>2. QED
  BY Invariance, <1>1, PTL

\* The lock of a mover killed before another one starts never keeps that one from its
\* work.
THEOREM StaleLocksCleared == Spec => []NeverWedged
<1>1. IInv => NeverWedged
  BY DEF IInv
<1>2. QED
  BY Invariance, <1>1, PTL

==============================================================================
