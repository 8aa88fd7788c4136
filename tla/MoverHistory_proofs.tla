------------------------ MODULE MoverHistory_proofs -------------------------
(***************************************************************************)
(* Proofs about MoverHistory, for any kinds of movers, any number of them, *)
(* of reapers and of crashes, and any history length.                      *)
(*                                                                         *)
(* A reap acts on what it read earlier.  What makes that safe is that its  *)
(* verdict cannot go stale: a retained mover is doomed only when a newer   *)
(* one of its group exists, which the repository's lock lets happen only   *)
(* after its run has returned, and both facts hold for ever after.         *)
(***************************************************************************)
EXTENDS MoverHistory, FiniteSetTheorems, TLAPS

ReaperType == [of: {"movers", "hooks"}, todo: SUBSET Movers,
               found: SUBSET Movers, doomed: SUBSET Movers]

LEMMA KindFields ==
  ASSUME NEW k \in Kinds
  PROVE  k.action \in Actions /\ (k.keep => k.action = "backup")
  BY KindAssumption

\* What Settled makes of a reaper: it drops what it is done with, and adds only
\* what Doomed says.
LEMMA SettledIs ==
  ASSUME NEW r \in ReaperType
  PROVE  /\ Settled(r) \in ReaperType
         /\ Settled(r).todo \subseteq r.todo
         /\ Settled(r).found \subseteq r.found
         /\ Settled(r).doomed \subseteq r.doomed \cup Doomed(r.found)
  <1> DEFINE known == IF r.todo # {} THEN r
                      ELSE [r EXCEPT !.found = {}, !.doomed = @ \cup Doomed(r.found)]
             next == IF r.of = "movers" THEN "hooks" ELSE "movers"
             over == [Idle EXCEPT !.of = next]
  <1>1. Doomed(r.found) \subseteq r.found
    BY DEF Doomed
  <1>2. /\ known \in ReaperType /\ known.todo \subseteq r.todo
        /\ known.found \subseteq r.found
        /\ known.doomed \subseteq r.doomed \cup Doomed(r.found)
    <2>1. CASE r.todo # {}
      BY <2>1
    <2>2. CASE r.todo = {}
      <3>1. known = [r EXCEPT !.found = {}, !.doomed = @ \cup Doomed(r.found)]
        BY <2>2
      <3> HIDE DEF known
      <3> QED  BY <1>1, <3>1 DEF ReaperType
    <2> QED  BY <2>1, <2>2
  <1>3. /\ over \in ReaperType
        /\ over.todo = {} /\ over.found = {} /\ over.doomed = {}
    BY DEF ReaperType, Idle
  <1>4. Settled(r) = IF known.todo \cup known.doomed # {} THEN known ELSE over
    BY DEF Settled
  <1> HIDE DEF known, over
  <1> QED  BY <1>2, <1>3, <1>4

\* The step of a reaper touches no other.
LEMMA SetReaperIs ==
  ASSUME TypeOK, NEW p \in Reapers, NEW r \in ReaperType, SetReaper(p, r)
  PROVE  /\ reaper' \in [Reapers -> ReaperType]
         /\ \A q \in Reapers : q # p => reaper'[q] = reaper[q]
         /\ reaper'[p] = Settled(r)
  <1>1. reaper \in [Reapers -> ReaperType]
    BY DEF TypeOK, ReaperType
  <1>2. Settled(r) \in ReaperType
    BY SettledIs
  <1> QED  BY <1>1, <1>2 DEF SetReaper

\* What one step of a reaper finds, dooms and removes: it looks at movers that
\* exist, finds those that do not run, and removes one it had doomed.
LEMMA ReapStepIs ==
  ASSUME TypeOK, NEW p \in Reapers, ReapStep(p)
  PROVE  \E r \in ReaperType :
           /\ SetReaper(p, r)
           /\ r.todo \subseteq reaper[p].todo \cup {m \in Movers : st[m] \notin {"none", "gone"}}
           /\ r.found \subseteq reaper[p].found \cup {m \in Movers : NotRunning(m)}
           /\ r.doomed \subseteq reaper[p].doomed
           /\ UNCHANGED <<engine, made, kind, run, finished, crashes>>
           /\ UNCHANGED st \/ \E m \in reaper[p].doomed : Removed(m)
  <1>0. reaper[p] \in ReaperType
    BY DEF TypeOK, ReaperType
  <1>1. CASE ReapList(p)
    <2> DEFINE L == Listed(reaper[p].of)
               a == [reaper[p] EXCEPT !.found = {m \in L : NotRunning(m)}]
               b == [reaper[p] EXCEPT !.todo = L]
    <2>1. L \subseteq {m \in Movers : st[m] \notin {"none", "gone"}}
      BY DEF Listed
    <2>2. /\ a \in ReaperType /\ a.todo = reaper[p].todo /\ a.doomed = reaper[p].doomed
          /\ a.found = {m \in L : NotRunning(m)}
      BY <1>0, <2>1 DEF ReaperType
    <2>3. /\ b \in ReaperType /\ b.todo = L /\ b.doomed = reaper[p].doomed
          /\ b.found = reaper[p].found
      BY <1>0, <2>1 DEF ReaperType
    <2>4. /\ \/ SetReaper(p, a) \/ SetReaper(p, b)
          /\ UNCHANGED <<engine, made, kind, st, run, finished, crashes>>
      BY <1>1 DEF ReapList
    <2> HIDE DEF a, b, L
    <2>5. {m \in L : NotRunning(m)} \subseteq {m \in Movers : NotRunning(m)}
      BY <2>1
    <2> QED  BY <2>1, <2>2, <2>3, <2>4, <2>5
  <1>2. CASE \E m \in Movers : ReapLook(p, m)
    <2> PICK m \in Movers : ReapLook(p, m)
      BY <1>2
    <2> DEFINE a == [reaper[p] EXCEPT !.todo = @ \ {m},
                                      !.found = @ \cup {n \in {m} : NotRunning(n)}]
    <2>1. /\ a \in ReaperType /\ a.todo \subseteq reaper[p].todo
          /\ a.doomed = reaper[p].doomed
          /\ a.found \subseteq reaper[p].found \cup {n \in Movers : NotRunning(n)}
      BY <1>0 DEF ReaperType
    <2>2. SetReaper(p, a) /\ UNCHANGED <<engine, made, kind, st, run, finished, crashes>>
      BY DEF ReapLook
    <2> HIDE DEF a
    <2> QED  BY <2>1, <2>2
  <1>3. CASE \E m \in Movers : ReapLookFails(p, m)
    <2> PICK m \in Movers : ReapLookFails(p, m)
      BY <1>3
    <2> DEFINE a == [reaper[p] EXCEPT !.todo = @ \ {m}]
    <2>1. /\ a \in ReaperType /\ a.todo \subseteq reaper[p].todo
          /\ a.doomed = reaper[p].doomed /\ a.found = reaper[p].found
      BY <1>0 DEF ReaperType
    <2>2. SetReaper(p, a) /\ UNCHANGED <<engine, made, kind, st, run, finished, crashes>>
      BY DEF ReapLookFails
    <2> HIDE DEF a
    <2> QED  BY <2>1, <2>2
  <1>4. CASE \E m \in Movers : ReapRemove(p, m)
    <2> PICK m \in Movers : ReapRemove(p, m)
      BY <1>4
    <2> DEFINE a == [reaper[p] EXCEPT !.doomed = @ \ {m}]
    <2>1. /\ a \in ReaperType /\ a.todo = reaper[p].todo
          /\ a.doomed \subseteq reaper[p].doomed /\ a.found = reaper[p].found
      BY <1>0 DEF ReaperType
    <2>2. /\ SetReaper(p, a) /\ UNCHANGED <<engine, made, kind, run, finished, crashes>>
          /\ m \in reaper[p].doomed /\ Removed(m)
      BY DEF ReapRemove
    <2> HIDE DEF a
    <2> QED  BY <2>1, <2>2
  <1> QED
    BY <1>1, <1>2, <1>3, <1>4 DEF ReapStep

-----------------------------------------------------------------------------
(* Types.                                                                  *)

LEMMA TypeInit == Init => TypeOK
  <1> SUFFICES ASSUME Init PROVE TypeOK
    OBVIOUS
  <1>1. 0 \in 0..MaxMovers /\ 0 \in 0..MaxCrashes
    BY BoundAssumption
  <1>2. (CHOOSE k \in Kinds : TRUE) \in Kinds
    BY KindAssumption
  <1>3. Idle \in ReaperType
    BY DEF Idle, ReaperType
  <1> QED
    BY <1>1, <1>2, <1>3 DEF Init, TypeOK, ReaperType

LEMMA TypeNext == TypeOK /\ [Next]_vars => TypeOK'
  <1> SUFFICES ASSUME TypeOK, [Next]_vars PROVE TypeOK'
    OBVIOUS
  <1>1. CASE \E k \in Kinds : Create(k)
    <2> PICK k \in Kinds : Create(k)
      BY <1>1
    <2>1. made + 1 \in Movers /\ made' = made + 1 /\ made' \in 0..MaxMovers
      BY BoundAssumption DEF Create, TypeOK, Movers
    <2>2. /\ kind' = [kind EXCEPT ![made + 1] = k]
          /\ st' = [st EXCEPT ![made + 1] = "created"]
          /\ \E l \in {"start", "wait"} : run' = [run EXCEPT ![made + 1] = l]
          /\ UNCHANGED <<engine, finished, reaper, crashes>>
      BY <2>1 DEF Create, SetSt, SetRun
    <2> QED  BY <2>1, <2>2 DEF TypeOK
  <1>2. CASE \E m \in Movers : RunStep(m) \/ MoverStep(m)
    BY <1>2 DEF RunStep, MoverStep, Start, WaitStatus, ReadLogs, WaitGone, TaskStarts, Ends,
                Removed, SetSt, SetRun, TypeOK
  <1>3. CASE \E m \in Movers : WaitError(m) \/ WaitCancelled(m)
    BY <1>3 DEF WaitError, WaitCancelled, Removed, SetSt, SetRun, TypeOK
  <1>4. CASE \E p \in Reapers : ReapStep(p)
    <2> PICK p \in Reapers : ReapStep(p)
      BY <1>4
    <2>1. PICK r \in ReaperType :
            /\ SetReaper(p, r)
            /\ UNCHANGED <<engine, made, kind, run, finished, crashes>>
            /\ UNCHANGED st \/ \E m \in reaper[p].doomed : Removed(m)
      BY ReapStepIs
    <2>2. reaper' \in [Reapers -> ReaperType]
      BY <2>1, SetReaperIs
    <2>3. st' \in [Movers -> {"none", "created", "running", "exited", "gone"}]
      BY <2>1 DEF Removed, SetSt, TypeOK
    <2> QED  BY <2>1, <2>2, <2>3 DEF TypeOK, ReaperType
  <1>5. CASE Crash
    <2>1. Idle \in ReaperType
      BY DEF Idle, ReaperType
    <2>2. crashes' \in 0..MaxCrashes
      BY <1>5, BoundAssumption DEF Crash, TypeOK
    <2>3. run' \in [Movers -> {"none", "start", "wait", "logs", "returned", "dead"}]
      BY <1>5 DEF Crash, TypeOK
    <2> QED  BY <1>5, <2>1, <2>2, <2>3 DEF Crash, TypeOK, ReaperType
  <1>6. CASE UNCHANGED vars
    BY <1>6 DEF vars, TypeOK
  <1> QED
    BY <1>1, <1>2, <1>3, <1>4, <1>5, <1>6 DEF Next

\* Every variable keeps its type.
THEOREM TypeCorrect == Spec => []TypeOK
  BY TypeInit, TypeNext, PTL DEF Spec

-----------------------------------------------------------------------------
(* The inductive invariant.                                                *)

\* A mover beyond the counter does not exist.
Created == \A m \in Movers : st[m] # "none" \/ run[m] # "none" => m <= made

\* The repository's lock: while a run goes on, no newer mover of its repository
\* is created.
ActiveNewest ==
  \A m, n \in Movers :
    Active(m) /\ n <= made /\ n > m => kind[n].repo # kind[m].repo

\* The movers that take the place of m in the history.
Newer(m) == {n \in 1..made : n > m /\ Group(n) = Group(m)}

\* What a reaper has found out stays true, however long it takes to act on it.
ReapSound ==
  \A p \in Reapers :
    /\ reaper[p].todo \cup reaper[p].found \cup reaper[p].doomed \subseteq 1..made
    /\ \A m \in reaper[p].doomed : Retain(m) => Cardinality(Newer(m)) >= Keep
    /\ engine = "docker" => \A m \in reaper[p].found \cup reaper[p].doomed :
                              Hook(m) => st[m] \in {"exited", "gone"}

\* A hook's container waits for its run to start it.
HookWaits ==
  \A m \in Movers : Hook(m) /\ engine = "docker" /\ run[m] = "start" => st[m] = "created"

\* A retained mover is there as long as its run is.
ActiveKept == \A m \in Movers : Active(m) /\ Retain(m) => st[m] # "gone"

\* The history holds what its run has left.
FinishedLeft == \A m \in finished : Retain(m) /\ ~Active(m) /\ m <= made

IInv == /\ TypeOK /\ Created /\ ActiveNewest /\ ReapSound /\ HookWaits
        /\ ActiveKept /\ FinishedLeft /\ DroppedOnlyForNewer

LEMMA NewerFinite ==
  ASSUME TypeOK, NEW m
  PROVE  IsFiniteSet(Newer(m)) /\ Cardinality(Newer(m)) \in Nat
  <1>1. made \in Nat
    BY BoundAssumption DEF TypeOK
  <1>2. IsFiniteSet(1..made)
    BY <1>1, FS_Interval
  <1>3. IsFiniteSet(Newer(m))
    BY <1>2, FS_Subset DEF Newer
  <1> QED  BY <1>3, FS_CardinalityType

\* The set of newer movers grows.
LEMMA NewerGrows ==
  ASSUME TypeOK, made' \in Nat, made <= made',
         \A n \in 1..made : kind'[n] = kind[n],
         NEW m \in 1..made
  PROVE  /\ Cardinality(Newer(m)) \in Nat /\ Cardinality(Newer(m)') \in Nat
         /\ Cardinality(Newer(m)) <= Cardinality(Newer(m)')
  <1>1. made \in Nat
    BY BoundAssumption DEF TypeOK
  <1>2. IsFiniteSet(Newer(m)) /\ IsFiniteSet(Newer(m)')
    <2>1. IsFiniteSet(1..made) /\ IsFiniteSet(1..made')
      BY <1>1, FS_Interval
    <2> QED  BY <2>1, FS_Subset DEF Newer
  <1>3. Newer(m) \subseteq Newer(m)'
    BY <1>1 DEF Newer, Group
  <1> QED  BY <1>2, <1>3, FS_Subset, FS_CardinalityType

\* With a history, the newest of a group is never doomed.
LEMMA ActiveNotDoomed ==
  ASSUME IInv, Keep > 0, NEW p \in Reapers, NEW m \in reaper[p].doomed, Retain(m)
  PROVE  ~Active(m)
  <1> SUFFICES ASSUME Active(m) PROVE FALSE
    OBVIOUS
  <1>1. m \in 1..made /\ made \in 0..MaxMovers
    BY DEF IInv, ReapSound, TypeOK
  <1>2. Cardinality(Newer(m)) >= Keep
    BY DEF IInv, ReapSound
  <1>3. Newer(m) = {}
    <2> SUFFICES ASSUME NEW n \in 1..made, n > m, Group(n) = Group(m) PROVE FALSE
      BY DEF Newer
    <2>1. kind[n].repo = kind[m].repo
      BY DEF Group
    <2>2. n \in Movers /\ m \in Movers /\ n <= made
      BY <1>1, BoundAssumption DEF Movers
    <2> QED  BY <2>1, <2>2 DEF IInv, ActiveNewest
  <1>4. Cardinality(Newer(m)) = 0
    BY <1>3, FS_EmptySet
  <1> QED  BY <1>2, <1>4, KindAssumption

\* What a step of a run or of its mover does to that mover, and to no other.
LEMMA MoverFrame ==
  ASSUME TypeOK, ActiveKept, FinishedLeft, NEW m \in Movers,
         RunStep(m) \/ MoverStep(m) \/ WaitError(m) \/ WaitCancelled(m)
  PROVE  /\ UNCHANGED <<engine, made, kind, reaper, crashes>>
         /\ \A n \in Movers : n # m => st'[n] = st[n] /\ run'[n] = run[n]
         /\ \A n : n # m => (n \in finished' <=> n \in finished)
         /\ st[m] # "none" \/ run[m] # "none"
         /\ Active(m)' => Active(m) /\ (st'[m] = "gone" => st[m] = "gone")
         /\ st[m] \in {"exited", "gone"} => st'[m] \in {"exited", "gone"}
         /\ run'[m] = "start" =>
              run[m] = "start" /\ (st'[m] = st[m] \/ engine = "swarm" \/ st[m] = "running")
         /\ m \in finished => m \in finished' /\ (st'[m] = "gone" => st[m] = "gone")
         /\ m \in finished' /\ m \notin finished =>
              Retain(m) /\ ~Active(m)' /\ st'[m] # "gone"
         /\ m \in finished => ~Active(m)'
  <1> USE DEF TypeOK, SetSt, SetRun, Active
  <1>1. CASE Start(m)
    BY <1>1 DEF Start, Removed, FinishedLeft
  <1>2. CASE WaitStatus(m)
    BY <1>2 DEF WaitStatus, FinishedLeft
  <1>3. CASE ReadLogs(m)
    BY <1>3 DEF ReadLogs, Removed, FinishedLeft, ActiveKept
  <1>4. CASE WaitGone(m)
    BY <1>4 DEF WaitGone, FinishedLeft
  <1>5. CASE TaskStarts(m)
    BY <1>5 DEF TaskStarts, FinishedLeft
  <1>6. CASE Ends(m)
    BY <1>6 DEF Ends, FinishedLeft
  <1>7. CASE WaitError(m)
    BY <1>7 DEF WaitError, Removed, FinishedLeft
  <1>8. CASE WaitCancelled(m)
    <2>1. kind[m].keep => Retain(m)
      BY KindFields DEF Retain
    <2> QED  BY <1>8, <2>1 DEF WaitCancelled, Removed, FinishedLeft
  <1> QED
    BY <1>1, <1>2, <1>3, <1>4, <1>5, <1>6, <1>7, <1>8 DEF RunStep, MoverStep

LEMMA InvMover ==
  ASSUME IInv, NEW m \in Movers,
         RunStep(m) \/ MoverStep(m) \/ WaitError(m) \/ WaitCancelled(m)
  PROVE  /\ Created' /\ ActiveNewest' /\ ReapSound' /\ HookWaits'
         /\ ActiveKept' /\ FinishedLeft' /\ DroppedOnlyForNewer'
  <1> USE DEF IInv
  <1>0. UNCHANGED <<engine, made, kind, reaper, crashes>>
    BY MoverFrame
  <1>a. /\ \A n \in Movers : n # m => st'[n] = st[n] /\ run'[n] = run[n]
        /\ \A n : n # m => (n \in finished' <=> n \in finished)
    BY MoverFrame
  <1>b. \A n \in Movers : Active(n)' => Active(n)
    BY <1>a, MoverFrame DEF Active
  <1>c. \A n : /\ Retain(n)' <=> Retain(n)
               /\ Hook(n)' <=> Hook(n)
               /\ Newer(n)' = Newer(n)
    BY <1>0 DEF Retain, Hook, Newer, Group
  <1>1. Created'
    BY <1>0, <1>a, MoverFrame DEF Created
  <1>2. ActiveNewest'
    BY <1>0, <1>b DEF ActiveNewest
  <1>3. ReapSound'
    <2>1. \A n \in Movers : st[n] \in {"exited", "gone"} => st'[n] \in {"exited", "gone"}
      BY <1>a, MoverFrame
    <2>2. 1..made \subseteq Movers
      BY BoundAssumption DEF TypeOK, Movers
    <2> QED  BY <1>0, <1>c, <2>1, <2>2 DEF ReapSound
  <1>4. HookWaits'
    <2> SUFFICES ASSUME NEW n \in Movers, Hook(n), engine = "docker", run'[n] = "start"
                 PROVE  st'[n] = "created"
      BY <1>0, <1>c DEF HookWaits
    <2>1. CASE n = m
      BY <2>1, MoverFrame DEF HookWaits
    <2>2. CASE n # m
      BY <1>a, <2>2 DEF HookWaits
    <2> QED  BY <2>1, <2>2
  <1>5. ActiveKept'
    <2> SUFFICES ASSUME NEW n \in Movers, Active(n)', Retain(n) PROVE st'[n] # "gone"
      BY <1>c DEF ActiveKept
    <2>1. CASE n = m
      BY <2>1, MoverFrame DEF ActiveKept
    <2>2. CASE n # m
      BY <1>a, <1>b, <2>2 DEF ActiveKept
    <2> QED  BY <2>1, <2>2
  <1>6. FinishedLeft'
    <2> SUFFICES ASSUME NEW n \in finished'
                 PROVE  Retain(n) /\ ~Active(n)' /\ n <= made
      BY <1>0, <1>c DEF FinishedLeft
    <2>1. CASE n = m
      BY <2>1, MoverFrame DEF FinishedLeft, Created
    <2>2. CASE n # m
      BY <1>a, <1>b, <2>2 DEF FinishedLeft, TypeOK
    <2> QED  BY <2>1, <2>2
  <1>7. DroppedOnlyForNewer'
    <2> SUFFICES ASSUME NEW n \in finished', st'[n] = "gone"
                 PROVE  Cardinality(Newer(n)) >= Keep
      BY <1>c DEF DroppedOnlyForNewer, Newer
    <2>1. n \in finished /\ st[n] = "gone"
      BY <1>a, MoverFrame DEF TypeOK
    <2> QED  BY <2>1 DEF DroppedOnlyForNewer, Newer
  <1> QED  BY <1>1, <1>2, <1>3, <1>4, <1>5, <1>6, <1>7

LEMMA InvCreate ==
  ASSUME IInv, NEW k \in Kinds, Create(k)
  PROVE  /\ Created' /\ ActiveNewest' /\ ReapSound' /\ HookWaits'
         /\ ActiveKept' /\ FinishedLeft' /\ DroppedOnlyForNewer'
  <1> USE DEF IInv
  <1> DEFINE new == made + 1
  <1>t. /\ made \in Nat /\ new \in Movers /\ new \in Nat /\ made' = new
        /\ 1..made \subseteq Movers
    BY BoundAssumption DEF Create, TypeOK, Movers
  <1>0. /\ kind' = [kind EXCEPT ![new] = k] /\ st' = [st EXCEPT ![new] = "created"]
        /\ \E l \in {"start", "wait"} : run' = [run EXCEPT ![new] = l]
        /\ UNCHANGED <<engine, finished, reaper, crashes>>
        /\ \A m \in Movers : Active(m) => kind[m].repo # k.repo
    BY <1>t DEF Create, SetSt, SetRun
  <1> HIDE DEF new
  <1>a. /\ \A m \in Movers : m # new => /\ kind'[m] = kind[m] /\ st'[m] = st[m]
                                        /\ run'[m] = run[m]
        /\ kind'[new] = k /\ st'[new] = "created"
    BY <1>0, <1>t DEF TypeOK
  <1>b. st[new] = "none" /\ run[new] = "none"
    <2>1. ~(new <= made)
      BY <1>t DEF new
    <2> QED  BY <2>1, <1>t DEF Created, TypeOK
  <1>c. \A m \in Movers : m # new => /\ Active(m)' <=> Active(m)
                                     /\ Retain(m)' <=> Retain(m)
                                     /\ Hook(m)' <=> Hook(m)
    BY <1>a DEF Active, Retain, Hook
  <1>d. \A m \in 1..made : m # new /\ m \in Movers
    BY <1>t DEF new
  <1>n. ASSUME NEW m \in 1..made
        PROVE  Cardinality(Newer(m)) >= Keep => Cardinality(Newer(m)') >= Keep
    <2>1. /\ made' \in Nat /\ made <= made'
          /\ \A n \in 1..made : kind'[n] = kind[n]
      BY <1>t, <1>a, <1>d DEF new
    <2>2. /\ Cardinality(Newer(m)) \in Nat /\ Cardinality(Newer(m)') \in Nat
          /\ Cardinality(Newer(m)) <= Cardinality(Newer(m)')
      BY <2>1, NewerGrows
    <2> QED  BY <2>2, KindAssumption
  <1>1. Created'
    BY <1>t, <1>a DEF Created, Movers, new
  <1>2. ActiveNewest'
    <2> SUFFICES ASSUME NEW m \in Movers, NEW n \in Movers, Active(m)', n <= new, n > m
                 PROVE  kind'[n].repo # kind'[m].repo
      BY <1>t DEF ActiveNewest
    <2>1. m # new
      BY <1>t DEF Movers
    <2>2. Active(m) /\ kind'[m] = kind[m]
      BY <1>a, <1>c, <2>1
    <2>3. CASE n = new
      BY <1>0, <1>a, <2>2, <2>3
    <2>4. CASE n # new
      <3>1. n <= made /\ kind'[n] = kind[n]
        BY <1>a, <1>t, <2>4 DEF new, Movers
      <3> QED  BY <2>2, <3>1 DEF ActiveNewest
    <2> QED  BY <2>3, <2>4
  <1>3. ReapSound'
    <2> SUFFICES ASSUME NEW p \in Reapers
                 PROVE  /\ reaper[p].todo \cup reaper[p].found \cup reaper[p].doomed
                             \subseteq 1..new
                        /\ \A m \in reaper[p].doomed :
                             Retain(m)' => Cardinality(Newer(m)') >= Keep
                        /\ engine = "docker" =>
                             \A m \in reaper[p].found \cup reaper[p].doomed :
                               Hook(m)' => st'[m] \in {"exited", "gone"}
      BY <1>0, <1>t DEF ReapSound
    <2>1. reaper[p].todo \cup reaper[p].found \cup reaper[p].doomed \subseteq 1..made
      BY DEF ReapSound
    <2>2. 1..made \subseteq 1..new
      BY <1>t DEF new
    <2>3. ASSUME NEW m \in reaper[p].doomed, Retain(m)'
          PROVE  Cardinality(Newer(m)') >= Keep
      <3>1. m \in 1..made /\ Retain(m)
        BY <1>c, <1>d, <2>1, <2>3
      <3> QED  BY <1>n, <3>1 DEF ReapSound
    <2>4. ASSUME engine = "docker", NEW m \in reaper[p].found \cup reaper[p].doomed, Hook(m)'
          PROVE  st'[m] \in {"exited", "gone"}
      BY <1>a, <1>c, <1>d, <2>1, <2>4 DEF ReapSound
    <2> QED  BY <2>1, <2>2, <2>3, <2>4
  <1>4. HookWaits'
    BY <1>0, <1>a, <1>c DEF HookWaits
  <1>5. ActiveKept'
    BY <1>a, <1>c DEF ActiveKept
  <1>e. \A m \in finished : m \in 1..made /\ m \in Movers
    <2> SUFFICES ASSUME NEW m \in finished PROVE m \in 1..made
      BY <1>d
    <2>1. m \in Movers /\ m <= made
      BY DEF TypeOK, FinishedLeft
    <2> QED  BY <1>t, <2>1 DEF Movers
  <1>6. FinishedLeft'
    <2>1. \A m \in 1..made : m <= new
      BY <1>t DEF new
    <2> QED  BY <1>0, <1>t, <1>c, <1>d, <1>e, <2>1 DEF FinishedLeft
  <1>7. DroppedOnlyForNewer'
    <2> SUFFICES ASSUME NEW m \in finished, st'[m] = "gone"
                 PROVE  Cardinality(Newer(m)') >= Keep
      BY <1>0 DEF DroppedOnlyForNewer, Newer
    <2>1. st[m] = "gone"
      BY <1>a, <1>d, <1>e
    <2> QED  BY <1>e, <1>n, <2>1 DEF DroppedOnlyForNewer, Newer
  <1> QED  BY <1>1, <1>2, <1>3, <1>4, <1>5, <1>6, <1>7

\* A mover doomed by what a reap has found has as many newer ones on the host.
LEMMA DoomedHasNewer ==
  ASSUME TypeOK, NEW F \in SUBSET (1..made), NEW m \in Doomed(F), Retain(m)
  PROVE  Cardinality(Newer(m)) >= Keep
  <1> DEFINE S == {n \in F : n > m /\ Group(n) = Group(m)}
  <1>2. Cardinality(S) >= Keep
    BY DEF Doomed
  <1>3. S \subseteq Newer(m)
    BY DEF Newer
  <1>4. IsFiniteSet(Newer(m))
    BY NewerFinite
  <1>5. IsFiniteSet(S) /\ Cardinality(S) <= Cardinality(Newer(m))
    BY <1>3, <1>4, FS_Subset
  <1>6. Cardinality(S) \in Nat /\ Cardinality(Newer(m)) \in Nat
    BY <1>4, <1>5, FS_CardinalityType
  <1> HIDE DEF S
  <1> QED  BY <1>2, <1>5, <1>6, KindAssumption

LEMMA InvReap ==
  ASSUME Keep > 0, IInv, NEW p \in Reapers, ReapStep(p)
  PROVE  /\ Created' /\ ActiveNewest' /\ ReapSound' /\ HookWaits'
         /\ ActiveKept' /\ FinishedLeft' /\ DroppedOnlyForNewer'
  <1> USE DEF IInv
  <1>1. PICK r \in ReaperType :
          /\ SetReaper(p, r)
          /\ r.todo \subseteq reaper[p].todo \cup {m \in Movers : st[m] \notin {"none", "gone"}}
          /\ r.found \subseteq reaper[p].found \cup {m \in Movers : NotRunning(m)}
          /\ r.doomed \subseteq reaper[p].doomed
          /\ UNCHANGED <<engine, made, kind, run, finished, crashes>>
          /\ UNCHANGED st \/ \E m \in reaper[p].doomed : Removed(m)
    BY ReapStepIs
  <1>t. made \in Nat /\ 1..made \subseteq Movers
    BY BoundAssumption DEF TypeOK, Movers
  <1>2. \A m \in Movers : /\ Active(m)' <=> Active(m)
                          /\ Retain(m)' <=> Retain(m)
                          /\ Hook(m)' <=> Hook(m)
                          /\ Newer(m)' = Newer(m)
    BY <1>1 DEF Active, Retain, Hook, Newer, Group
  \* Only a mover that was doomed goes, and none changes otherwise.
  <1>3. \A m \in Movers : \/ st'[m] = st[m]
                          \/ st'[m] = "gone" /\ m \in reaper[p].doomed
    BY <1>1 DEF Removed, SetSt, TypeOK
  <1>4. {m \in Movers : st[m] # "none"} \subseteq 1..made
    BY <1>t DEF Created, Movers
  <1>5. {m \in Movers : NotRunning(m)} \subseteq {m \in Movers : st[m] # "none"}
    BY DEF NotRunning
  <1>6. r.todo \subseteq 1..made /\ r.found \subseteq 1..made /\ r.doomed \subseteq 1..made
    BY <1>1, <1>4, <1>5 DEF ReapSound
  <1>7. /\ \A q \in Reapers : q # p => reaper'[q] = reaper[q]
        /\ reaper'[p].todo \subseteq r.todo /\ reaper'[p].found \subseteq r.found
        /\ reaper'[p].doomed \subseteq r.doomed \cup Doomed(r.found)
    BY <1>1, SetReaperIs, SettledIs
  <1>8. Doomed(r.found) \subseteq r.found
    BY DEF Doomed
  <1>9. Created'
    BY <1>1, <1>3, <1>4, <1>t DEF Created, ReapSound
  <1>10. ActiveNewest'
    BY <1>1, <1>2 DEF ActiveNewest
  <1>11. ReapSound'
    <2> SUFFICES ASSUME NEW q \in Reapers
                 PROVE  /\ reaper'[q].todo \cup reaper'[q].found \cup reaper'[q].doomed
                             \subseteq 1..made
                        /\ \A m \in reaper'[q].doomed :
                             Retain(m)' => Cardinality(Newer(m)') >= Keep
                        /\ engine = "docker" =>
                             \A m \in reaper'[q].found \cup reaper'[q].doomed :
                               Hook(m)' => st'[m] \in {"exited", "gone"}
      BY <1>1 DEF ReapSound
    <2>1. reaper'[q].todo \cup reaper'[q].found \cup reaper'[q].doomed \subseteq 1..made
      BY <1>6, <1>7, <1>8 DEF ReapSound
    <2>2. ASSUME NEW m \in reaper'[q].doomed, Retain(m)'
          PROVE  Cardinality(Newer(m)') >= Keep
      <3>0. m \in Movers
        BY <1>t, <2>1
      <3>1. Retain(m) /\ Newer(m)' = Newer(m)
        BY <1>2, <2>2, <3>0
      <3>2. CASE m \in Doomed(r.found)
        BY <1>6, <3>1, <3>2, DoomedHasNewer
      <3>3. CASE m \in reaper[q].doomed
        BY <3>1, <3>3 DEF ReapSound
      <3> QED  BY <1>1, <1>7, <2>2, <3>2, <3>3
    <2>3. ASSUME engine = "docker", NEW m \in reaper'[q].found \cup reaper'[q].doomed, Hook(m)'
          PROVE  st'[m] \in {"exited", "gone"}
      <3>0. m \in Movers /\ Hook(m)
        BY <1>2, <1>t, <2>1, <2>3
      <3>1. \/ m \in reaper[q].found \cup reaper[q].doomed
            \/ NotRunning(m)
        BY <1>1, <1>7, <1>8
      <3>2. st[m] \in {"exited", "gone"}
        BY <2>3, <3>0, <3>1 DEF ReapSound, NotRunning
      <3> QED  BY <1>3, <3>0, <3>2
    <2> QED  BY <2>1, <2>2, <2>3
  <1>12. HookWaits'
    <2> SUFFICES ASSUME NEW m \in Movers, Hook(m), engine = "docker", run[m] = "start"
                 PROVE  st'[m] = "created"
      BY <1>1, <1>2 DEF HookWaits
    <2>1. st[m] = "created"
      BY DEF HookWaits
    <2>2. m \notin reaper[p].doomed
      BY <2>1 DEF ReapSound
    <2> QED  BY <1>3, <2>1, <2>2
  <1>13. ActiveKept'
    BY <1>2, <1>3, ActiveNotDoomed DEF ActiveKept
  <1>14. FinishedLeft'
    BY <1>1, <1>2 DEF FinishedLeft, TypeOK
  <1>15. DroppedOnlyForNewer'
    <2> SUFFICES ASSUME NEW m \in finished, st'[m] = "gone"
                 PROVE  Cardinality(Newer(m)) >= Keep
      BY <1>1, <1>2 DEF DroppedOnlyForNewer, Newer, TypeOK
    <2>1. m \in Movers /\ Retain(m)
      BY DEF TypeOK, FinishedLeft
    <2>2. CASE st[m] = "gone"
      BY <2>2 DEF DroppedOnlyForNewer, Newer
    <2>3. CASE m \in reaper[p].doomed
      BY <2>1, <2>3 DEF ReapSound
    <2> QED  BY <1>3, <2>1, <2>2, <2>3
  <1> QED  BY <1>9, <1>10, <1>11, <1>12, <1>13, <1>14, <1>15

LEMMA InvCrash ==
  ASSUME IInv, Crash
  PROVE  /\ Created' /\ ActiveNewest' /\ ReapSound' /\ HookWaits'
         /\ ActiveKept' /\ FinishedLeft' /\ DroppedOnlyForNewer'
  <1> USE DEF IInv
  <1>1. /\ UNCHANGED <<engine, made, kind, st>>
        /\ \A m \in Movers : run'[m] = IF Active(m) THEN "dead" ELSE run[m]
        /\ finished' = finished \cup {m \in Movers : Active(m) /\ Retain(m) /\ st[m] = "exited"}
        /\ \A p \in Reapers : reaper'[p] = Idle
    BY DEF Crash
  <1>2. \A m \in Movers : ~Active(m)' /\ run'[m] # "start"
    BY <1>1 DEF Active
  <1>3. \A m : /\ Retain(m)' <=> Retain(m)
               /\ Newer(m)' = Newer(m)
    BY <1>1 DEF Retain, Newer, Group
  <1>4. \A m \in Movers : Active(m) => run[m] # "none"
    BY DEF Active
  <1>5. Created'
    BY <1>1, <1>4 DEF Created
  <1>6. ActiveNewest' /\ HookWaits' /\ ActiveKept'
    BY <1>2 DEF ActiveNewest, HookWaits, ActiveKept
  <1>7. ReapSound'
    BY <1>1 DEF ReapSound, Idle
  <1>8. FinishedLeft'
    BY <1>1, <1>2, <1>3, <1>4 DEF FinishedLeft, Created, TypeOK
  <1>9. DroppedOnlyForNewer'
    BY <1>1, <1>3 DEF DroppedOnlyForNewer, Newer
  <1> QED  BY <1>5, <1>6, <1>7, <1>8, <1>9

LEMMA InvInit == Init => IInv
  <1> SUFFICES ASSUME Init PROVE IInv
    OBVIOUS
  <1>1. \A m \in Movers : ~Active(m) /\ run[m] = "none" /\ st[m] = "none"
    BY DEF Init, Active
  <1>2. \A p \in Reapers : reaper[p] = Idle
    BY DEF Init
  <1>3. finished = {}
    BY DEF Init
  <1> QED
    BY <1>1, <1>2, <1>3, TypeInit DEF IInv, Created, ActiveNewest, ReapSound, Idle,
       HookWaits, ActiveKept, FinishedLeft, DroppedOnlyForNewer

LEMMA InvNext ==
  ASSUME Keep > 0
  PROVE  IInv /\ [Next]_vars => IInv'
  <1> SUFFICES ASSUME IInv, [Next]_vars
               PROVE  /\ Created' /\ ActiveNewest' /\ ReapSound' /\ HookWaits'
                      /\ ActiveKept' /\ FinishedLeft' /\ DroppedOnlyForNewer'
    BY TypeNext DEF IInv
  <1>1. CASE UNCHANGED vars
    <2>1. UNCHANGED <<engine, made, kind, st, run, finished, reaper>>
      BY <1>1 DEF vars
    <2>2. \A m : /\ Retain(m)' <=> Retain(m)
                 /\ Hook(m)' <=> Hook(m)
                 /\ Active(m)' <=> Active(m)
                 /\ Newer(m)' = Newer(m)
      BY <2>1 DEF Retain, Hook, Active, Newer, Group
    <2>3. Created' /\ ActiveNewest' /\ HookWaits' /\ ActiveKept' /\ FinishedLeft'
      BY <2>1, <2>2 DEF IInv, Created, ActiveNewest, HookWaits, ActiveKept, FinishedLeft
    <2>4. ReapSound'
      BY <2>1, <2>2 DEF IInv, ReapSound
    <2>5. DroppedOnlyForNewer'
      BY <2>1, <2>2 DEF IInv, DroppedOnlyForNewer, Newer
    <2> QED  BY <2>3, <2>4, <2>5
  <1> QED
    BY <1>1, InvCreate, InvMover, InvReap, InvCrash DEF Next

\* With a history of at least one run, no reap, however stale what it acts on,
\* takes a retained mover away from the run that still waits for it or reads its
\* logs, nor the container of a hook that has not run.  With a history of 0 the
\* mover of a run that is about to read its logs is fair game.
THEOREM ReapsSpareOwnMovers ==
  ASSUME Keep > 0
  PROVE  Spec => []OwnMoverKept
  <1>1. IInv => OwnMoverKept
    BY DEF IInv, HookWaits, ActiveKept, OwnMoverKept
  <1> QED
    BY <1>1, InvInit, InvNext, PTL DEF Spec

\* For every history length, also 0: a finished run is dropped from the history
\* only when that many newer runs of its app, target and action exist.
THEOREM HistoryKept == Spec => []DroppedOnlyForNewer
  <1>1. ASSUME Keep > 0 PROVE Spec => []DroppedOnlyForNewer
    <2>1. IInv => DroppedOnlyForNewer
      BY DEF IInv
    <2>2. IInv /\ [Next]_vars => IInv'
      BY <1>1, InvNext
    <2> QED  BY <2>1, <2>2, InvInit, PTL DEF Spec
  <1>2. ASSUME Keep = 0 PROVE Spec => []DroppedOnlyForNewer
    <2>1. TypeOK => DroppedOnlyForNewer
      <3> SUFFICES ASSUME TypeOK, NEW m \in finished
                   PROVE  Cardinality(Newer(m)) >= Keep
        BY DEF DroppedOnlyForNewer, Newer
      <3> QED  BY <1>2, NewerFinite
    <2> QED  BY <2>1, TypeCorrect, PTL
  <1>3. Keep > 0 \/ Keep = 0
    BY KindAssumption
  <1> QED
    BY <1>1, <1>2, <1>3

=============================================================================
