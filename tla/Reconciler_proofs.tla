------------------------- MODULE Reconciler_proofs --------------------------
(***************************************************************************)
(* Proofs about Reconciler, for any units, targets and faults and any      *)
(* number of edits of the host.                                            *)
(*                                                                         *)
(* The schedule is wrong only between a List and the Sync that follows it, *)
(* or when the host changed after the List or the List was incomplete:     *)
(* whenever the last List is fresh and whole, what Sync is about to apply  *)
(* is the host's (JobsInv), and what it applied matches the host           *)
(* (MatchInv).  An entry that Sync keeps because its fingerprint is        *)
(* unchanged runs the job it captured long ago: EntryInv ties the two.     *)
(***************************************************************************)
EXTENDS Reconciler, FiniteSetTheorems, TLAPS

-----------------------------------------------------------------------------
(* The positions of the backups on a host, and the n-th of them.           *)

\* Counting the positions up to one of them numbers a finite set of positions.
LEMMA NthIs ==
  ASSUME NEW P \in SUBSET (Nat \X Nat), IsFiniteSet(P), NEW n \in 1..Cardinality(P)
  PROVE  Nth(P, n) \in P
  <1> DEFINE Upto(x) == {y \in P : y[1] < x[1] \/ (y[1] = x[1] /\ y[2] <= x[2])}
             rank == [x \in P |-> Cardinality(Upto(x))]
             N == Cardinality(P)
  <1>1. N \in Nat
    BY FS_CardinalityType
  <1>2. ASSUME NEW x \in P
        PROVE  IsFiniteSet(Upto(x)) /\ Cardinality(Upto(x)) \in 1..N /\ x \in Upto(x)
    <2>1. x \in Upto(x) /\ Upto(x) \subseteq P
      OBVIOUS
    <2>2. IsFiniteSet(Upto(x)) /\ Cardinality(Upto(x)) <= N
      <3> HIDE DEF Upto
      <3> QED  BY <2>1, FS_Subset
    <2>3. Cardinality(Upto(x)) \in Nat /\ Cardinality(Upto(x)) # 0
      <3> HIDE DEF Upto
      <3> QED  BY <2>1, <2>2, FS_CardinalityType, FS_EmptySet
    <2> QED  BY <1>1, <2>1, <2>2, <2>3
  <1>3. ASSUME NEW x \in P, NEW z \in P, rank[x] = rank[z]
        PROVE  x = z
    <2>1. Upto(x) \subseteq Upto(z) \/ Upto(z) \subseteq Upto(x)
      OBVIOUS
    <2>2. Cardinality(Upto(x)) = Cardinality(Upto(z))
      BY <1>3
    <2>3. Upto(x) = Upto(z)
      <3> HIDE DEF Upto
      <3> QED  BY <1>2, <2>1, <2>2, FS_Subset
    <2>4. x \in Upto(z) /\ z \in Upto(x)
      BY <1>2, <2>3
    <2>5. x[1] = z[1] /\ x[2] = z[2]
      BY <2>4
    <2> QED  BY <2>5
  <1>4. rank \in [P -> 1..N]
    <2> HIDE DEF Upto
    <2> QED  BY <1>2
  <1>5. rank \in Injection(P, 1..N)
    <2> HIDE DEF rank
    <2> QED  BY <1>3, <1>4 DEF Injection, IsInjective
  <1>6. IsFiniteSet(1..N) /\ Cardinality(1..N) = N
    BY <1>1, FS_Interval
  <1>7. rank \in Surjection(P, 1..N)
    <2> HIDE DEF rank
    <2> QED  BY <1>5, <1>6, FS_Injection
  <1>8. PICK x \in P : rank[x] = n
    <2> HIDE DEF rank
    <2> QED  BY <1>7 DEF Surjection
  <1>9. \E y \in P : Cardinality(Upto(y)) = n
    BY <1>8
  <1>10. Nth(P, n) = CHOOSE y \in P : Cardinality(Upto(y)) = n
    BY DEF Nth
  <1> HIDE DEF Upto
  <1> QED  BY <1>9, <1>10

\* A backup label is at each position, and there are finitely many.
LEMMA ResolvedIs ==
  ASSUME NEW w \in Seq(Units), NEW lost
  PROVE  /\ Resolved(w, lost) \in SUBSET (Nat \X Nat)
         /\ IsFiniteSet(Resolved(w, lost))
         /\ \A x \in Resolved(w, lost) : /\ x[1] \in DOMAIN w /\ w[x[1]] \in Units
                                         /\ x[2] \in DOMAIN w[x[1]].backups
                                         /\ LabelAt(w, x).app \in Apps
  <1> DEFINE D(i) == {i} \X DOMAIN w[i].backups
             S == {D(i) : i \in DOMAIN w}
  <1>1. Len(w) \in Nat /\ DOMAIN w = 1..Len(w) /\ \A i \in DOMAIN w : w[i] \in Units
    OBVIOUS
  <1>2. ASSUME NEW u \in Units
        PROVE  Len(u.backups) \in Nat /\ DOMAIN u.backups = 1..Len(u.backups)
    <2>1. u.backups \in Seq(Range(u.backups))
      BY UnitAssumption DEF IsUnit
    <2> QED  BY <2>1
  <1>3. \A x \in Resolved(w, lost) : x[1] \in DOMAIN w /\ x[2] \in DOMAIN w[x[1]].backups
                                     /\ x \in D(x[1]) /\ x \in UNION S
    BY DEF Resolved
  <1>4. Resolved(w, lost) \in SUBSET (Nat \X Nat)
    <2>1. ASSUME NEW x \in Resolved(w, lost) PROVE x \in Nat \X Nat
      <3>1. x \in D(x[1]) /\ x[1] \in Nat /\ DOMAIN w[x[1]].backups \subseteq Nat
        BY <1>1, <1>2, <1>3
      <3> QED  BY <3>1
    <2> QED  BY <2>1
  <1>5. IsFiniteSet(Resolved(w, lost))
    <2>1. ASSUME NEW i \in DOMAIN w PROVE IsFiniteSet(D(i))
      <3>1. IsFiniteSet(DOMAIN w[i].backups)
        <4> DEFINE b == w[i].backups
        <4>1. Len(b) \in Nat /\ DOMAIN b = 1..Len(b)
          BY <1>1, <1>2, <2>1
        <4> HIDE DEF b
        <4>2. IsFiniteSet(1..Len(b))
          BY <4>1, FS_Interval
        <4>3. IsFiniteSet(DOMAIN b)
          BY <4>1, <4>2
        <4> QED  BY <4>3 DEF b
      <3>2. IsFiniteSet({i})
        BY FS_Singleton
      <3> QED  BY <3>1, <3>2, FS_Product
    <2>2. IsFiniteSet(S)
      <3>1. IsFiniteSet(DOMAIN w)
        BY <1>1, FS_Interval
      <3> DEFINE f == [i \in DOMAIN w |-> D(i)]
      <3>2. f \in Surjection(DOMAIN w, S)
        BY DEF Surjection
      <3> HIDE DEF f, S
      <3> QED  BY <3>1, <3>2, FS_Surjection
    <2>3. IsFiniteSet(UNION S)
      <3>1. \A T \in S : IsFiniteSet(T)
        <4> HIDE DEF D
        <4> QED  BY <2>1
      <3> HIDE DEF S
      <3> QED  BY <2>2, <3>1, FS_UNION
    <2>4. Resolved(w, lost) \subseteq UNION S
      BY <1>3
    <2> HIDE DEF S
    <2> QED  BY <2>3, <2>4, FS_Subset
  <1>6. ASSUME NEW x \in Resolved(w, lost) PROVE LabelAt(w, x).app \in Apps
    BY <1>1, <1>3 DEF LabelAt, Apps
  <1> QED  BY <1>1, <1>3, <1>4, <1>5, <1>6

\* A job of a List is a backup that resolved and collides with none.
LEMMA ListIs ==
  ASSUME NEW w \in Seq(Units), NEW lost, NEW blind
  PROVE  \A n \in DOMAIN List(w, lost, blind) :
           /\ DOMAIN List(w, lost, blind)[n] = DOMAIN NoJob
           /\ List(w, lost, blind)[n].app \in Apps
           /\ \E x \in DropNamedCollisions(w, Resolved(w, lost)) :
                List(w, lost, blind)[n].app = LabelAt(w, x).app
  <1> DEFINE P == DropNamedCollisions(w, Resolved(w, lost))
             job(x) == resolve(w[x[1]], LabelAt(w, x), w[x[1]].ctr \notin blind)
  <1>1. P \subseteq Resolved(w, lost)
    BY DEF DropNamedCollisions
  <1>2. P \in SUBSET (Nat \X Nat) /\ IsFiniteSet(P)
    <2> HIDE DEF P
    <2> QED  BY <1>1, ResolvedIs, FS_Subset
  <1>3. List(w, lost, blind) = [n \in 1..Cardinality(P) |-> job(Nth(P, n))]
    BY DEF List
  <1>4. SUFFICES ASSUME NEW n \in 1..Cardinality(P)
                 PROVE  /\ DOMAIN job(Nth(P, n)) = DOMAIN NoJob
                        /\ job(Nth(P, n)).app \in Apps
                        /\ \E x \in P : job(Nth(P, n)).app = LabelAt(w, x).app
    <2> DEFINE L == List(w, lost, blind)
    <2>1. DOMAIN L = 1..Cardinality(P) /\ \A n \in 1..Cardinality(P) : L[n] = job(Nth(P, n))
      <3> HIDE DEF P, job
      <3> QED  BY <1>3
    <2> HIDE DEF P, job, L
    <2>2. \A n \in DOMAIN L : /\ DOMAIN L[n] = DOMAIN NoJob
                              /\ L[n].app \in Apps
                              /\ \E x \in P : L[n].app = LabelAt(w, x).app
      BY <1>4, <2>1
    <2> QED  BY <2>2 DEF L, P
  <1>5. Nth(P, n) \in P
    <2> HIDE DEF P
    <2> QED  BY <1>2, <1>4, NthIs
  <1>6. DOMAIN job(Nth(P, n)) = DOMAIN NoJob /\ job(Nth(P, n)).app = LabelAt(w, Nth(P, n)).app
    <2> HIDE DEF P
    <2> QED  BY DEF resolve, NoJob
  <1>7. LabelAt(w, Nth(P, n)).app \in Apps
    <2> HIDE DEF P
    <2> QED  BY <1>1, <1>5, ResolvedIs
  <1> HIDE DEF P, job
  <1> QED  BY <1>5, <1>6, <1>7

-----------------------------------------------------------------------------
(* The inductive invariant.                                                *)

\* What a run in flight will mark is an app of the host's labels.
RunInv == run = NoRun \/ run.app \in Apps

\* An entry is one AddFunc accepted, and its fingerprint is that of the job it runs.
EntryInv == \A k \in DOMAIN entries :
  /\ entries[k].schedule \notin BadSchedules
  /\ k[3] = "backup" => entries[k].fp = jobFingerprint(entries[k].job, k[2])
  /\ k[3] # "backup" => entries[k].job = NoJob

\* What Sync is about to apply is the host's.
JobsInv == fresh /\ whole /\ loop = "sync" => jobs = Current

\* What it applied matches the host, also in the middle of the next Reconcile.
MatchInv == fresh /\ whole /\ loop # "sync" => Matches

RInv == TypeOK /\ RunInv /\ EntryInv /\ JobsInv /\ MatchInv

-----------------------------------------------------------------------------
(* Sync.                                                                   *)

\* Sync gives the keys of the valid jobs, each with its schedule and fingerprint,
\* whatever the entries were before.
LEMMA SyncIs ==
  ASSUME NEW js, EntryInv
  PROVE  /\ DOMAIN Sync(Desired(js)) = {k \in Keys(js) : Desired(js)[k].schedule \notin BadSchedules}
         /\ \A k \in DOMAIN Sync(Desired(js)) :
              /\ Sync(Desired(js))[k].schedule = Desired(js)[k].schedule
              /\ Sync(Desired(js))[k].fp = Desired(js)[k].fp
              /\ Sync(Desired(js))[k].schedule \notin BadSchedules
              /\ k[3] = "backup" =>
                   Sync(Desired(js))[k].fp = jobFingerprint(Sync(Desired(js))[k].job, k[2])
              /\ k[3] # "backup" => Sync(Desired(js))[k].job = NoJob
  <1> DEFINE want == Desired(js)
             kept == {k \in DOMAIN entries \cap DOMAIN want :
                        /\ want[k].schedule = entries[k].schedule
                        /\ want[k].fp = entries[k].fp}
             added == {k \in DOMAIN want \ kept : want[k].schedule \notin BadSchedules}
             new == Sync(want)
  <1>1. new = [k \in kept \cup added |-> IF k \in kept THEN entries[k] ELSE want[k]]
    BY DEF Sync
  <1>2. /\ DOMAIN want = Keys(js)
        /\ \A k \in DOMAIN want :
             /\ k[3] = "backup" => want[k].fp = jobFingerprint(want[k].job, k[2])
             /\ k[3] # "backup" => want[k].job = NoJob
    BY DEF Desired
  <1> HIDE DEF want, new
  <1>3. DOMAIN new = {k \in Keys(js) : want[k].schedule \notin BadSchedules}
    BY <1>1, <1>2 DEF EntryInv
  <1>4. ASSUME NEW k \in DOMAIN new
        PROVE  /\ new[k].schedule = want[k].schedule /\ new[k].fp = want[k].fp
               /\ new[k].schedule \notin BadSchedules
               /\ k[3] = "backup" => new[k].fp = jobFingerprint(new[k].job, k[2])
               /\ k[3] # "backup" => new[k].job = NoJob
    <2>1. CASE k \in kept
      <3>1. new[k] = entries[k] /\ k \in DOMAIN entries
        BY <1>1, <1>4, <2>1
      <3> QED  BY <2>1, <3>1 DEF EntryInv
    <2>2. CASE k \notin kept
      <3>1. new[k] = want[k] /\ k \in added
        BY <1>1, <1>4, <2>2
      <3> QED  BY <1>2, <3>1
    <2> QED  BY <2>1, <2>2
  <1> QED  BY <1>3, <1>4 DEF want, new

-----------------------------------------------------------------------------
LEMMA NoRunIs == NoRun.app = ""
  BY DEF NoRun

LEMMA InitRInv == Init => RInv
  <1> SUFFICES ASSUME Init PROVE RInv
    OBVIOUS
  <1>1. world \in Seq(Units)
    <2>1. PICK n \in 0..Cardinality({u.ctr : u \in Units}) : world \in [1..n -> Units]
      BY DEF Init, Hosts
    <2>2. n \in Nat
      BY <2>1
    <2> QED  BY <2>1, <2>2
  <1>2. /\ DOMAIN jobs = {} /\ DOMAIN entries = {} /\ run.app = ""
    <2>1. jobs = <<>> /\ entries = <<>> /\ run = NoRun
      BY DEF Init
    <2>2. run.app = ""
      BY <2>1, NoRunIs
    <2>3. DOMAIN jobs = {} /\ DOMAIN entries = {}
      BY <2>1
    <2> QED  BY <2>2, <2>3
  <1>3. TypeOK
    <2>1. changes \in 0..MaxChanges
      <3>1. changes = 0 /\ MaxChanges \in Nat
        BY BoundAssumption DEF Init
      <3> QED  BY <3>1
    <2>2. {event, stream, signal, debounce, whole, fresh} \subseteq BOOLEAN
      BY DEF Init
    <2>3. loop \in {"select", "list", "sync", "forget"} /\ seen \subseteq Apps
      BY DEF Init
    <2> QED  BY <1>1, <1>2, <2>1, <2>2, <2>3 DEF TypeOK
  <1> QED  BY <1>2, <1>3 DEF Init, RInv, RunInv, EntryInv, JobsInv, MatchInv

\* Edits of the host keep it a sequence of units.
LEMMA EditStep ==
  ASSUME RInv, NEW w \in Seq(Units), Edit(w)
  PROVE  RInv'
  <1>1. /\ world' = w /\ fresh' = FALSE /\ changes' = changes + 1 /\ changes < MaxChanges
        /\ event' \in {event, event \/ stream}
        /\ UNCHANGED <<stream, signal, debounce, loop, jobs, whole, entries, seen, run>>
    BY DEF Edit, metricVars
  <1>2. event' \in BOOLEAN
    <2>1. event \in BOOLEAN /\ stream \in BOOLEAN
      BY DEF RInv, TypeOK
    <2> QED  BY <1>1, <2>1
  <1>3. changes' \in 0..MaxChanges
    <2>1. changes \in 0..MaxChanges
      BY DEF RInv, TypeOK
    <2>2. MaxChanges \in Nat
      BY BoundAssumption
    <2>3. changes' = changes + 1 /\ changes < MaxChanges
      BY <1>1
    <2> QED  BY <2>1, <2>2, <2>3
  <1>4. TypeOK'
    BY <1>1, <1>2, <1>3 DEF RInv, TypeOK
  <1> QED  BY <1>1, <1>4 DEF RInv, RunInv, EntryInv, JobsInv, MatchInv

LEMMA HostSteps ==
  ASSUME RInv,
         \/ \E u \in Units : Create(u) \/ Destroy(u)
         \/ \E m \in Moves : Update(m)
  PROVE  RInv'
  <1>1. world \in Seq(Units)
    BY DEF RInv, TypeOK
  <1>2. ASSUME NEW c PROVE Others(c) \in Seq(Units)
    <2> DEFINE I == {i \in DOMAIN world : world[i].ctr = c}
               i == CHOOSE i \in I : TRUE
    <2>1. CASE I = {}
      BY <1>1, <2>1 DEF Others
    <2>2. CASE I # {}
      <3>1. i \in 1..Len(world) /\ Others(c) = RemoveAt(world, i)
        BY <1>1, <2>2 DEF Others
      <3> HIDE DEF i
      <3>2. SubSeq(world, 1, i - 1) \in Seq(Units) /\ SubSeq(world, i + 1, Len(world)) \in Seq(Units)
        BY <1>1, <3>1
      <3> QED  BY <3>1, <3>2 DEF RemoveAt
    <2> QED  BY <2>1, <2>2
  <1>3. ASSUME NEW u \in Units, Create(u) PROVE RInv'
    <2>1. <<u>> \o Others(u.ctr) \in Seq(Units)
      BY <1>2
    <2> QED  BY <1>3, <2>1, EditStep DEF Create
  <1>4. ASSUME NEW u \in Units, Destroy(u) PROVE RInv'
    BY <1>2, <1>4, EditStep DEF Destroy
  <1>5. ASSUME NEW m \in Moves, Update(m) PROVE RInv'
    <2>1. m[2] \in Units
      BY UnitAssumption
    <2>2. [i \in DOMAIN world |-> IF world[i] = m[1] THEN m[2] ELSE world[i]] \in Seq(Units)
      BY <1>1, <2>1
    <2> QED  BY <1>5, <2>2, EditStep DEF Update
  <1> QED  BY <1>3, <1>4, <1>5

\* Steps of the watcher and of the loop that list and schedule nothing.
LEMMA WatchSteps ==
  ASSUME RInv,
         \/ Noise \/ Deliver \/ StreamBreaks \/ Subscribe \/ TakeSignal \/ DebounceFires
         \/ Tick \/ ListFails
  PROVE  RInv'
  <1>1. /\ UNCHANGED <<world, changes, jobs, whole, fresh, entries, seen, run>>
        /\ {event', stream', signal', debounce'} \subseteq BOOLEAN
        /\ loop' \in {"select", "list", "sync", "forget"}
        /\ loop # "sync" \/ loop' = loop
        /\ loop' # "sync" \/ loop' = loop
    BY DEF RInv, TypeOK, Noise, Deliver, StreamBreaks, Subscribe, TakeSignal, DebounceFires,
           Tick, ListFails, watchVars, metricVars
  <1>2. TypeOK'
    BY <1>1 DEF RInv, TypeOK
  <1>3. Matches' <=> Matches
    BY <1>1 DEF Matches, Current
  <1> QED  BY <1>1, <1>2, <1>3 DEF RInv, RunInv, EntryInv, JobsInv, MatchInv, Current

LEMMA ReconcileSteps ==
  ASSUME RInv, LoopStep
  PROVE  RInv'
  <1>1. ASSUME NEW lost, NEW blind, ListJobs(lost, blind) PROVE RInv'
    <2>1. /\ loop' = "sync" /\ jobs' = List(world, lost, blind) /\ fresh' = TRUE
          /\ whole' = (lost = {} /\ blind = {})
          /\ UNCHANGED <<world, changes, event, stream, signal, debounce, entries, seen, run>>
      BY <1>1 DEF ListJobs, watchVars, metricVars
    <2>2. \A i \in DOMAIN jobs' : DOMAIN jobs'[i] = DOMAIN NoJob
      <3>1. world \in Seq(Units)
        BY DEF RInv, TypeOK
      <3> QED  BY <2>1, <3>1, ListIs
    <2>3. TypeOK'
      BY <2>1, <2>2 DEF RInv, TypeOK
    <2>4. JobsInv'
      BY <2>1 DEF JobsInv, Current
    <2> QED  BY <2>1, <2>3, <2>4 DEF RInv, RunInv, EntryInv, MatchInv
  <1>2. CASE SyncSchedule
    <2>1. /\ loop = "sync" /\ loop' = "forget" /\ entries' = Sync(Desired(jobs))
          /\ UNCHANGED <<world, changes, event, stream, signal, debounce, jobs, whole, fresh,
                         seen, run>>
      BY <1>2 DEF SyncSchedule, watchVars, metricVars
    <2> DEFINE new == Sync(Desired(jobs))
               want == Desired(jobs)
    <2>2. /\ DOMAIN new = {k \in Keys(jobs) : want[k].schedule \notin BadSchedules}
          /\ \A k \in DOMAIN new :
               /\ new[k].schedule = want[k].schedule /\ new[k].fp = want[k].fp
               /\ new[k].schedule \notin BadSchedules
               /\ k[3] = "backup" => new[k].fp = jobFingerprint(new[k].job, k[2])
               /\ k[3] # "backup" => new[k].job = NoJob
      BY SyncIs DEF RInv
    <2>3. Keys(jobs) \subseteq Apps \X Targets \X Kinds /\ DOMAIN want = Keys(jobs)
      BY DEF Keys, Desired
    <2>4. entries' = new
      BY <2>1
    <2> HIDE DEF new, want
    <2>5. TypeOK'
      BY <2>1, <2>2, <2>3, <2>4 DEF RInv, TypeOK
    <2>6. EntryInv'
      BY <2>2, <2>4 DEF EntryInv, jobFingerprint
    <2>7. ASSUME fresh, whole PROVE Matches'
      <3>1. want = Desired(Current)'
        BY <2>1, <2>7 DEF RInv, JobsInv, Current, want
      <3> QED  BY <2>2, <2>3, <2>4, <3>1 DEF Matches
    <2> QED  BY <2>1, <2>5, <2>6, <2>7 DEF RInv, RunInv, JobsInv, MatchInv
  <1>3. CASE ForgetAbsent
    <2>1. /\ loop = "forget" /\ loop' = "select" /\ jobs' = <<>> /\ seen' \subseteq seen
          /\ UNCHANGED <<world, changes, event, stream, signal, debounce, whole, fresh,
                         entries, run>>
      BY <1>3 DEF ForgetAbsent, watchVars
    <2>2. TypeOK'
      <3>1. DOMAIN jobs' = {}
        BY <2>1
      <3> QED  BY <2>1, <3>1 DEF RInv, TypeOK
    <2>3. Matches' <=> Matches
      BY <2>1 DEF Matches, Current
    <2> QED  BY <2>1, <2>2, <2>3 DEF RInv, RunInv, EntryInv, JobsInv, MatchInv
  <1> QED  BY <1>1, <1>2, <1>3 DEF LoopStep

LEMMA RunSteps ==
  ASSUME RInv,
         \/ \E k \in DOMAIN entries : Fire(k)
         \/ \E a \in Apps : Backup(a)
         \/ RunAll \/ MarkSeen
  PROVE  RInv'
  <1>1. /\ UNCHANGED <<world, changes, event, stream, signal, debounce, loop, jobs, whole, fresh,
                       entries>>
    BY DEF Fire, Backup, RunAll, StartManual, MarkSeen, watchVars
  <1>2. ASSUME seen' \subseteq Apps, run' = NoRun \/ run'.app \in Apps
        PROVE  RInv'
    <2>1. run'.app \in Apps \cup {""}
      BY <1>2, NoRunIs
    <2>2. TypeOK'
      BY <1>1, <1>2, <2>1 DEF RInv, TypeOK
    <2>3. Matches' <=> Matches
      BY <1>1 DEF Matches, Current
    <2> QED  BY <1>1, <1>2, <2>2, <2>3 DEF RInv, RunInv, EntryInv, JobsInv, MatchInv, Current
  <1>3. seen \subseteq Apps /\ (run = NoRun \/ run.app \in Apps)
    BY DEF RInv, TypeOK, RunInv
  <1>4. ASSUME NEW k \in DOMAIN entries, Fire(k) PROVE RInv'
    <2>1. k[1] \in Apps
      BY DEF RInv, TypeOK
    <2>2. run'.app = k[1] /\ seen' = seen
      BY <1>4 DEF Fire
    <2> QED  BY <1>2, <1>3, <2>1, <2>2
  <1>5. ASSUME NEW pls, pls \subseteq plans(Current), StartManual(pls) PROVE RInv'
    <2>1. PICK pl \in pls : run' = [app |-> Current[pl[1]].app, job |-> Current[pl[1]]]
      BY <1>5 DEF StartManual
    <2>2. pl[1] \in DOMAIN Current
      BY <1>5, <2>1 DEF plans
    <2>3. Current[pl[1]].app \in Apps
      BY <2>2, ListIs DEF Current, RInv, TypeOK
    <2>4. seen' = seen
      BY <1>5 DEF StartManual
    <2> QED  BY <1>2, <1>3, <2>1, <2>3, <2>4
  <1>6. ASSUME NEW a \in Apps, Backup(a) PROVE RInv'
    <2>1. resolveApp(Current, a, "") \subseteq plans(Current)
      BY DEF resolveApp
    <2> QED  BY <1>5, <1>6, <2>1 DEF Backup
  <1>7. CASE RunAll
    <2>1. filterPlans(Current, "", "") \subseteq plans(Current)
      BY DEF filterPlans
    <2> QED  BY <1>5, <1>7, <2>1 DEF RunAll
  <1>8. CASE MarkSeen
    BY <1>2, <1>3, <1>8 DEF MarkSeen
  <1> QED  BY <1>4, <1>6, <1>7, <1>8

LEMMA NextRInv == RInv /\ [Next]_vars => RInv'
  <1>1. ASSUME RInv, Next PROVE RInv'
    BY <1>1, HostSteps, WatchSteps, ReconcileSteps, RunSteps DEF Next
  <1>2. ASSUME RInv, UNCHANGED vars PROVE RInv'
    <2>1. UNCHANGED <<world, changes, event, stream, signal, debounce, loop, jobs, whole, fresh,
                      entries, seen, run>>
      BY <1>2 DEF vars
    <2>2. Matches' <=> Matches
      BY <2>1 DEF Matches, Current
    <2>3. TypeOK'
      BY <1>2, <2>1 DEF RInv, TypeOK
    <2> QED  BY <1>2, <2>1, <2>2, <2>3 DEF RInv, RunInv, EntryInv, JobsInv, MatchInv, Current
  <1> QED  BY <1>1, <1>2

LEMMA SpecRInv == Spec => []RInv
  BY InitRInv, NextRInv, PTL DEF Spec

-----------------------------------------------------------------------------
(* Theorems.                                                               *)

\* Whatever is discovered, scheduled, run and recorded is about apps of the labels and
\* targets of the targets file, for any units, edits and faults of List.
THEOREM TypeCorrect == Spec => []TypeOK
  <1>1. RInv => TypeOK
    BY DEF RInv
  <1> QED  BY <1>1, SpecRInv, PTL

\* Sync: after any history of edits, partial lists and failed lists, a Reconcile that
\* listed the host completely leaves exactly the valid jobs of the host scheduled.
THEOREM ScheduleFollowsHost == Spec => []ScheduleMatches
  <1>1. RInv => ScheduleMatches
    BY DEF RInv, MatchInv, ScheduleMatches, Settled
  <1> QED  BY <1>1, SpecRInv, PTL

\* jobFingerprint and Sync: an entry kept because its fingerprint is the same backs up
\* what the label says now, however long ago its closure captured the job.
THEOREM EntriesAreCurrent == Spec => []EntriesRunCurrentSpec
  <1>1. ASSUME RInv, Settled, NEW k \in DOMAIN entries
        PROVE  entries[k].job.spec = Desired(Current)[k].job.spec
    <2> DEFINE want == Desired(Current)
    <2>1. Matches
      BY <1>1 DEF RInv, MatchInv, Settled
    <2>2. /\ k \in DOMAIN want
          /\ entries[k].schedule = want[k].schedule /\ entries[k].fp = want[k].fp
      BY <1>1, <2>1 DEF Matches
    <2>3. /\ k[3] = "backup" => want[k].fp = jobFingerprint(want[k].job, k[2])
          /\ k[3] # "backup" => want[k].job = NoJob
      BY <2>2 DEF Desired
    <2> HIDE DEF want
    <2>4. /\ k[3] = "backup" => entries[k].fp = jobFingerprint(entries[k].job, k[2])
          /\ k[3] # "backup" => entries[k].job = NoJob
      BY <1>1 DEF RInv, EntryInv
    <2>5. entries[k].job.spec = want[k].job.spec
      BY <2>2, <2>3, <2>4 DEF jobFingerprint
    <2> QED  BY <2>5 DEF want
  <1>2. RInv => EntriesRunCurrentSpec
    BY <1>1 DEF EntriesRunCurrentSpec
  <1> QED  BY <1>2, SpecRInv, PTL

\* DropNamedCollisions, List and Sync: once the host is listed, no backup is scheduled
\* for a repository that a named backup shares with another label of the host.
THEOREM CollisionsStayOut == Spec => []CollisionsUnscheduled
  <1>1. ASSUME RInv, Settled, NEW k \in DOMAIN entries
        PROVE  LET claims == {c \in UNION {{i} \X DOMAIN world[i].backups : i \in DOMAIN world} :
                                world[c[1]].backups[c[2]].app = k[1]}
               IN  (\E c \in claims : world[c[1]].backups[c[2]].name # "")
                     => Cardinality(claims) = 1
    <2> DEFINE R == Resolved(world, {})
               claims == {c \in R : LabelAt(world, c).app = k[1]}
    <2>1. Matches /\ world \in Seq(Units)
      BY <1>1 DEF RInv, TypeOK, MatchInv, Settled
    <2>2. k \in Keys(Current)
      <3>1. k \in DOMAIN Desired(Current)
        BY <1>1, <2>1 DEF Matches
      <3> QED  BY <3>1 DEF Desired
    <2>3. PICK n \in DOMAIN Current : Current[n].app = k[1]
      <3>1. PICK pl \in plans(Current) : Current[pl[1]].app = k[1]
        BY <2>2 DEF Keys
      <3>2. pl[1] \in DOMAIN Current
        BY <3>1 DEF plans
      <3> QED  BY <3>1, <3>2
    <2>4. PICK x \in DropNamedCollisions(world, R) : k[1] = LabelAt(world, x).app
      BY <2>1, <2>3, ListIs DEF Current
    <2>5. x \in claims /\ ((\E c \in claims : LabelAt(world, c).name # "")
                             => ~(Cardinality(claims) > 1))
      BY <2>4 DEF DropNamedCollisions
    <2>6. IsFiniteSet(claims)
      <3>1. IsFiniteSet(R) /\ claims \subseteq R
        BY <2>1, ResolvedIs
      <3> HIDE DEF R, claims
      <3> QED  BY <3>1, FS_Subset
    <2>7. Cardinality(claims) \in Nat /\ Cardinality(claims) # 0
      <3> HIDE DEF claims
      <3> QED  BY <2>5, <2>6, FS_CardinalityType, FS_EmptySet
    <2>8. (\E c \in claims : LabelAt(world, c).name # "") => Cardinality(claims) = 1
      <3>1. ~(Cardinality(claims) > 1) => Cardinality(claims) = 1
        <4> HIDE DEF claims
        <4> QED  BY <2>7
      <3> QED  BY <2>5, <3>1
    <2>9. R = UNION {{i} \X DOMAIN world[i].backups : i \in DOMAIN world}
      BY DEF Resolved
    <2> QED  BY <2>8, <2>9 DEF LabelAt
  <1>2. RInv => CollisionsUnscheduled
    BY <1>1 DEF CollisionsUnscheduled
  <1> QED  BY <1>2, SpecRInv, PTL

\* filterPlans: every app and target the schedule holds is one a command line finds.
THEOREM CommandsFindSchedule == Spec => []CliReachesSchedule
  <1>1. ASSUME RInv, Settled, NEW k \in DOMAIN entries
        PROVE  filterPlans(Current, k[1], k[2]) # {}
    <2>1. k \in DOMAIN Desired(Current)
      BY <1>1 DEF RInv, MatchInv, Settled, Matches
    <2>2. k \in Keys(Current)
      BY <2>1 DEF Desired
    <2>3. PICK pl \in plans(Current) : Current[pl[1]].app = k[1] /\ pl[2] = k[2]
      BY <2>2 DEF Keys
    <2>4. pl \in filterPlans(Current, k[1], k[2])
      BY <2>3 DEF filterPlans
    <2> QED  BY <2>4
  <1>2. RInv => CliReachesSchedule
    BY <1>1 DEF CliReachesSchedule
  <1> QED  BY <1>2, SpecRInv, PTL

=============================================================================
