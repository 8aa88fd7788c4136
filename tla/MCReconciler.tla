---------------------------- MODULE MCReconciler ----------------------------
(***************************************************************************)
(* Instances of Reconciler for TLC: hosts with two containers c1 and c2    *)
(* whose labels claim the repositories x and y.                            *)
(***************************************************************************)
EXTENDS Reconciler

AllTargets == [t \in {} |-> ""]
Label(name, app, spec, targets) ==
  [name |-> name, app |-> app, spec |-> spec, targets |-> targets]

Container(c, backups) == [ctr |-> c, task |-> "", pin |-> "", backups |-> backups]

\* t1 has a schedule and a check; t2 runs by hand unless a label schedules it.
MCConfig == [t1 |-> [schedule |-> "daily", check |-> "weekly", prune |-> ""],
             t2 |-> [schedule |-> "", check |-> "", prune |-> "monthly"]]
OneTarget == [t1 |-> [schedule |-> "daily", check |-> "", prune |-> ""]]

\* A plain backup of x, its spec edited, one with an invalid schedule, a sibling
\* of the same repository, and a container whose named backup collides with them.
MCUnits ==
  {Container("c1", <<Label("", "x", "s1", AllTargets)>>),
   Container("c1", <<Label("", "x", "s2", [t1 |-> "", t2 |-> "hourly"])>>),
   Container("c2", <<Label("", "x", "s1", [t2 |-> "hourly"])>>),
   Container("c2", <<Label("", "y", "s1", [t1 |-> "bad"]),
                     Label("db", "x", "s2", [t1 |-> "hourly"])>>)}

\* c1's label is edited in place between the two specs.
MCMoves == {m \in MCUnits \X MCUnits : m[1].ctr = "c1" /\ m[2].ctr = "c1" /\ m[1] # m[2]}

\* For liveness: a service that is edited while its task moves, and a container
\* whose named backup collides with it.
LiveUnits ==
  LET svc(task, spec) == [ctr |-> "c1", task |-> task, pin |-> "n1",
                          backups |-> <<Label("", "x", spec, AllTargets)>>]
  IN  {svc("n1", "s1"), svc("n2", "s2"),
       Container("c2", <<Label("db", "x", "s2", AllTargets)>>)}
LiveMoves == {m \in LiveUnits \X LiveUnits : m[1].ctr = m[2].ctr /\ m[1] # m[2]}

\* A service whose task moves from one node to another.
SwarmUnits ==
  {[ctr |-> "c1", task |-> node, pin |-> "", backups |-> <<Label("", "x", "s1", AllTargets)>>] :
     node \in {"n1", "n2", ""}}
SwarmMoves == {m \in SwarmUnits \X SwarmUnits : m[1] # m[2]}
=============================================================================
