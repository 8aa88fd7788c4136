--------------------------- MODULE MCZfsSnapshots ---------------------------
(***************************************************************************)
(* Instances of ZfsSnapshots for TLC: an instance "a" that is restarted in *)
(* mode zfs with a source on no dataset, whose backup is refused after its *)
(* listing and, beside it, an instance "a-b" that reaps when it starts and *)
(* is refused a foreign-backed source.  Two pools, nested datasets, two    *)
(* with the same mountpoint, one without any.  The first process has no    *)
(* snapshot mode configured, its app has one by label.                     *)
(***************************************************************************)
EXTENDS ZfsSnapshots

CONSTANTS d1, d2, sib

Daemons == {d1, d2, sib}
InstanceNames == (d1 :> <<"a">>) @@ (d2 :> <<"a">>) @@ (sib :> <<"a", "b">>)
SnapshotConfigured == {d2, sib}
AppNames == [p \in Daemons |-> <<"app">>]
Modes == (d1 :> "auto") @@ (d2 :> "zfs") @@ (sib :> "zfs")

Local(path) == [path |-> path, foreign |-> FALSE]

AppSources ==
  (d1 :> << Local(<<"srv", "app">>), Local(<<"srv", "app", "db", "data">>),
            Local(<<"fast">>), Local(<<"home">>),
            [path |-> <<"srv", "nfs">>, foreign |-> TRUE] >>) @@
  (d2 :> << Local(<<"home">>) >>) @@
  (sib :> << [path |-> <<"srv", "nfs">>, foreign |-> TRUE] >>)

HostDatasets == << [name |-> <<"tank">>, mount |-> None],
                   [name |-> <<"tank", "srv">>, mount |-> <<"srv">>],
                   [name |-> <<"tank", "db">>, mount |-> <<"srv", "app", "db">>],
                   [name |-> <<"ssd">>, mount |-> <<"fast">>],
                   [name |-> <<"ssd", "old">>, mount |-> <<"fast">>] >>

=============================================================================
