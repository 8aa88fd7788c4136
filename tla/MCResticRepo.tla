---------------------------- MODULE MCResticRepo ----------------------------
(***************************************************************************)
(* Instances of ResticRepo for TLC: two apps that share a repository, one  *)
(* with a retention policy and one without.                                *)
(***************************************************************************)
EXTENDS ResticRepo, TLC

CONSTANTS x, d1

TwoApps == {"web", "db"}
Policies == ("web" :> 1) @@ ("db" :> 0)
Reading == {{x}}
=============================================================================
